------------------------ MODULE RingItemPumpProofs ------------------------
(***************************************************************************)
(* Proofs about RingItemPump, for any set of workers, any chunk and item   *)
(* sizes and any number of ring items.                                     *)
(***************************************************************************)
EXTENDS RingItemPump, FiniteSetTheorems, SequenceTheorems, TLAPS

\* The items of an event or of a block are read from its front.
LEMMA HeadTail ==
  ASSUME NEW S, NEW s \in Seq(S), s # <<>>
  PROVE  Head(s) \in S /\ Tail(s) \in Seq(S)
OBVIOUS

LEMMA SingletonTail ==
  ASSUME NEW S, NEW s \in Seq(S), Len(s) = 1
  PROVE  Tail(s) = <<>>
<1>1. s # <<>>
  BY EmptySeq
<1>2. Tail(s) \in Seq(S) /\ Len(Tail(s)) = Len(s) - 1
  BY <1>1, HeadTailProperties
<1>3. Len(Tail(s)) \notin Nat \ {0}
  BY <1>2
<1> QED
  BY <1>2, <1>3, EmptySeq, Zenon

\* What the data source delivers is a ring item.
LEMMA NextItemsTyped ==
  ASSUME RootTypeOK, NEW i \in NextItems
  PROVE  i \in Item
<1>1. source \in Seq(Item)
  BY DEF RootTypeOK
<1>2. CurrentRun \in Nat
  <2>1. CASE source = <<>>
    BY <2>1 DEF CurrentRun
  <2>2. CASE source # <<>>
    <3>1. source[Len(source)] \in Item
      BY <1>1, <2>2
    <3> QED
      BY <3>1, <2>2 DEF CurrentRun, Item
  <2> QED
    BY <2>1, <2>2
<1>3. ASSUME NEW t \in ItemTypes, NEW r \in Nat,
             NEW sizes \in {PhysicsBytes, OtherBytes}
      PROVE  ItemsOf(t, r, sizes) \subseteq Item
  <2>1. Len(source) + 1 \in Nat
    BY <1>1
  <2>2. sizes \subseteq Nat \ {0}
    BY BytesAssumption
  <2> QED
    BY <2>1, <2>2 DEF ItemsOf, Item
<1>4. CurrentRun + 1 \in Nat
  BY <1>2
<1>5. {Physics, "END_RUN", "OTHER", "BEGIN_RUN"} \subseteq ItemTypes
  BY DEF ItemTypes
<1> QED
  BY <1>2, <1>3, <1>4, <1>5 DEF NextItems

---------------------------------------------------------------------------
(* Types.  What a step sends is typed only because the root never sends    *)
(* past the end of a block or a broadcast: RootProgress is part of the     *)
(* induction.                                                              *)

\* countPhysicsItems and updateStatistics keep the statistics typed.
LEMMA StatisticsTyped ==
  ASSUME NEW s \in Statistics, NEW i \in Item, decoderRun \in Nat
  PROVE  CountPhysics(s) \in Statistics /\ UpdateStatistics(s, i) \in Statistics
<1>1. BeginStatistics(s) \in Statistics
  BY DEF BeginStatistics, Statistics
<1>2. EndStatistics(s) \in Statistics
  BY DEF EndStatistics, Statistics
<1>3. CountPhysics(s) \in Statistics
  BY DEF CountPhysics, Statistics
<1> QED
  BY <1>1, <1>2, <1>3 DEF UpdateStatistics

\* What flush and the code after it do to the root's variables.
LEMMA FlushTyped ==
  ASSUME RootTypeOK, NEW i \in Item, Flush(i)
  PROVE  /\ rootPc' \in {"idle", "request", "broadcast"}
         /\ pending' \in Item
         /\ sent' \in Nat
         /\ stats' \in Statistics
<1>1. NoItem \in Item
  BY DEF NoItem, Item, ItemTypes
<1>2. CountPhysics(stats) \in Statistics /\ UpdateStatistics(stats, i) \in Statistics
  BY StatisticsTyped DEF RootTypeOK
<1>3. AfterFlush(i) => /\ rootPc' \in {"idle", "broadcast"}
                       /\ pending' \in Item
                       /\ sent' \in Nat
                       /\ stats' \in Statistics
  BY <1>1, <1>2 DEF AfterFlush, RootTypeOK
<1> QED
  BY <1>3 DEF Flush, RootTypeOK

\* The root's variables, one step for every action that changes them.
LEMMA RootTyped ==
  ASSUME TypeOK, RootProgress, Next
  PROVE  RootTypeOK' /\ RootProgress'
<1> USE DEF RootTypeOK, RootProgress, BlockSize
<1>0. RootTypeOK /\ LongBytes \in Nat \ {0} /\ MaxMessage \in Nat \ {0}
      /\ NoWorker \notin Workers
  BY BytesAssumption, WorkersAssumption DEF TypeOK
<1>1. NoItem \in Item /\ StopItem \in Item
  BY DEF NoItem, StopItem, Item, ItemTypes
<1>2. \A n \in ChunkSizes : ChunkLimit(n) \in Nat \ {0}
  BY ChunkSizesAssumption DEF ChunkLimit
<1>3. CASE SendRingItem
  <2>1. PICK i \in NextItems :
          /\ source' = Append(source, i)
          /\ IF NumItems = 0 THEN \E n \in ChunkSizes : maxItems' = ChunkLimit(n)
                             ELSE UNCHANGED maxItems
          /\ buffer' = [items |-> Append(buffer.items, i),
                        bytes |-> buffer.bytes + i.bytes]
          /\ IF NumItems + 1 >= maxItems'
             THEN rootPc' = "request" /\ pending' = i /\ UNCHANGED stats
             ELSE stats' = CountPhysics(stats) /\ UNCHANGED <<rootPc, pending>>
    BY <1>3 DEF SendRingItem
  <2>2. i \in Item
    BY <1>0, NextItemsTyped
  <2>3. CountPhysics(stats) \in Statistics
    BY <1>0, <2>2, StatisticsTyped
  <2>4. i.bytes \in Nat
    BY <2>2 DEF Item
  <2>5. maxItems' \in Nat \ {0}
    BY <1>0, <1>2, <2>1
  <2>6. /\ source' \in Seq(Item)
        /\ buffer' \in [items: Seq(Item), bytes: Nat]
        /\ buffer'.bytes > 0
    BY <1>0, <2>1, <2>2, <2>4
  <2>7. /\ rootPc' \in {"idle", "request"}
        /\ pending' \in Item
        /\ stats' \in Statistics
    BY <1>0, <1>3, <2>1, <2>2, <2>3 DEF SendRingItem
  <2> QED
    BY <1>0, <1>3, <2>5, <2>6, <2>7 DEF SendRingItem
<1>4. ASSUME NEW i \in Item, Flush(i), rootPc = "idle",
             UNCHANGED <<buffer, maxItems, dest, decoderRun>>,
             source' \in Seq(Item)
      PROVE  RootTypeOK' /\ RootProgress'
  <2>1. /\ rootPc' \in {"idle", "request", "broadcast"}
        /\ pending' \in Item
        /\ sent' \in Nat
        /\ stats' \in Statistics
    BY <1>0, <1>4, FlushTyped
  <2>2. (rootPc' = "broadcast") => (sent' < pending'.bytes)
    BY <1>0, <1>4 DEF Flush, AfterFlush, Item
  <2> QED
    BY <1>0, <1>4, <2>1, <2>2
<1>5. CASE BroadcastRingItem
  <2>1. PICK i \in NextItems : source' = Append(source, i) /\ Flush(i)
    BY <1>5 DEF BroadcastRingItem
  <2>2. i \in Item
    BY <1>0, NextItemsTyped
  <2> QED
    BY <1>0, <1>4, <1>5, <2>1, <2>2 DEF BroadcastRingItem
<1>6. CASE OnSourceAttach
  BY <1>0, <1>1, <1>4, <1>6 DEF OnSourceAttach
<1>7. CASE RootExit
  BY <1>0, <1>1, <1>4, <1>7 DEF RootExit
<1>8. CASE GetDestination
  BY <1>0, <1>8 DEF GetDestination
<1>9. CASE TransmitChunk
  <2> DEFINE n == PartBytes(buffer.bytes)
  <2>1. n \in Nat /\ sent + n \in Nat
    BY <1>0, <1>9 DEF TransmitChunk, PartBytes
  <2>2. CASE sent + n < buffer.bytes
    BY <1>0, <1>9, <2>1, <2>2 DEF TransmitChunk
  <2>3. CASE ~(sent + n < buffer.bytes)
    <3>1. /\ buffer' = EmptyBuffer
          /\ dest' = NoWorker
          /\ AfterFlush(pending)
      BY <1>9, <2>3 DEF TransmitChunk, InitBuffer
    <3>2. EmptyBuffer \in [items: Seq(Item), bytes: Nat] /\ EmptyBuffer.bytes > 0
      BY <1>0 DEF EmptyBuffer
    <3>3. CountPhysics(stats) \in Statistics
          /\ UpdateStatistics(stats, pending) \in Statistics
      BY <1>0, StatisticsTyped
    <3>4. /\ rootPc' \in {"idle", "broadcast"}
          /\ pending' \in Item
          /\ sent' \in Nat
          /\ stats' \in Statistics
          /\ (rootPc' = "broadcast") => (sent' < pending'.bytes)
      BY <1>0, <1>1, <3>1, <3>3 DEF AfterFlush, Item
    <3> QED
      BY <1>0, <1>9, <3>1, <3>2, <3>4 DEF TransmitChunk
  <2> QED
    BY <2>2, <2>3
<1>10. CASE BroadcastChunk
  <2> DEFINE n == PartBytes(pending.bytes)
  <2>1. pending.bytes \in Nat /\ pending.run \in Nat
    BY <1>0 DEF Item
  <2>2. n \in Nat /\ sent + n \in Nat
    BY <1>0, <1>10, <2>1 DEF BroadcastChunk, PartBytes
  <2>3. CASE sent + n < pending.bytes
    BY <1>0, <1>10, <2>1, <2>2, <2>3 DEF BroadcastChunk
  <2>4. CASE ~(sent + n < pending.bytes)
    BY <1>0, <1>1, <1>10, <2>1, <2>2, <2>4 DEF BroadcastChunk
  <2> QED
    BY <2>3, <2>4
<1>11. ASSUME NEW w \in Workers, Worker(w)
       PROVE  UNCHANGED rootVars
  BY <1>11 DEF Worker, PhysicsThread, MainThread, RequestFirst, ReceivePart,
     ReceiveMarker, ReceiveBroadcast, ReceiveCommand, StartEvent, DispatchItem,
     FinishEvent, WorkerExit
<1>12. CASE UNCHANGED rootVars
  BY <1>0, <1>12 DEF rootVars
<1> QED
  BY <1>3, <1>5, <1>6, <1>7, <1>8, <1>9, <1>10, <1>11, <1>12
     DEF Next, Root, RootContinues

\* A part is typed when its bytes are.
LEMMA PartTyped ==
  ASSUME RootTypeOK, NEW items \in Seq(Item), NEW total \in Nat, sent < total
  PROVE  [items |-> items, total |-> total, offset |-> sent,
          bytes |-> PartBytes(total)] \in Part
<1>1. PartBytes(total) \in Nat
  BY BytesAssumption DEF PartBytes, RootTypeOK
<1> QED
  BY <1>1 DEF Part, RootTypeOK

\* The channels, one step for every action that sends or receives.
LEMMA ChannelTyped ==
  ASSUME TypeOK, RootProgress, Next
  PROVE  ChannelTypeOK'
<1> USE DEF ChannelTypeOK
<1>0. RootTypeOK /\ ChannelTypeOK
  BY DEF TypeOK
<1>1. CASE GetDestination
  BY <1>0, <1>1 DEF GetDestination, workerVars
<1>2. CASE TransmitChunk
  <2>1. PICK part \in Part : ptp' = [ptp EXCEPT ![dest] = Append(@, part)]
    BY <1>0, <1>2, PartTyped DEF TransmitChunk, RootTypeOK, RootProgress, BlockSize
  <2>2. dest \in Workers
    BY <1>0, <1>2 DEF TransmitChunk, RootTypeOK, RootProgress
  <2>3. ptp' \in [Workers -> Seq(Part)]
    BY <1>0, <2>1, <2>2
  <2> QED
    BY <1>0, <1>2, <2>3 DEF TransmitChunk
<1>3. CASE BroadcastChunk
  <2>1. pending.bytes \in Nat /\ <<pending>> \in Seq(Item)
    BY <1>0 DEF RootTypeOK, Item
  <2>2. PICK part \in Part : bcast' = [w \in Workers |-> Append(bcast[w], part)]
    BY <1>0, <1>3, <2>1, PartTyped DEF BroadcastChunk, RootProgress
  <2>3. bcast' \in [Workers -> Seq(Part)]
    BY <1>0, <2>2
  <2> QED
    BY <1>0, <1>3, <2>3 DEF BroadcastChunk
<1>4. CASE RootExit
  BY <1>0, <1>4 DEF RootExit
<1>5. CASE SendRingItem \/ BroadcastRingItem \/ OnSourceAttach
  BY <1>0, <1>5 DEF SendRingItem, BroadcastRingItem, OnSourceAttach
<1>6. ASSUME NEW w \in Workers, Worker(w)
      PROVE  ChannelTypeOK'
  <2>1. CASE RequestFirst(w)
    BY <1>0, <2>1 DEF RequestFirst
  <2>2. CASE ReceivePart(w)
    BY <1>0, <2>2 DEF ReceivePart
  <2>3. CASE ReceiveMarker(w)
    BY <1>0, <2>3 DEF ReceiveMarker
  <2>4. CASE ReceiveBroadcast(w)
    BY <1>0, <2>4 DEF ReceiveBroadcast
  <2>5. CASE ReceiveCommand(w)
    BY <1>0, <2>5 DEF ReceiveCommand
  <2>6. CASE StartEvent(w) \/ DispatchItem(w)
    BY <1>0, <2>6 DEF StartEvent, DispatchItem
  <2>7. CASE FinishEvent(w)
    BY <1>0, <2>7 DEF FinishEvent, RequestNext
  <2>8. CASE WorkerExit(w)
    BY <1>0, <2>8 DEF WorkerExit
  <2> QED
    BY <1>6, <2>1, <2>2, <2>3, <2>4, <2>5, <2>6, <2>7, <2>8
       DEF Worker, PhysicsThread, MainThread
<1> QED
  BY <1>1, <1>2, <1>3, <1>4, <1>5, <1>6 DEF Next, Root, RootContinues

\* An event of a typed part is typed.
LEMMA EventTyped ==
  ASSUME NEW kind \in {"targeted", "broadcast", "exit", "none"},
         NEW items \in Seq(Item)
  PROVE  [kind |-> kind, items |-> items] \in Event
BY DEF Event

\* The workers' threads, one step for every action of theirs.
LEMMA WorkerTyped ==
  ASSUME TypeOK, RootProgress, Next
  PROVE  WorkerTypeOK'
<1> USE DEF WorkerTypeOK
<1>0. ChannelTypeOK /\ WorkerTypeOK
  BY DEF TypeOK
<1>1. CASE UNCHANGED workerVars
  BY <1>0, <1>1 DEF workerVars
<1>2. Root => UNCHANGED workerVars
  BY DEF Root, RootContinues, SendRingItem, BroadcastRingItem, OnSourceAttach,
     RootExit, GetDestination, TransmitChunk, BroadcastChunk
<1>3. ASSUME NEW w \in Workers, Worker(w)
      PROVE  WorkerTypeOK'
  <2>0. ASSUME NEW e \in Event, QueueEvent(w, e)
        PROVE  evq' \in [Workers -> Seq(Event)]
    BY <1>0, <2>0 DEF QueueEvent
  <2>1. CASE RequestFirst(w)
    <3>1. phys' \in [Workers -> [pc: {"start", "first", "more", "done", "fatal"},
                                 missing: Nat]]
      BY <1>0, <2>1 DEF RequestFirst
    <3> QED
      BY <1>0, <2>1, <3>1 DEF RequestFirst
  <2>2. CASE ReceivePart(w)
    <3> DEFINE part == Head(ptp[w])
               missing == (IF phys[w].pc = "first" THEN part.total
                                             ELSE phys[w].missing) - part.bytes
    <3>1. part \in Part
      BY <1>0, <2>2, HeadTail DEF ReceivePart, ChannelTypeOK
    <3>2. missing \in Int
      BY <1>0, <3>1 DEF Part
    <3>3. CASE Complete(missing)
      <4>1. [kind |-> "targeted", items |-> part.items] \in Event
        BY <3>1, EventTyped DEF Part
      <4>2. evq' \in [Workers -> Seq(Event)]
        BY <2>0, <2>2, <3>3, <4>1 DEF ReceivePart
      <4>3. phys' = [phys EXCEPT ![w] = [pc |-> "first", missing |-> 0]]
        BY <2>2, <3>3 DEF ReceivePart
      <4> QED
        BY <1>0, <2>2, <4>2, <4>3 DEF ReceivePart
    <3>4. CASE ~Complete(missing)
      <4>1. missing \in Nat
        BY <3>2, <3>4 DEF Complete
      <4>2. phys' = [phys EXCEPT ![w] = [pc |-> "more", missing |-> missing]]
            /\ UNCHANGED evq
        BY <2>2, <3>4 DEF ReceivePart
      <4> HIDE DEF missing
      <4> QED
        BY <1>0, <2>2, <4>1, <4>2 DEF ReceivePart
    <3> QED
      BY <3>3, <3>4
  <2>3. CASE ReceiveMarker(w)
    <3>1. phys' \in [Workers -> [pc: {"start", "first", "more", "done", "fatal"},
                                 missing: Nat]]
      BY <1>0, <2>3 DEF ReceiveMarker
    <3> QED
      BY <1>0, <2>3, <3>1 DEF ReceiveMarker
  <2>4. CASE ReceiveBroadcast(w)
    <3> DEFINE part == Head(bcast[w])
               missing == (IF nonphys[w].pc = "first" THEN part.total
                                          ELSE nonphys[w].missing) - part.bytes
    <3>1. part \in Part
      BY <1>0, <2>4, HeadTail DEF ReceiveBroadcast, ChannelTypeOK
    <3>2. missing \in Int
      BY <1>0, <3>1 DEF Part
    <3>3. CASE part.items[1].type = "STOP"
      <4>1. nonphys' = [nonphys EXCEPT ![w].pc = "done"] /\ UNCHANGED evq
        BY <2>4, <3>3 DEF ReceiveBroadcast
      <4>2. nonphys' \in [Workers -> [pc: {"first", "more", "done"}, missing: Nat]]
        BY <1>0, <4>1
      <4> QED
        BY <1>0, <2>4, <4>1, <4>2 DEF ReceiveBroadcast
    <3>4. CASE part.items[1].type # "STOP" /\ missing > 0
      <4>1. nonphys' = [nonphys EXCEPT ![w] = [pc |-> "more", missing |-> missing]]
            /\ UNCHANGED evq
        BY <2>4, <3>4 DEF ReceiveBroadcast
      <4>2. missing \in Nat
        BY <3>2, <3>4
      <4> HIDE DEF missing
      <4> QED
        BY <1>0, <2>4, <4>1, <4>2 DEF ReceiveBroadcast
    <3>5. CASE part.items[1].type # "STOP" /\ ~(missing > 0)
      <4>1. nonphys' = [nonphys EXCEPT ![w] = [pc |-> "first", missing |-> 0]]
            /\ QueueEvent(w, [kind |-> "broadcast", items |-> part.items])
        BY <2>4, <3>5 DEF ReceiveBroadcast
      <4>2. [kind |-> "broadcast", items |-> part.items] \in Event
        BY <3>1, EventTyped DEF Part
      <4>3. evq' \in [Workers -> Seq(Event)]
        BY <2>0, <4>1, <4>2
      <4> QED
        BY <1>0, <2>4, <4>1, <4>3 DEF ReceiveBroadcast
    <3> QED
      BY <3>3, <3>4, <3>5
  <2>5. CASE ReceiveCommand(w)
    <3>1. [kind |-> "exit", items |-> <<>>] \in Event
      BY DEF Event
    <3> QED
      BY <1>0, <2>0, <2>5, <3>1 DEF ReceiveCommand
  <2>6. CASE StartEvent(w) \/ WorkerExit(w)
    <3>1. Head(evq[w]) \in Event /\ Tail(evq[w]) \in Seq(Event)
      BY <1>0, <2>6, HeadTail DEF StartEvent, WorkerExit
    <3> QED
      BY <1>0, <2>6, <3>1, ZenonT(60) DEF StartEvent, WorkerExit
  <2>7. CASE DispatchItem(w)
    <3>1. main[w].items \in Seq(Item) /\ main[w].kind \in {"targeted", "broadcast", "exit", "none"}
      BY <1>0 DEF Event
    <3>2. Head(main[w].items) \in Item /\ Tail(main[w].items) \in Seq(Item)
      BY <2>7, <3>1, HeadTail DEF DispatchItem
    <3>3. main' \in [Workers -> Event]
      BY <1>0, <2>7, <3>1, <3>2 DEF DispatchItem, Event
    <3> QED
      BY <1>0, <2>7, <3>2, <3>3 DEF DispatchItem
  <2>8. CASE FinishEvent(w)
    <3>1. Idle \in Event
      BY DEF Event, Idle
    <3> QED
      BY <1>0, <2>8, <3>1 DEF FinishEvent
  <2> QED
    BY <1>3, <2>1, <2>2, <2>3, <2>4, <2>5, <2>6, <2>7, <2>8
       DEF Worker, PhysicsThread, MainThread
<1> QED
  BY <1>1, <1>2, <1>3 DEF Next

LEMMA InitTyped ==
  ASSUME Init
  PROVE  TypeOK /\ RootProgress
<1>1. EmptyBuffer \in [items: Seq(Item), bytes: Nat] /\ EmptyBuffer.bytes > 0
  BY BytesAssumption DEF EmptyBuffer
<1>2. NoItem \in Item
  BY DEF NoItem, Item, ItemTypes
<1>3. maxItems \in Nat \ {0}
  BY ChunkSizesAssumption DEF Init, ChunkLimit
<1>4. RootTypeOK /\ RootProgress
  BY <1>1, <1>2, <1>3, WorkersAssumption DEF Init, RootTypeOK, RootProgress, Statistics
<1>5. ChannelTypeOK
  BY DEF Init, ChannelTypeOK
<1>6. Idle \in Event
  BY DEF Event, Idle
<1>7. WorkerTypeOK
  BY <1>6 DEF Init, WorkerTypeOK
<1> QED
  BY <1>4, <1>5, <1>7 DEF TypeOK

---------------------------------------------------------------------------
(* Flow control and framing.  They hold together: a request leaves before  *)
(* its block is complete only if the bytes were miscounted, and the bytes  *)
(* of two blocks mix only if a worker asked for the second one too early.  *)

\* The bytes physicsThread is still missing after the first part on its way.
Missing(w) == (IF phys[w].pc = "first" THEN Head(ptp[w]).total
                                       ELSE phys[w].missing) - Head(ptp[w]).bytes

\* They are the bytes of the block behind that part.
LEMMA MissingExact ==
  ASSUME TypeOK, Framing, NEW w \in Workers, phys[w].pc \in {"first", "more"},
         ptp[w] # <<>>
  PROVE  /\ ptp[w] \in Seq(Part) /\ Len(ptp[w]) > 0
         /\ ptp[w][1] \in Part /\ Head(ptp[w]) = ptp[w][1]
         /\ Missing(w) = ptp[w][1].total - (ptp[w][1].offset + ptp[w][1].bytes)
         /\ Missing(w) \in Nat
<1>1. ptp[w] \in Seq(Part) /\ Len(ptp[w]) > 0 /\ Len(ptp[w]) \in Nat
  BY DEF TypeOK, ChannelTypeOK
<1>2. ptp[w][1] \in Part /\ Head(ptp[w]) = ptp[w][1]
  BY <1>1
<1>3. /\ ptp[w][1].total \in Nat
      /\ ptp[w][1].offset \in Nat
      /\ ptp[w][1].bytes \in Nat
  BY <1>2 DEF Part
<1>4. ptp[w][1].offset + ptp[w][1].bytes <= ptp[w][1].total
  BY <1>1 DEF Framing, PartsFit
<1>5. /\ (phys[w].pc = "first") => (ptp[w][1].offset = 0)
      /\ (phys[w].pc = "more") =>
           (ptp[w][1].total - ptp[w][1].offset = phys[w].missing)
  BY <1>2 DEF Framing, FrontMatches
<1>6. Missing(w) = ptp[w][1].total - (ptp[w][1].offset + ptp[w][1].bytes)
  BY <1>2, <1>3, <1>5 DEF Missing
<1>7. Missing(w) \in Nat
  BY <1>3, <1>4, <1>6
<1> QED
  BY <1>1, <1>2, <1>6, <1>7

\* A part after which nothing is missing is the last one of its block, and the
\* root has sent all of that block.
LEMMA BlockComplete ==
  ASSUME TypeOK, Framing, NEW w \in Workers, phys[w].pc \in {"first", "more"},
         ptp[w] # <<>>, Complete(Missing(w))
  PROVE  Tail(ptp[w]) = <<>> /\ dest # w
<1>1. /\ ptp[w] \in Seq(Part) /\ Len(ptp[w]) > 0 /\ Len(ptp[w]) \in Nat
      /\ ptp[w][1] \in Part
  BY MissingExact
<1>2. ptp[w][1].offset + ptp[w][1].bytes = ptp[w][1].total
  <2>1. Missing(w) = 0
    BY MissingExact DEF Complete
  <2>2. /\ ptp[w][1].total \in Nat
        /\ ptp[w][1].offset \in Nat
        /\ ptp[w][1].bytes \in Nat
    BY <1>1 DEF Part
  <2> QED
    BY <2>1, <2>2, MissingExact
<1>3. Len(ptp[w]) = 1
  <2>1. ASSUME Len(ptp[w]) > 1
        PROVE  FALSE
    <3>1. 1 \in DOMAIN ptp[w] /\ 2 \in DOMAIN ptp[w] /\ ptp[w][2] \in Part
      BY <1>1, <2>1
    <3>2. /\ ptp[w][2].offset = ptp[w][1].total
          /\ ptp[w][2].total = ptp[w][1].total
      BY <1>2, <3>1 DEF Framing, PartsFit
    <3>3. ptp[w][2].bytes > 0 /\ ptp[w][2].offset + ptp[w][2].bytes <= ptp[w][2].total
      BY <3>1 DEF Framing, PartsFit
    <3> QED
      BY <1>1, <3>1, <3>2, <3>3 DEF Part
  <2> DEFINE l == Len(ptp[w])
  <2>2. l > 0 /\ l \in Nat /\ ~(l > 1)
    BY <1>1, <2>1
  <2> HIDE DEF l
  <2>3. l = 1
    BY <2>2
  <2> QED
    BY <2>3 DEF l
<1>4. dest # w
  <2> SUFFICES ASSUME dest = w
               PROVE  FALSE
    OBVIOUS
  <2>1. ptp[w][1].total = BlockSize /\ sent = BlockSize
    BY <1>2, <1>3 DEF Framing, BackMatches
  <2>2. sent < BlockSize
    BY WorkersAssumption DEF Framing, RootProgress
  <2>3. BlockSize \in Nat
    BY DEF TypeOK, RootTypeOK, BlockSize
  <2> QED
    BY <2>1, <2>2, <2>3
<1>5. Tail(ptp[w]) = <<>>
  BY <1>1, <1>3, SingletonTail
<1> QED
  BY <1>4, <1>5

\* Flow control of a worker depends only on its own requests, block and events.
LEMMA FlowUnchanged ==
  ASSUME NEW w \in Workers, OneOutstanding(w),
         UNCHANGED <<requests[w], phys[w].pc, evq[w], main[w].kind>>,
         Delivering(w)' => Delivering(w)
  PROVE  OneOutstanding(w)'
<1>1. (Queued(w)' = Queued(w)) /\ (Handling(w)' = Handling(w))
  BY DEF Queued, Handling
<1> QED
  BY <1>1, Zenon DEF OneOutstanding

\* The event queue holds at most one block.
OneQueued(w) ==
  \A j, k \in DOMAIN evq[w] :
    (evq[w][j].kind = "targeted" /\ evq[w][k].kind = "targeted") => (j = k)

\* Broadcasts and the exit command may be queued behind a block.
LEMMA QueueOther ==
  ASSUME TypeOK, NEW w \in Workers, NEW e \in Event, e.kind # "targeted",
         QueueEvent(w, e), OneQueued(w)
  PROVE  (Queued(w)' <=> Queued(w)) /\ OneQueued(w)'
<1>1. evq[w] \in Seq(Event) /\ evq'[w] = Append(evq[w], e)
  BY DEF QueueEvent, TypeOK, WorkerTypeOK
<1>2. /\ DOMAIN evq[w] = 1 .. Len(evq[w]) /\ Len(evq[w]) \in Nat
      /\ DOMAIN evq'[w] = 1 .. Len(evq[w]) + 1
      /\ \A k \in DOMAIN evq[w] : evq'[w][k] = evq[w][k]
      /\ evq'[w][Len(evq[w]) + 1] = e
  BY <1>1
<1>3. \A k \in DOMAIN evq'[w] : (evq'[w][k].kind = "targeted") => (k \in DOMAIN evq[w])
  BY <1>2
<1>4. Queued(w)' <=> Queued(w)
  BY <1>2, <1>3 DEF Queued
<1>5. OneQueued(w)'
  BY <1>2, <1>3 DEF OneQueued
<1> QED
  BY <1>4, <1>5

\* A block is queued when none is.
LEMMA QueueBlock ==
  ASSUME TypeOK, NEW w \in Workers, NEW e \in Event, QueueEvent(w, e), ~Queued(w)
  PROVE  OneQueued(w)'
<1>1. evq[w] \in Seq(Event) /\ evq'[w] = Append(evq[w], e)
  BY DEF QueueEvent, TypeOK, WorkerTypeOK
<1>2. /\ DOMAIN evq[w] = 1 .. Len(evq[w]) /\ Len(evq[w]) \in Nat
      /\ DOMAIN evq'[w] = 1 .. Len(evq[w]) + 1
      /\ \A k \in DOMAIN evq[w] : evq'[w][k] = evq[w][k]
  BY <1>1
<1>3. \A k \in DOMAIN evq'[w] :
        (evq'[w][k].kind = "targeted") => (k = Len(evq[w]) + 1)
  BY <1>2 DEF Queued
<1> QED
  BY <1>3 DEF OneQueued

\* The main thread takes the first event of its queue.
LEMMA TakeEvent ==
  ASSUME TypeOK, NEW w \in Workers, evq[w] # <<>>, OneQueued(w),
         evq' = [evq EXCEPT ![w] = Tail(@)]
  PROVE  /\ OneQueued(w)'
         /\ Queued(w)' => Queued(w)
         /\ (Head(evq[w]).kind = "targeted") => Queued(w) /\ ~Queued(w)'
<1>1. evq[w] \in Seq(Event) /\ evq'[w] = Tail(evq[w])
  BY DEF TypeOK, WorkerTypeOK
<1>2. /\ DOMAIN evq[w] = 1 .. Len(evq[w]) /\ Len(evq[w]) \in Nat \ {0}
      /\ DOMAIN evq'[w] = 1 .. Len(evq[w]) - 1
      /\ \A k \in 1 .. Len(evq[w]) - 1 : evq'[w][k] = evq[w][k + 1]
      /\ Head(evq[w]) = evq[w][1]
  <2>1. /\ Tail(evq[w]) \in Seq(Event) /\ Len(Tail(evq[w])) = Len(evq[w]) - 1
        /\ \A i \in 1 .. Len(Tail(evq[w])) : Tail(evq[w])[i] = evq[w][i + 1]
    BY <1>1, HeadTailProperties
  <2>2. DOMAIN evq[w] = 1 .. Len(evq[w]) /\ Len(evq[w]) \in Nat \ {0}
    BY <1>1
  <2>3. Len(Tail(evq[w])) \in Nat /\ DOMAIN Tail(evq[w]) = 1 .. Len(evq[w]) - 1
    BY <2>1, <2>2
  <2>4. Head(evq[w]) = evq[w][1]
    BY <1>1
  <2> QED
    BY <1>1, <2>1, <2>2, <2>3, <2>4, Zenon
<1>3. \A k \in DOMAIN evq'[w] : k + 1 \in DOMAIN evq[w] /\ evq'[w][k] = evq[w][k + 1]
  BY <1>2
<1>4. OneQueued(w)'
  BY <1>2, <1>3 DEF OneQueued
<1>5. Queued(w)' => Queued(w)
  BY <1>3 DEF Queued
<1>6. ASSUME Head(evq[w]).kind = "targeted"
      PROVE  Queued(w) /\ ~Queued(w)'
  BY <1>2, <1>3, <1>6 DEF Queued, OneQueued
<1> QED
  BY <1>4, <1>5, <1>6

\* The worker's own steps.
LEMMA FlowOfWorker ==
  ASSUME TypeOK, FlowControl, Framing, NEW w \in Workers, Worker(w)
  PROVE  OneOutstanding(w)'
<1>1. OneOutstanding(w) /\ OneQueued(w) /\ requests[w] \in Nat
  BY DEF FlowControl, OneOutstanding, OneQueued, TypeOK, ChannelTypeOK
<1>2. CASE RequestFirst(w)
  <2>1. /\ requests'[w] = requests[w] + 1
        /\ phys[w].pc = "start" /\ phys'[w].pc = "first"
        /\ UNCHANGED <<dest, ptp, evq, main>>
    BY <1>2 DEF RequestFirst, rootVars, TypeOK, ChannelTypeOK, WorkerTypeOK
  <2>2. ~Delivering(w)' /\ ~Queued(w)' /\ ~Handling(w)'
    BY <1>1, <2>1 DEF OneOutstanding, Delivering, Queued, Handling
  <2>3. requests'[w] = 1
    BY <1>1, <2>1 DEF OneOutstanding
  <2>4. OneQueued(w)'
    BY <1>1, <2>1 DEF OneQueued
  <2> QED
    BY <2>1, <2>2, <2>3, <2>4 DEF OneOutstanding, OneQueued
<1>3. CASE ReceivePart(w)
  <2>1. /\ phys[w].pc \in {"first", "more"} /\ ptp[w] # <<>>
        /\ ptp'[w] = Tail(ptp[w])
        /\ UNCHANGED <<dest, requests, main>>
    BY <1>3 DEF ReceivePart, rootVars, TypeOK, ChannelTypeOK
  <2>2. /\ Delivering(w) /\ ~Queued(w) /\ ~Handling(w)
        /\ requests[w] = 0
    BY <1>1, <2>1 DEF OneOutstanding, Delivering
  <2>3. CASE Complete(Missing(w))
    <3>1. PICK e \in Event : QueueEvent(w, e)
      <4>1. Head(ptp[w]).items \in Seq(Item)
        BY <2>1, MissingExact DEF Part
      <4>2. QueueEvent(w, [kind |-> "targeted", items |-> Head(ptp[w]).items])
        BY <1>3, <2>3 DEF ReceivePart, Missing
      <4> QED
        BY <4>1, <4>2, EventTyped
    <3>2. phys'[w].pc = "first"
      BY <1>3, <2>3 DEF ReceivePart, Missing, TypeOK, WorkerTypeOK
    <3>3. ~Delivering(w)'
      BY <2>1, <2>3, <3>2, BlockComplete DEF Delivering
    <3>4. OneQueued(w)'
      BY <2>2, <3>1, QueueBlock
    <3> QED
      BY <2>1, <2>2, <3>2, <3>3, <3>4 DEF OneOutstanding, OneQueued, Handling
  <2>4. CASE ~Complete(Missing(w))
    <3>1. phys'[w].pc = "more" /\ UNCHANGED evq
      BY <1>3, <2>4 DEF ReceivePart, Missing, TypeOK, WorkerTypeOK
    <3>2. ~Queued(w)' /\ ~Handling(w)' /\ OneQueued(w)'
      BY <1>1, <2>1, <2>2, <3>1 DEF Queued, Handling, OneQueued
    <3> QED
      BY <2>1, <2>2, <3>1, <3>2 DEF OneOutstanding, OneQueued
  <2> QED
    BY <2>3, <2>4
<1>4. CASE ReceiveMarker(w)
  <2>1. /\ phys[w].pc # "start" /\ phys'[w].pc \in {"done", "fatal"}
        /\ UNCHANGED <<dest, requests, ptp, evq, main>>
    BY <1>4 DEF ReceiveMarker, rootVars, TypeOK, WorkerTypeOK
  <2>2. (Delivering(w)' => Delivering(w)) /\ (Queued(w)' = Queued(w))
        /\ (Handling(w)' = Handling(w)) /\ OneQueued(w)'
    BY <1>1, <2>1 DEF Delivering, Queued, Handling, OneQueued
  <2> QED
    BY <1>1, <2>1, <2>2 DEF OneOutstanding, OneQueued
<1>5. ASSUME NEW e \in Event, e.kind # "targeted", QueueEvent(w, e),
             UNCHANGED <<dest, requests, ptp, phys, main>>
      PROVE  OneOutstanding(w)'
  <2>1. (Queued(w)' <=> Queued(w)) /\ OneQueued(w)'
    BY <1>1, <1>5, QueueOther
  <2>2. (Delivering(w)' <=> Delivering(w)) /\ (Handling(w)' <=> Handling(w))
    BY <1>5 DEF Delivering, Handling
  <2> QED
    BY <1>1, <1>5, <2>1, <2>2 DEF OneOutstanding, OneQueued
<1>6. ASSUME UNCHANGED <<dest, requests, ptp, phys, main, evq>>
      PROVE  OneOutstanding(w)'
  BY <1>1, <1>6 DEF OneOutstanding, Delivering, Queued, Handling
<1>7. CASE ReceiveBroadcast(w)
  <2>1. UNCHANGED <<dest, requests, ptp, phys, main>>
    BY <1>7 DEF ReceiveBroadcast, rootVars
  <2>2. CASE UNCHANGED evq
    BY <1>6, <2>1, <2>2
  <2>3. CASE ~UNCHANGED evq
    <3>1. QueueEvent(w, [kind |-> "broadcast", items |-> Head(bcast[w]).items])
      BY <1>7, <2>3 DEF ReceiveBroadcast
    <3>2. Head(bcast[w]).items \in Seq(Item)
      <4>1. bcast[w] # <<>> /\ bcast[w] \in Seq(Part)
        BY <1>7 DEF ReceiveBroadcast, TypeOK, ChannelTypeOK
      <4>2. Head(bcast[w]) \in Part
        BY <4>1, HeadTail
      <4> QED
        BY <4>2 DEF Part
    <3>3. [kind |-> "broadcast", items |-> Head(bcast[w]).items] \in Event
      BY <3>2, EventTyped
    <3> QED
      BY <1>5, <2>1, <3>1, <3>3
  <2> QED
    BY <2>2, <2>3
<1>8. CASE ReceiveCommand(w)
  <2>1. [kind |-> "exit", items |-> <<>>] \in Event
    BY DEF Event
  <2> QED
    BY <1>5, <1>8, <2>1 DEF ReceiveCommand, rootVars
<1>9. CASE StartEvent(w) \/ WorkerExit(w)
  <2>1. /\ main[w].kind = "none" /\ evq[w] # <<>>
        /\ main'[w] = Head(evq[w]) /\ evq' = [evq EXCEPT ![w] = Tail(@)]
        /\ UNCHANGED <<dest, requests, ptp, phys>>
    BY <1>9 DEF StartEvent, WorkerExit, rootVars, TypeOK, WorkerTypeOK
  <2>2. /\ OneQueued(w)'
        /\ Queued(w)' => Queued(w)
        /\ Handling(w)' => Queued(w) /\ ~Queued(w)'
    BY <1>1, <2>1, TakeEvent DEF Handling
  <2>3. Delivering(w)' <=> Delivering(w)
    BY <2>1 DEF Delivering
  <2> QED
    BY <1>1, <2>1, <2>2, <2>3 DEF OneOutstanding, OneQueued
<1>10. CASE DispatchItem(w)
  <2>1. main'[w].kind = main[w].kind
    BY <1>10 DEF DispatchItem, TypeOK, WorkerTypeOK, Event
  <2>2. UNCHANGED <<dest, requests, ptp, phys, evq>>
    BY <1>10 DEF DispatchItem, rootVars
  <2> QED
    BY <1>1, <2>1, <2>2 DEF OneOutstanding, Delivering, Queued, Handling
<1>11. CASE FinishEvent(w)
  <2>1. /\ main[w].kind \in {"targeted", "broadcast"} /\ main'[w].kind = "none"
        /\ requests'[w] = IF main[w].kind = "targeted" THEN requests[w] + 1
                                                      ELSE requests[w]
        /\ UNCHANGED <<dest, ptp, phys, evq>>
    BY <1>11 DEF FinishEvent, RequestNext, rootVars, Idle, TypeOK, WorkerTypeOK,
       ChannelTypeOK
  <2>2. /\ (Delivering(w)' <=> Delivering(w)) /\ (Queued(w)' <=> Queued(w))
        /\ ~Handling(w)' /\ OneQueued(w)'
    BY <1>1, <2>1 DEF Delivering, Queued, Handling, OneQueued
  <2> QED
    BY <1>1, <2>1, <2>2 DEF OneOutstanding, OneQueued, Handling
<1> QED
  BY <1>2, <1>3, <1>4, <1>7, <1>8, <1>9, <1>10, <1>11 DEF Worker, PhysicsThread, MainThread

\* A worker leaves the root and the other workers alone.
LEMMA OthersUnchanged ==
  ASSUME TypeOK, NEW w \in Workers, Worker(w), NEW v \in Workers, v # w
  PROVE  UNCHANGED <<rootVars, requests[v], ptp[v], phys[v], evq[v], main[v]>>
<1>0. ChannelTypeOK /\ WorkerTypeOK
  BY DEF TypeOK
<1> USE DEF ChannelTypeOK, WorkerTypeOK, QueueEvent
<1>1. CASE RequestFirst(w)
  BY <1>0, <1>1 DEF RequestFirst
<1>2. CASE ReceivePart(w)
  BY <1>0, <1>2 DEF ReceivePart
<1>3. CASE ReceiveMarker(w)
  BY <1>0, <1>3 DEF ReceiveMarker
<1>4. CASE ReceiveBroadcast(w)
  BY <1>0, <1>4 DEF ReceiveBroadcast
<1>5. CASE ReceiveCommand(w)
  BY <1>0, <1>5 DEF ReceiveCommand
<1>6. CASE StartEvent(w) \/ WorkerExit(w)
  BY <1>0, <1>6 DEF StartEvent, WorkerExit
<1>7. CASE DispatchItem(w)
  BY <1>0, <1>7 DEF DispatchItem
<1>8. CASE FinishEvent(w)
  BY <1>0, <1>8 DEF FinishEvent, RequestNext
<1> QED
  BY <1>1, <1>2, <1>3, <1>4, <1>5, <1>6, <1>7, <1>8
     DEF Worker, PhysicsThread, MainThread

\* The root's steps change the flow of the worker they deal with only.
LEMMA FlowOfRoot ==
  ASSUME TypeOK, FlowControl, RootProgress, Root, NEW w \in Workers
  PROVE  OneOutstanding(w)'
<1>1. OneOutstanding(w) /\ requests[w] \in Nat
  BY DEF FlowControl, TypeOK, ChannelTypeOK
<1>2. UNCHANGED <<phys, evq, main>>
  BY DEF Root, RootContinues, SendRingItem, BroadcastRingItem, OnSourceAttach,
     RootExit, GetDestination, TransmitChunk, BroadcastChunk, workerVars
<1>3. CASE GetDestination
  <2>1. PICK v \in Workers : /\ requests[v] > 0
                             /\ requests' = [requests EXCEPT ![v] = @ - 1]
                             /\ dest' = v
    BY <1>3 DEF GetDestination
  <2>2. UNCHANGED ptp /\ dest = NoWorker
    BY <1>3 DEF GetDestination, RootProgress
  <2>3. CASE v = w
    <3>1. requests[w] = 1 /\ requests'[w] = 0
      BY <1>1, <2>1, <2>3 DEF OneOutstanding, TypeOK, ChannelTypeOK
    <3>2. (Queued(w)' <=> Queued(w)) /\ (Handling(w)' <=> Handling(w))
      BY <1>2 DEF Queued, Handling
    <3> QED
      BY <1>1, <1>2, <3>1, <3>2 DEF OneOutstanding
  <2>4. CASE v # w
    <3>1. requests'[w] = requests[w]
      BY <2>1, <2>4 DEF TypeOK, ChannelTypeOK
    <3>2. Delivering(w)' => Delivering(w)
      BY <1>2, <2>1, <2>2, <2>4 DEF Delivering
    <3> QED
      BY <1>1, <1>2, <3>1, <3>2, FlowUnchanged
  <2> QED
    BY <2>3, <2>4
<1>4. CASE TransmitChunk
  <2>1. Delivering(w)' => Delivering(w)
    <3>1. dest' \in {dest, NoWorker} /\ dest \in Workers
      BY <1>4 DEF TransmitChunk, RootProgress, TypeOK, RootTypeOK
    <3>2. (dest # w) => UNCHANGED ptp[w]
      BY <1>4, <3>1 DEF TransmitChunk, TypeOK, ChannelTypeOK
    <3> QED
      BY <1>2, <3>1, <3>2, WorkersAssumption DEF Delivering
  <2>2. UNCHANGED requests
    BY <1>4 DEF TransmitChunk
  <2> QED
    BY <1>1, <1>2, <2>1, <2>2, FlowUnchanged
<1>5. CASE SendRingItem \/ BroadcastRingItem \/ OnSourceAttach \/ RootExit \/ BroadcastChunk
  <2>1. UNCHANGED <<dest, requests, ptp>>
    BY <1>5 DEF SendRingItem, BroadcastRingItem, OnSourceAttach, RootExit, BroadcastChunk
  <2>2. Delivering(w)' => Delivering(w)
    BY <1>2, <2>1 DEF Delivering
  <2> QED
    BY <1>1, <1>2, <2>1, <2>2, FlowUnchanged
<1> QED
  BY <1>3, <1>4, <1>5 DEF Root, RootContinues

LEMMA FlowStep ==
  ASSUME TypeOK, FlowControl, Framing, Next
  PROVE  FlowControl'
<1> SUFFICES ASSUME NEW v \in Workers
             PROVE  OneOutstanding(v)'
  BY DEF FlowControl
<1>1. CASE Root
  BY <1>1, FlowOfRoot DEF Framing
<1>2. ASSUME NEW w \in Workers, Worker(w)
      PROVE  OneOutstanding(v)'
  <2>1. CASE v = w
    BY <1>2, <2>1, FlowOfWorker
  <2>2. CASE v # w
    <3>1. UNCHANGED <<dest, requests[v], ptp[v], phys[v], evq[v], main[v]>>
      BY <1>2, <2>2, OthersUnchanged DEF rootVars
    <3>2. Delivering(v)' => Delivering(v)
      BY <3>1 DEF Delivering
    <3> QED
      BY <3>1, <3>2, FlowUnchanged DEF FlowControl
  <2> QED
    BY <2>1, <2>2
<1> QED
  BY <1>1, <1>2 DEF Next

\* The parts of worker w, seen from both of their ends
PartsFramed(w) == PartsFit(w) /\ FrontMatches(w) /\ BackMatches(w)

\* They stay framed when neither end moves.
LEMMA FramedUnchanged ==
  ASSUME NEW w \in Workers, PartsFramed(w),
         UNCHANGED <<phys[w], ptp[w]>>, dest' = w <=> dest = w,
         dest = w => UNCHANGED <<sent, BlockSize>>
  PROVE  PartsFramed(w)'
<1>1. PartsFit(w)' /\ FrontMatches(w)'
  BY DEF PartsFramed, PartsFit, FrontMatches
<1>2. BackMatches(w)'
  BY DEF PartsFramed, BackMatches
<1> QED
  BY <1>1, <1>2 DEF PartsFramed

\* The root's end: a block is begun where there is none, and each part follows
\* the one before it.
LEMMA FramedByRoot ==
  ASSUME TypeOK, FlowControl, Framing, Root, NEW w \in Workers
  PROVE  PartsFramed(w)'
<1>1. /\ PartsFramed(w) /\ RootProgress
      /\ ptp[w] \in Seq(Part) /\ NoWorker # w
      /\ sent \in Nat /\ buffer.bytes \in Nat /\ MaxMessage \in Nat \ {0}
  BY WorkersAssumption, BytesAssumption
     DEF Framing, PartsFramed, TypeOK, RootTypeOK, ChannelTypeOK
<1>2. UNCHANGED phys
  BY DEF Root, RootContinues, SendRingItem, BroadcastRingItem, OnSourceAttach,
     RootExit, GetDestination, TransmitChunk, BroadcastChunk, workerVars
<1>3. CASE GetDestination
  <2>1. PICK v \in Workers : requests[v] > 0 /\ dest' = v
    BY <1>3 DEF GetDestination
  <2>2. UNCHANGED <<ptp, buffer>> /\ dest = NoWorker /\ sent' = 0
    BY <1>1, <1>3 DEF GetDestination, RootProgress
  <2>3. CASE v = w
    <3>1. ptp[w] = <<>> /\ phys[w].pc # "more"
      BY <2>1, <2>3 DEF FlowControl, OneOutstanding, Delivering, TypeOK, ChannelTypeOK
    <3>2. PartsFit(w)' /\ FrontMatches(w)'
      BY <2>2, <3>1 DEF PartsFit, FrontMatches
    <3>3. BackMatches(w)'
      BY <1>2, <2>1, <2>2, <2>3, <3>1 DEF BackMatches
    <3> QED
      BY <3>2, <3>3 DEF PartsFramed
  <2>4. CASE v # w
    BY <1>1, <1>2, <2>1, <2>2, <2>4, FramedUnchanged
  <2> QED
    BY <2>3, <2>4
<1>4. CASE TransmitChunk
  <2> DEFINE n == PartBytes(buffer.bytes)
             part == [items |-> buffer.items, total |-> BlockSize,
                      offset |-> sent, bytes |-> n]
  <2>1. /\ dest \in Workers /\ sent < buffer.bytes
        /\ ptp' = [ptp EXCEPT ![dest] = Append(@, part)]
    BY <1>1, <1>4 DEF TransmitChunk, RootProgress, TypeOK, RootTypeOK, BlockSize
  <2>2. n \in Nat /\ n > 0 /\ sent + n <= buffer.bytes
    BY <1>1, <2>1 DEF PartBytes
  <2>3. CASE dest # w
    <3>1. UNCHANGED ptp[w] /\ dest' # w
      BY <1>1, <1>4, <2>1, <2>3 DEF TransmitChunk, TypeOK, ChannelTypeOK
    <3> QED
      BY <1>1, <1>2, <2>3, <3>1, FramedUnchanged
  <2>4. CASE dest = w
    <3>1. ptp'[w] = Append(ptp[w], part)
      BY <2>1, <2>4 DEF TypeOK, ChannelTypeOK
    <3>2. /\ part.total = buffer.bytes /\ part.offset = sent /\ part.bytes = n
      BY DEF BlockSize
    <3>3. /\ Len(ptp[w]) \in Nat
          /\ DOMAIN ptp[w] = 1 .. Len(ptp[w])
          /\ DOMAIN ptp'[w] = 1 .. Len(ptp[w]) + 1
          /\ Len(ptp'[w]) = Len(ptp[w]) + 1 /\ ptp'[w] # <<>>
          /\ \A k \in DOMAIN ptp[w] : ptp'[w][k] = ptp[w][k]
          /\ ptp'[w][Len(ptp[w]) + 1] = part
          /\ Head(ptp'[w]) = IF ptp[w] = <<>> THEN part ELSE Head(ptp[w])
          /\ (ptp[w] = <<>>) <=> (Len(ptp[w]) = 0)
      BY <1>1, <3>1
    <3>4. PartsFit(w)'
      <4>1. (ptp[w] # <<>>) =>
              /\ ptp[w][Len(ptp[w])].total = buffer.bytes
              /\ ptp[w][Len(ptp[w])].offset + ptp[w][Len(ptp[w])].bytes = sent
        BY <1>1, <2>4 DEF PartsFramed, BackMatches, BlockSize
      <4> SUFFICES ASSUME NEW k \in DOMAIN ptp'[w]
                   PROVE  /\ ptp'[w][k].bytes > 0
                          /\ ptp'[w][k].offset + ptp'[w][k].bytes <= ptp'[w][k].total
                          /\ (k + 1 \in DOMAIN ptp'[w]) =>
                               /\ ptp'[w][k + 1].offset =
                                    ptp'[w][k].offset + ptp'[w][k].bytes
                               /\ ptp'[w][k + 1].total = ptp'[w][k].total
        BY DEF PartsFit
      <4>2. CASE k = Len(ptp[w]) + 1
        BY <2>2, <3>2, <3>3, <4>2
      <4>3. CASE k = Len(ptp[w]) /\ k > 0
        BY <1>1, <3>2, <3>3, <4>1, <4>3, SMTT(30) DEF PartsFramed, PartsFit
      <4>4. CASE k < Len(ptp[w])
        <5>1. k \in DOMAIN ptp[w] /\ k + 1 \in DOMAIN ptp[w]
          BY <3>3, <4>4
        <5>2. ptp'[w][k] = ptp[w][k] /\ ptp'[w][k + 1] = ptp[w][k + 1]
          BY <3>3, <5>1
        <5> QED
          BY <1>1, <5>1, <5>2 DEF PartsFramed, PartsFit
      <4> QED
        BY <3>3, <4>2, <4>3, <4>4
    <3>5. FrontMatches(w)'
      <4>1. CASE ptp[w] = <<>>
        BY <1>1, <1>2, <2>4, <3>2, <3>3, <4>1
           DEF FrontMatches, PartsFramed, BackMatches, BlockSize, TypeOK, WorkerTypeOK
      <4>2. CASE ptp[w] # <<>>
        BY <1>1, <1>2, <3>3, <4>2 DEF FrontMatches, PartsFramed
      <4> QED
        BY <4>1, <4>2
    <3>6. BackMatches(w)'
      <4>1. (phys'[w].pc = "more") => (phys'[w].missing > 0)
        BY <1>1, <1>2 DEF PartsFramed, BackMatches
      <4>2. CASE sent + n < buffer.bytes
        <5>1. dest' = w /\ sent' = sent + n /\ BlockSize' = buffer.bytes
          BY <1>4, <2>4, <4>2 DEF TransmitChunk, BlockSize
        <5> QED
          BY <3>2, <3>3, <4>1, <5>1 DEF BackMatches
      <4>3. CASE ~(sent + n < buffer.bytes)
        <5>1. dest' = NoWorker
          BY <1>4, <4>3 DEF TransmitChunk
        <5>2. part.offset + part.bytes = part.total
          BY <1>1, <2>2, <3>2, <4>3
        <5> QED
          BY <1>1, <3>3, <4>1, <5>1, <5>2 DEF BackMatches
      <4> QED
        BY <4>2, <4>3
    <3> QED
      BY <3>4, <3>5, <3>6 DEF PartsFramed
  <2> QED
    BY <2>3, <2>4
<1>5. CASE SendRingItem \/ BroadcastRingItem \/ OnSourceAttach \/ RootExit \/ BroadcastChunk
  <2>1. UNCHANGED <<dest, ptp>> /\ dest = NoWorker
    BY <1>1, <1>5 DEF SendRingItem, BroadcastRingItem, OnSourceAttach, RootExit,
       BroadcastChunk, RootProgress
  <2> QED
    BY <1>1, <1>2, <2>1, FramedUnchanged
<1> QED
  BY <1>3, <1>4, <1>5 DEF Root, RootContinues

\* The worker's end: it takes the parts from the front and counts their bytes.
LEMMA FramedByWorker ==
  ASSUME TypeOK, FlowControl, Framing, NEW w \in Workers, Worker(w)
  PROVE  PartsFramed(w)'
<1>1. PartsFramed(w) /\ UNCHANGED <<dest, sent, buffer>>
  BY DEF Framing, PartsFramed, Worker, PhysicsThread, MainThread, RequestFirst,
     ReceivePart, ReceiveMarker, ReceiveBroadcast, ReceiveCommand, StartEvent,
     DispatchItem, FinishEvent, WorkerExit, rootVars
<1>2. CASE RequestFirst(w)
  <2>1. /\ phys[w].pc = "start" /\ phys'[w].pc = "first" /\ UNCHANGED ptp
    BY <1>2 DEF RequestFirst, TypeOK, WorkerTypeOK
  <2>2. ptp[w] = <<>> /\ dest # w
    BY <2>1 DEF FlowControl, OneOutstanding, Delivering
  <2> QED
    BY <1>1, <2>1, <2>2 DEF PartsFramed, PartsFit, FrontMatches, BackMatches
<1>3. CASE ReceivePart(w)
  <2>1. /\ phys[w].pc \in {"first", "more"} /\ ptp[w] # <<>>
        /\ ptp'[w] = Tail(ptp[w])
    BY <1>3 DEF ReceivePart, TypeOK, ChannelTypeOK
  <2>2. CASE Complete(Missing(w))
    <3>1. ptp'[w] = <<>> /\ dest' # w
      BY <1>1, <2>1, <2>2, BlockComplete
    <3>2. phys'[w].pc = "first"
      BY <1>3, <2>2 DEF ReceivePart, Missing, TypeOK, WorkerTypeOK
    <3>3. PartsFit(w)'
      BY <3>1 DEF PartsFit
    <3> QED
      BY <3>1, <3>2, <3>3 DEF PartsFramed, FrontMatches, BackMatches
  <2>3. CASE ~Complete(Missing(w))
    <3>1. phys'[w].pc = "more" /\ phys'[w].missing = Missing(w)
      BY <1>3, <2>3 DEF ReceivePart, Missing, TypeOK, WorkerTypeOK
    <3>2. /\ Missing(w) = ptp[w][1].total - (ptp[w][1].offset + ptp[w][1].bytes)
          /\ Missing(w) \in Nat /\ Missing(w) > 0
          /\ ptp[w] \in Seq(Part) /\ ptp[w][1] \in Part
      BY <2>1, <2>3, MissingExact DEF Complete
    <3>3. /\ Len(ptp[w]) \in Nat \ {0} /\ DOMAIN ptp[w] = 1 .. Len(ptp[w])
          /\ ptp'[w] \in Seq(Part) /\ Len(ptp'[w]) = Len(ptp[w]) - 1
          /\ DOMAIN ptp'[w] = 1 .. Len(ptp[w]) - 1
          /\ \A k \in 1 .. Len(ptp[w]) - 1 : ptp'[w][k] = ptp[w][k + 1]
      <4>1. /\ Len(ptp[w]) \in Nat \ {0} /\ DOMAIN ptp[w] = 1 .. Len(ptp[w])
        BY <2>1, <3>2
      <4>2. /\ Tail(ptp[w]) \in Seq(Part) /\ Len(Tail(ptp[w])) = Len(ptp[w]) - 1
            /\ \A k \in 1 .. Len(Tail(ptp[w])) : Tail(ptp[w])[k] = ptp[w][k + 1]
        BY <2>1, <3>2, HeadTailProperties
      <4>3. DOMAIN Tail(ptp[w]) = 1 .. Len(ptp[w]) - 1
        BY <4>1, <4>2
      <4> QED
        BY <2>1, <4>1, <4>2, <4>3, Zenon
    <3>4. PartsFit(w)'
      <4> SUFFICES ASSUME NEW k \in DOMAIN ptp'[w]
                   PROVE  /\ ptp'[w][k].bytes > 0
                          /\ ptp'[w][k].offset + ptp'[w][k].bytes <= ptp'[w][k].total
                          /\ (k + 1 \in DOMAIN ptp'[w]) =>
                               /\ ptp'[w][k + 1].offset =
                                    ptp'[w][k].offset + ptp'[w][k].bytes
                               /\ ptp'[w][k + 1].total = ptp'[w][k].total
        BY DEF PartsFit
      <4> DEFINE j == k + 1
      <4>1. j \in DOMAIN ptp[w] /\ ptp'[w][k] = ptp[w][j]
        BY <3>3
      <4>2. (k + 1 \in DOMAIN ptp'[w]) =>
              /\ j + 1 \in DOMAIN ptp[w]
              /\ ptp'[w][k + 1] = ptp[w][j + 1]
        BY <3>3
      <4> HIDE DEF j
      <4> QED
        BY <1>1, <4>1, <4>2 DEF PartsFramed, PartsFit
    <3>5. CASE Len(ptp[w]) = 1
      <4>1. ptp'[w] = <<>>
        BY <2>1, <3>2, <3>5, SingletonTail
      <4>2. dest = w /\ Missing(w) = BlockSize - sent
        <5>1. ptp[w][1].total \in Nat /\ ptp[w][1].offset \in Nat
              /\ ptp[w][1].bytes \in Nat /\ BlockSize \in Nat /\ sent \in Nat
          BY <3>2 DEF Part, TypeOK, RootTypeOK, BlockSize
        <5> QED
          BY <1>1, <2>1, <3>2, <3>5, <5>1 DEF PartsFramed, BackMatches
      <4>3. BlockSize' = BlockSize
        BY <1>1 DEF BlockSize
      <4> QED
        BY <1>1, <3>1, <3>2, <3>4, <4>1, <4>2, <4>3 DEF PartsFramed, FrontMatches, BackMatches
    <3>6. CASE Len(ptp[w]) > 1
      <4>1. /\ ptp'[w] # <<>> /\ Head(ptp'[w]) = ptp[w][2] /\ ptp[w][2] \in Part
            /\ ptp'[w][Len(ptp'[w])] = ptp[w][Len(ptp[w])]
        <5>1. Len(ptp'[w]) \in 1 .. Len(ptp[w]) - 1
          BY <3>3, <3>6
        <5>2. ptp'[w] # <<>> /\ Head(ptp'[w]) = ptp'[w][1]
          BY <3>3, <5>1
        <5>3. ptp'[w][1] = ptp[w][2]
          BY <3>3, <3>6
        <5>4. ptp'[w][Len(ptp'[w])] = ptp[w][Len(ptp[w])]
          BY <3>3, <5>1
        <5>5. ptp[w][2] \in Part
          BY <3>2, <3>6
        <5> QED
          BY <5>2, <5>3, <5>4, <5>5
      <4>2. /\ ptp[w][2].offset = ptp[w][1].offset + ptp[w][1].bytes
            /\ ptp[w][2].total = ptp[w][1].total
        BY <1>1, <3>3, <3>6 DEF PartsFramed, PartsFit
      <4>3. FrontMatches(w)'
        BY <3>1, <3>2, <4>1, <4>2 DEF FrontMatches
      <4>4. BackMatches(w)'
        <5>1. BlockSize' = BlockSize
          BY <1>1 DEF BlockSize
        <5> QED
          BY <1>1, <2>1, <3>1, <3>2, <4>1, <5>1 DEF PartsFramed, BackMatches
      <4> QED
        BY <3>4, <4>3, <4>4 DEF PartsFramed
    <3>7. Len(ptp[w]) = 1 \/ Len(ptp[w]) > 1
      <4> DEFINE l == Len(ptp[w])
      <4>1. l \in Nat \ {0}
        BY <3>3
      <4> HIDE DEF l
      <4>2. l = 1 \/ l > 1
        BY <4>1
      <4> QED
        BY <4>2 DEF l
    <3> QED
      BY <3>5, <3>6, <3>7
  <2> QED
    BY <2>2, <2>3
<1>4. CASE ReceiveMarker(w)
  <2>1. /\ phys'[w].pc \in {"done", "fatal"} /\ UNCHANGED ptp
        /\ (phys[w].pc = "first") => phys'[w].pc = "done"
    BY <1>4 DEF ReceiveMarker, TypeOK, WorkerTypeOK
  <2>2. BlockSize' = BlockSize
    BY <1>1 DEF BlockSize
  <2> QED
    BY <1>1, <2>1, <2>2 DEF PartsFramed, PartsFit, FrontMatches, BackMatches
<1>5. CASE ReceiveBroadcast(w) \/ ReceiveCommand(w) \/ MainThread(w)
  <2>1. UNCHANGED <<phys, ptp>>
    BY <1>5 DEF ReceiveBroadcast, ReceiveCommand, MainThread, StartEvent,
       DispatchItem, FinishEvent, WorkerExit
  <2>2. BlockSize' = BlockSize
    BY <1>1 DEF BlockSize
  <2> QED
    BY <1>1, <2>1, <2>2, FramedUnchanged
<1> QED
  BY <1>2, <1>3, <1>4, <1>5 DEF Worker, PhysicsThread

LEMMA FramingStep ==
  ASSUME TypeOK, FlowControl, Framing, Next
  PROVE  Framing'
<1>1. RootProgress'
  BY RootTyped DEF Framing
<1>2. ASSUME NEW v \in Workers
      PROVE  PartsFramed(v)'
  <2>1. CASE Root
    BY <2>1, FramedByRoot
  <2>2. ASSUME NEW w \in Workers, Worker(w)
        PROVE  PartsFramed(v)'
    <3>1. CASE v = w
      BY <2>2, <3>1, FramedByWorker
    <3>2. CASE v # w
      <4>1. UNCHANGED <<dest, sent, buffer, phys[v], ptp[v]>>
        BY <2>2, <3>2, OthersUnchanged DEF rootVars
      <4>2. PartsFramed(v) /\ BlockSize' = BlockSize
        BY <4>1 DEF Framing, PartsFramed, BlockSize
      <4> QED
        BY <4>1, <4>2, FramedUnchanged
    <3> QED
      BY <3>1, <3>2
  <2> QED
    BY <2>1, <2>2 DEF Next
<1> QED
  BY <1>1, <1>2 DEF Framing, PartsFramed

LEMMA InitFlow ==
  ASSUME Init
  PROVE  FlowControl /\ Framing
<1>1. RootProgress
  BY InitTyped
<1>2. ASSUME NEW w \in Workers
      PROVE  OneOutstanding(w) /\ PartsFramed(w)
  <2>1. /\ requests[w] = 0 /\ ptp[w] = <<>> /\ evq[w] = <<>> /\ dest # w
        /\ phys[w].pc = "start" /\ main[w].kind = "none"
    BY WorkersAssumption DEF Init, Idle
  <2>2. ~Delivering(w) /\ ~Queued(w) /\ ~Handling(w) /\ OneQueued(w)
    BY <2>1 DEF Delivering, Queued, Handling, OneQueued
  <2>3. OneOutstanding(w)
    BY <2>1, <2>2 DEF OneOutstanding, OneQueued
  <2>4. PartsFramed(w)
    BY <2>1 DEF PartsFramed, PartsFit, FrontMatches, BackMatches
  <2> QED
    BY <2>3, <2>4
<1> QED
  BY <1>1, <1>2 DEF FlowControl, Framing, PartsFramed

\* The inductive invariant of the pump's flow
PumpInv == TypeOK /\ FlowControl /\ Framing

LEMMA PumpInvariant == Spec => []PumpInv
<1>1. Init => PumpInv
  BY InitTyped, InitFlow DEF PumpInv
<1>2. PumpInv /\ [Next]_vars => PumpInv'
  <2> SUFFICES ASSUME PumpInv, [Next]_vars
               PROVE  PumpInv'
    OBVIOUS
  <2>1. CASE Next
    BY <2>1, RootTyped, ChannelTyped, WorkerTyped, FlowStep, FramingStep
       DEF PumpInv, Framing, TypeOK
  <2>2. CASE UNCHANGED vars
    <3>1. TypeOK'
      BY <2>2 DEF vars, rootVars, workerVars, PumpInv, TypeOK, RootTypeOK,
         ChannelTypeOK, WorkerTypeOK
    <3>2. FlowControl'
      BY <2>2 DEF vars, rootVars, workerVars, PumpInv, FlowControl, OneOutstanding,
         Delivering, Queued, Handling
    <3>3. Framing'
      BY <2>2 DEF vars, rootVars, workerVars, PumpInv, Framing, RootProgress,
         PartsFit, FrontMatches, BackMatches, BlockSize
    <3> QED
      BY <3>1, <3>2, <3>3 DEF PumpInv
  <2> QED
    BY <2>1, <2>2
<1> QED
  BY <1>1, <1>2, PTL DEF Spec

\* The type invariant, in every behaviour of the pump.
THEOREM TypesCorrect == Spec => []TypeOK
BY PumpInvariant, PTL DEF PumpInv

\* No worker is ever asked to hold two blocks, for any number of workers and any
\* chunk size: the flow control of RingItemEventHandler and getDestination.
THEOREM FlowControlled == Spec => []FlowControl
BY PumpInvariant, PTL DEF PumpInv

\* transmitChunks and assembleTargetedData agree on where blocks begin and end,
\* for any sizes of items, messages and blocks.
THEOREM BlocksFramed == Spec => []Framing
BY PumpInvariant, PTL DEF PumpInv

---------------------------------------------------------------------------
(* Delivery.  No item is lost or analysed twice, and the statistics the    *)
(* root shows are those of what it has distributed.                        *)

---------------------------------------------------------------------------
(* Items in sequences.  The data source numbers its items, so that an item *)
(* is told by its id wherever it is.                                       *)

Ids(s) == {s[k].id : k \in DOMAIN s}
UniqueIds(s) == \A j, k \in DOMAIN s : (s[j].id = s[k].id) => (j = k)

\* The items of s have been delivered by the data source src.
From(src, s) == \A k \in DOMAIN s : s[k].id \in DOMAIN src /\ src[s[k].id] = s[k]

AllPhysics(s) == \A k \in DOMAIN s : IsPhysics(s[k])

LEMMA EmptyItems ==
  /\ Ids(<<>>) = {} /\ UniqueIds(<<>>) /\ AllPhysics(<<>>)
  /\ \A src : From(src, <<>>)
BY DEF Ids, UniqueIds, AllPhysics, From

LEMMA OneItem ==
  ASSUME NEW i \in Item
  PROVE  /\ Ids(<<i>>) = {i.id} /\ UniqueIds(<<i>>)
         /\ \A src : From(src, <<i>>) <=> (i.id \in DOMAIN src /\ src[i.id] = i)
<1>1. DOMAIN <<i>> = {1} /\ <<i>>[1] = i
  OBVIOUS
<1> QED
  BY <1>1 DEF Ids, UniqueIds, From

LEMMA AppendItem ==
  ASSUME NEW s \in Seq(Item), NEW i \in Item
  PROVE  /\ Ids(Append(s, i)) = Ids(s) \cup {i.id}
         /\ (UniqueIds(s) /\ i.id \notin Ids(s)) => UniqueIds(Append(s, i))
         /\ (AllPhysics(s) /\ IsPhysics(i)) => AllPhysics(Append(s, i))
         /\ \A src : From(src, Append(s, i)) <=>
                       (From(src, s) /\ i.id \in DOMAIN src /\ src[i.id] = i)
<1> DEFINE t == Append(s, i)
<1>1. /\ DOMAIN s = 1 .. Len(s) /\ Len(s) \in Nat
      /\ DOMAIN t = 1 .. Len(s) + 1
      /\ \A k \in DOMAIN s : t[k] = s[k]
      /\ t[Len(s) + 1] = i
  OBVIOUS
<1>2. DOMAIN t = DOMAIN s \cup {Len(s) + 1} /\ Len(s) + 1 \notin DOMAIN s
  BY <1>1
<1> HIDE DEF t
<1>3. Ids(t) = Ids(s) \cup {i.id}
  BY <1>1, <1>2 DEF Ids
<1>4. (UniqueIds(s) /\ i.id \notin Ids(s)) => UniqueIds(t)
  BY <1>1, <1>2 DEF Ids, UniqueIds
<1>5. (AllPhysics(s) /\ IsPhysics(i)) => AllPhysics(t)
  BY <1>1, <1>2 DEF AllPhysics
<1>6. \A src : From(src, t) <=> (From(src, s) /\ i.id \in DOMAIN src /\ src[i.id] = i)
  BY <1>1, <1>2 DEF From
<1> QED
  BY <1>3, <1>4, <1>5, <1>6 DEF t

\* A sequence is its first element and its tail.
LEMMA TailElements ==
  ASSUME NEW S, NEW s \in Seq(S), s # <<>>
  PROVE  /\ Len(s) \in Nat \ {0} /\ DOMAIN s = 1 .. Len(s)
         /\ 1 \in DOMAIN s /\ Head(s) = s[1] /\ Head(s) \in S
         /\ Tail(s) \in Seq(S) /\ Len(Tail(s)) = Len(s) - 1
         /\ DOMAIN Tail(s) = 1 .. Len(s) - 1
         /\ \A k \in DOMAIN Tail(s) : k + 1 \in DOMAIN s /\ Tail(s)[k] = s[k + 1]
         /\ \A k \in DOMAIN s : k = 1 \/ (k - 1 \in DOMAIN Tail(s) /\ Tail(s)[k - 1] = s[k])
<1>1. /\ Len(s) \in Nat \ {0} /\ DOMAIN s = 1 .. Len(s)
      /\ Head(s) = s[1] /\ Head(s) \in S
  OBVIOUS
<1>2. /\ Tail(s) \in Seq(S) /\ Len(Tail(s)) = Len(s) - 1
      /\ \A k \in 1 .. Len(Tail(s)) : Tail(s)[k] = s[k + 1]
  BY HeadTailProperties
<1>3. DOMAIN Tail(s) = 1 .. Len(s) - 1
  BY <1>1, <1>2
<1> DEFINE t == Tail(s)
           l == Len(s)
<1>4. /\ l \in Nat \ {0} /\ DOMAIN s = 1 .. l /\ DOMAIN t = 1 .. l - 1
      /\ \A k \in 1 .. l - 1 : t[k] = s[k + 1]
  BY <1>1, <1>2, <1>3
<1> HIDE DEF t, l
<1>5. \A k \in DOMAIN t : k + 1 \in DOMAIN s /\ t[k] = s[k + 1]
  BY <1>4
<1>6. \A k \in DOMAIN s : k = 1 \/ (k - 1 \in DOMAIN t /\ t[k - 1] = s[k])
  <2> SUFFICES ASSUME NEW k \in DOMAIN s, k # 1
               PROVE  k - 1 \in DOMAIN t /\ t[k - 1] = s[k]
    OBVIOUS
  <2>1. k \in Nat /\ k - 1 \in 1 .. l - 1 /\ (k - 1) + 1 = k
    BY <1>4
  <2>2. t[k - 1] = s[(k - 1) + 1]
    BY <1>4, <2>1
  <2> QED
    BY <1>4, <2>1, <2>2
<1>7. 1 \in DOMAIN s
  BY <1>4
<1> QED
  BY <1>1, <1>2, <1>3, <1>5, <1>6, <1>7 DEF t

LEMMA TailItems ==
  ASSUME NEW s \in Seq(Item), s # <<>>, UniqueIds(s)
  PROVE  /\ Head(s) \in Item /\ Tail(s) \in Seq(Item)
         /\ Ids(s) = Ids(Tail(s)) \cup {Head(s).id}
         /\ Head(s).id \notin Ids(Tail(s))
         /\ UniqueIds(Tail(s))
         /\ \A src : From(src, s) => From(src, Tail(s)) /\ From(src, <<Head(s)>>)
<1> DEFINE t == Tail(s)
<1>1. /\ 1 \in DOMAIN s /\ Head(s) = s[1] /\ Head(s) \in Item /\ t \in Seq(Item)
      /\ \A k \in DOMAIN t : k + 1 \in DOMAIN s /\ t[k] = s[k + 1]
      /\ \A k \in DOMAIN s : k = 1 \/ (k - 1 \in DOMAIN t /\ t[k - 1] = s[k])
      /\ DOMAIN t = 1 .. Len(s) - 1 /\ Len(s) \in Nat
  BY TailElements
<1> HIDE DEF t
<1>2. Ids(s) = Ids(t) \cup {s[1].id}
  <2>1. \A k \in DOMAIN s : s[k].id \in Ids(t) \cup {s[1].id}
    BY <1>1 DEF Ids
  <2>2. \A k \in DOMAIN t : t[k].id \in Ids(s)
    BY <1>1 DEF Ids
  <2>3. s[1].id \in Ids(s)
    BY <1>1 DEF Ids
  <2>4. Ids(s) \subseteq Ids(t) \cup {s[1].id}
    BY <2>1 DEF Ids
  <2>5. Ids(t) \subseteq Ids(s)
    BY <2>2 DEF Ids
  <2> QED
    BY <2>3, <2>4, <2>5
<1>3. \A k \in DOMAIN t : k \in Nat /\ k + 1 # 1
  BY <1>1
<1>4. s[1].id \notin Ids(t)
  BY <1>1, <1>3 DEF Ids, UniqueIds
<1>5. UniqueIds(t)
  <2> SUFFICES ASSUME NEW j \in DOMAIN t, NEW k \in DOMAIN t, t[j].id = t[k].id
               PROVE  j = k
    BY DEF UniqueIds
  <2>1. s[j + 1].id = s[k + 1].id /\ j + 1 \in DOMAIN s /\ k + 1 \in DOMAIN s
    BY <1>1
  <2>2. j + 1 = k + 1
    BY <2>1 DEF UniqueIds
  <2> QED
    BY <1>3, <2>2
<1>6. \A src : From(src, s) => From(src, t) /\ From(src, <<s[1]>>)
  BY <1>1, OneItem DEF From
<1> QED
  BY <1>1, <1>2, <1>4, <1>5, <1>6 DEF t

---------------------------------------------------------------------------
(* A worker's items: events waiting for its main thread, the event being   *)
(* handled, the items analysed.  They are told apart by their ids.         *)

Waiting(w) == UNION {Ids(evq[w][k].items) : k \in DOMAIN evq[w]}
Handled(w) == Ids(main[w].items)
Analysed(w) == Ids(analysed[w])
Arrived(w) == Waiting(w) \cup Handled(w) \cup Analysed(w)

\* Every item of an event comes from the data source and is there once.
GoodEvent(src, e) == From(src, e.items) /\ UniqueIds(e.items)

ArrivedOnce(w) ==
  /\ \A k \in DOMAIN evq[w] : GoodEvent(source, evq[w][k]) /\ evq[w][k].kind # "none"
  /\ GoodEvent(source, main[w])
  /\ (main[w].kind = "none") => (main[w].items = <<>>)
  /\ From(source, analysed[w]) /\ UniqueIds(analysed[w])
  /\ \A j, k \in DOMAIN evq[w] :
       (j # k) => (Ids(evq[w][j].items) \cap Ids(evq[w][k].items) = {})
  /\ Waiting(w) \cap Handled(w) = {}
  /\ Waiting(w) \cap Analysed(w) = {}
  /\ Handled(w) \cap Analysed(w) = {}

\* The main thread takes the first event of its queue.
LEMMA ArrivedTake ==
  ASSUME TypeOK, NEW w \in Workers, ArrivedOnce(w), evq[w] # <<>>,
         main[w].kind = "none", main' = [main EXCEPT ![w] = Head(evq[w])],
         evq' = [evq EXCEPT ![w] = Tail(@)], UNCHANGED <<analysed, source>>
  PROVE  ArrivedOnce(w)' /\ Arrived(w)' = Arrived(w)
<1>1. /\ evq[w] \in Seq(Event) /\ evq'[w] = Tail(evq[w])
      /\ main'[w] = Head(evq[w]) /\ main[w].items = <<>>
  BY DEF TypeOK, WorkerTypeOK, ArrivedOnce
<1>2. /\ 1 \in DOMAIN evq[w] /\ main'[w] = evq[w][1]
      /\ DOMAIN evq'[w] \subseteq Nat \ {0}
      /\ \A k \in DOMAIN evq'[w] :
           k + 1 \in DOMAIN evq[w] /\ evq'[w][k] = evq[w][k + 1]
      /\ \A k \in DOMAIN evq[w] :
           k = 1 \/ (k - 1 \in DOMAIN evq'[w] /\ evq'[w][k - 1] = evq[w][k])
  <2> DEFINE q == evq[w]
  <2>1. q \in Seq(Event) /\ q # <<>>
    BY <1>1
  <2> HIDE DEF q
  <2>2. /\ 1 \in DOMAIN q /\ Head(q) = q[1]
        /\ DOMAIN Tail(q) = 1 .. Len(q) - 1 /\ Len(q) \in Nat
        /\ \A k \in DOMAIN Tail(q) : k + 1 \in DOMAIN q /\ Tail(q)[k] = q[k + 1]
        /\ \A k \in DOMAIN q : k = 1 \/ (k - 1 \in DOMAIN Tail(q) /\ Tail(q)[k - 1] = q[k])
    BY <2>1, TailElements
  <2>3. DOMAIN Tail(q) \subseteq Nat \ {0}
    BY <2>2
  <2> QED
    BY <1>1, <2>2, <2>3, Zenon DEF q
<1>3. Handled(w) = {} /\ Handled(w)' = Ids(evq[w][1].items)
  BY <1>1, <1>2, EmptyItems DEF Handled
<1>4. Analysed(w)' = Analysed(w)
  BY DEF Analysed
<1>5. Waiting(w) = Waiting(w)' \cup Handled(w)'
  <2>1. \A k \in DOMAIN evq[w] :
          Ids(evq[w][k].items) \subseteq Waiting(w)' \cup Handled(w)'
    <3> TAKE k \in DOMAIN evq[w]
    <3>1. CASE k = 1
      BY <1>3, <3>1
    <3>2. CASE k # 1
      <4>1. k - 1 \in DOMAIN evq'[w] /\ evq'[w][k - 1] = evq[w][k]
        BY <1>2, <3>2
      <4>2. Ids(evq'[w][k - 1].items) \subseteq Waiting(w)'
        BY <4>1 DEF Waiting
      <4> QED
        BY <4>1, <4>2
    <3> QED
      BY <3>1, <3>2
  <2>2. \A k \in DOMAIN evq'[w] : Ids(evq'[w][k].items) \subseteq Waiting(w)
    BY <1>2 DEF Waiting
  <2>3. Handled(w)' \subseteq Waiting(w)
    BY <1>2, <1>3 DEF Waiting
  <2>4. Waiting(w) \subseteq Waiting(w)' \cup Handled(w)'
    BY <2>1 DEF Waiting
  <2>5. Waiting(w)' \subseteq Waiting(w)
    BY <2>2 DEF Waiting
  <2> QED
    BY <2>3, <2>4, <2>5
<1>6. Waiting(w)' \cap Handled(w)' = {}
  <2>1. \A k \in DOMAIN evq'[w] :
          Ids(evq'[w][k].items) \cap Ids(evq[w][1].items) = {}
    <3> TAKE k \in DOMAIN evq'[w]
    <3>1. k + 1 # 1 /\ k + 1 \in DOMAIN evq[w]
      BY <1>2
    <3> QED
      BY <1>2, <3>1 DEF ArrivedOnce
  <2> QED
    BY <1>3, <2>1 DEF Waiting
<1>7. \A j, k \in DOMAIN evq'[w] :
        (j # k) => (Ids(evq'[w][j].items) \cap Ids(evq'[w][k].items) = {})
  <2> SUFFICES ASSUME NEW j \in DOMAIN evq'[w], NEW k \in DOMAIN evq'[w], j # k
               PROVE  Ids(evq'[w][j].items) \cap Ids(evq'[w][k].items) = {}
    OBVIOUS
  <2>1. j + 1 # k + 1 /\ j + 1 \in DOMAIN evq[w] /\ k + 1 \in DOMAIN evq[w]
    BY <1>2
  <2> QED
    BY <1>2, <2>1 DEF ArrivedOnce
<1>8. \A k \in DOMAIN evq'[w] : GoodEvent(source', evq'[w][k]) /\ evq'[w][k].kind # "none"
  BY <1>2 DEF ArrivedOnce, GoodEvent
<1>9. GoodEvent(source', main'[w]) /\ main'[w].kind # "none"
  BY <1>2 DEF ArrivedOnce, GoodEvent
<1>10. From(source, analysed[w])' /\ UniqueIds(analysed[w])'
  BY DEF ArrivedOnce
<1> QED
  BY <1>3, <1>4, <1>5, <1>6, <1>7, <1>8, <1>9, <1>10 DEF ArrivedOnce, Arrived

\* RingItemEventHandler dispatches the first item of its event.
LEMMA ArrivedDispatch ==
  ASSUME TypeOK, NEW w \in Workers, ArrivedOnce(w), DispatchItem(w)
  PROVE  ArrivedOnce(w)' /\ Arrived(w)' = Arrived(w)
<1> DEFINE i == Head(main[w].items)
<1>1. /\ main[w].items \in Seq(Item) /\ main[w].items # <<>>
      /\ analysed[w] \in Seq(Item)
      /\ main'[w].items = Tail(main[w].items) /\ main'[w].kind = main[w].kind
      /\ analysed'[w] = Append(analysed[w], i)
      /\ evq'[w] = evq[w] /\ source' = source
  BY DEF DispatchItem, TypeOK, WorkerTypeOK, Event, rootVars
<1>2. /\ i \in Item /\ Handled(w) = Handled(w)' \cup {i.id}
      /\ i.id \notin Handled(w)'
      /\ GoodEvent(source', main'[w]) /\ From(source, <<i>>)
  BY <1>1, TailItems DEF ArrivedOnce, GoodEvent, Handled
<1>3. i.id \in Handled(w) /\ i.id \notin Analysed(w) /\ i.id \notin Waiting(w)
  BY <1>2 DEF ArrivedOnce
<1> HIDE DEF i
<1>4. i.id \in DOMAIN source /\ source[i.id] = i
  BY <1>2, OneItem
<1>5. Analysed(w)' = Analysed(w) \cup {i.id}
  BY <1>1, <1>2, AppendItem DEF Analysed
<1>6. UniqueIds(analysed[w])'
  BY <1>1, <1>2, <1>3, AppendItem DEF ArrivedOnce, Analysed
<1>7. From(source, analysed[w])'
  BY <1>1, <1>2, <1>4, AppendItem DEF ArrivedOnce
<1>8. Waiting(w)' = Waiting(w)
  BY <1>1 DEF Waiting
<1>9. main'[w].kind # "none"
  BY <1>1 DEF ArrivedOnce
<1>10. \A k \in DOMAIN evq'[w] : GoodEvent(source', evq'[w][k]) /\ evq'[w][k].kind # "none"
  BY <1>1 DEF ArrivedOnce, GoodEvent
<1>11. \A j, k \in DOMAIN evq'[w] :
         (j # k) => (Ids(evq'[w][j].items) \cap Ids(evq'[w][k].items) = {})
  BY <1>1 DEF ArrivedOnce
<1>12. /\ Waiting(w)' \cap Handled(w)' = {} /\ Waiting(w)' \cap Analysed(w)' = {}
       /\ Handled(w)' \cap Analysed(w)' = {}
  BY <1>2, <1>3, <1>5, <1>8 DEF ArrivedOnce
<1>13. Arrived(w)' = Arrived(w)
  BY <1>2, <1>5, <1>8 DEF Arrived
<1> QED
  BY <1>2, <1>6, <1>7, <1>9, <1>10, <1>11, <1>12, <1>13 DEF ArrivedOnce

\* An event is queued whose items have not arrived before.
LEMMA ArrivedQueue ==
  ASSUME TypeOK, NEW w \in Workers, ArrivedOnce(w), NEW e \in Event,
         QueueEvent(w, e), e.kind # "none", GoodEvent(source, e),
         Ids(e.items) \cap Arrived(w) = {}, UNCHANGED <<main, analysed, source>>
  PROVE  ArrivedOnce(w)' /\ Arrived(w)' = Arrived(w) \cup Ids(e.items)
<1> DEFINE l == Len(evq[w])
<1>1. evq[w] \in Seq(Event) /\ evq'[w] = Append(evq[w], e)
  BY DEF QueueEvent, TypeOK, WorkerTypeOK
<1>2. /\ DOMAIN evq'[w] = DOMAIN evq[w] \cup {l + 1} /\ l + 1 \notin DOMAIN evq[w]
      /\ \A k \in DOMAIN evq[w] : evq'[w][k] = evq[w][k]
      /\ evq'[w][l + 1] = e
  BY <1>1
<1> HIDE DEF l
<1>3. Waiting(w)' = Waiting(w) \cup Ids(e.items)
  <2>1. \A k \in DOMAIN evq'[w] :
          Ids(evq'[w][k].items) \subseteq Waiting(w) \cup Ids(e.items)
    BY <1>2 DEF Waiting
  <2>2. \A k \in DOMAIN evq[w] : Ids(evq[w][k].items) \subseteq Waiting(w)'
    BY <1>2 DEF Waiting
  <2>3. Ids(e.items) \subseteq Waiting(w)'
    BY <1>2 DEF Waiting
  <2>4. Waiting(w)' \subseteq Waiting(w) \cup Ids(e.items)
    BY <2>1 DEF Waiting
  <2>5. Waiting(w) \subseteq Waiting(w)'
    BY <2>2 DEF Waiting
  <2> QED
    BY <2>3, <2>4, <2>5
<1>4. Handled(w)' = Handled(w) /\ Analysed(w)' = Analysed(w)
  BY DEF Handled, Analysed
<1>5. Arrived(w)' = Arrived(w) \cup Ids(e.items)
  BY <1>3, <1>4 DEF Arrived
<1>6. \A k \in DOMAIN evq'[w] : GoodEvent(source', evq'[w][k]) /\ evq'[w][k].kind # "none"
  BY <1>2 DEF ArrivedOnce
<1>7. \A k \in DOMAIN evq[w] : Ids(evq[w][k].items) \cap Ids(e.items) = {}
  BY DEF Arrived, Waiting
<1>8. \A j, k \in DOMAIN evq'[w] :
        (j # k) => (Ids(evq'[w][j].items) \cap Ids(evq'[w][k].items) = {})
  BY <1>2, <1>7 DEF ArrivedOnce
<1>9. /\ Waiting(w)' \cap Handled(w)' = {} /\ Waiting(w)' \cap Analysed(w)' = {}
      /\ Handled(w)' \cap Analysed(w)' = {}
  BY <1>3, <1>4 DEF ArrivedOnce, Arrived
<1> QED
  BY <1>5, <1>6, <1>8, <1>9 DEF ArrivedOnce

\* What has been delivered stays delivered when the source delivers more.
Grows == \A n \in DOMAIN source : n \in DOMAIN source' /\ source'[n] = source[n]

LEMMA FromGrows ==
  ASSUME Grows, NEW s, From(source, s)
  PROVE  From(source', s)
BY DEF Grows, From

LEMMA ArrivedUnchanged ==
  ASSUME NEW w \in Workers, ArrivedOnce(w), Grows,
         UNCHANGED <<evq[w], main[w], analysed[w]>>
  PROVE  ArrivedOnce(w)' /\ Arrived(w)' = Arrived(w)
<1>1. /\ Waiting(w)' = Waiting(w) /\ Handled(w)' = Handled(w)
      /\ Analysed(w)' = Analysed(w)
  BY DEF Waiting, Handled, Analysed
<1>2. \A k \in DOMAIN evq[w] : GoodEvent(source', evq[w][k])
  BY FromGrows DEF ArrivedOnce, GoodEvent
<1>3. GoodEvent(source', main[w]) /\ From(source', analysed[w])
  BY FromGrows DEF ArrivedOnce, GoodEvent
<1> QED
  BY <1>1, <1>2, <1>3 DEF ArrivedOnce, Arrived

\* The main thread moves items on and neither loses nor copies one.
LEMMA ArrivedMoves ==
  ASSUME TypeOK, NEW w \in Workers, ArrivedOnce(w), MainThread(w)
  PROVE  ArrivedOnce(w)' /\ Arrived(w)' = Arrived(w)
<1>1. CASE StartEvent(w)
  BY <1>1, ArrivedTake DEF StartEvent, rootVars
<1>2. CASE WorkerExit(w)
  BY <1>2, ArrivedTake DEF WorkerExit, rootVars
<1>3. CASE DispatchItem(w)
  BY <1>3, ArrivedDispatch
<1>4. CASE FinishEvent(w)
  <2>1. /\ main[w].items = <<>> /\ main'[w] = Idle
        /\ UNCHANGED <<source, evq, analysed>>
    BY <1>4 DEF FinishEvent, rootVars, TypeOK, WorkerTypeOK
  <2>2. Handled(w) = {} /\ Handled(w)' = {} /\ GoodEvent(source', main'[w])
        /\ main'[w].items = <<>>
    BY <2>1, EmptyItems DEF Handled, Idle, GoodEvent
  <2>3. Waiting(w)' = Waiting(w) /\ Analysed(w)' = Analysed(w)
    BY <2>1 DEF Waiting, Analysed
  <2> QED
    BY <2>1, <2>2, <2>3 DEF ArrivedOnce, Arrived
<1> QED
  BY <1>1, <1>2, <1>3, <1>4 DEF MainThread

---------------------------------------------------------------------------
(* The root's items: what the source has delivered, the buffer, the item   *)
(* being dispatched and the blocks on their way.                           *)

SourceNumbered ==
  \A k \in DOMAIN source :
    source[k].id = k /\ (IsPhysics(source[k]) \/ Broadcast(source[k]))

\* Only the last item delivered can still be being dispatched.
PendingLast ==
  /\ pending = NoItem \/ pending = StopItem
       \/ (source # <<>> /\ pending = source[Len(source)])
  /\ (rootPc \in {"idle", "exited"}) => (pending = NoItem)
  /\ (rootPc = "broadcast") => (pending = StopItem \/ Broadcast(pending))

GoodBlock(src, s) == From(src, s) /\ UniqueIds(s) /\ AllPhysics(s)

\* All parts of a block carry its items.
BlockOwned(w) ==
  \A k \in DOMAIN ptp[w] :
    /\ GoodBlock(source, ptp[w][k].items)
    /\ ptp[w][k].items = ptp[w][1].items
    /\ (dest = w) => (ptp[w][k].items = buffer.items)

\* A block belongs to the worker once the root has sent all of it.
Coming(w) == IF dest = w \/ ptp[w] = <<>> THEN {} ELSE Ids(ptp[w][1].items)

\* What the data source delivers is the next item in number.
LEMMA NextItemsNumbered ==
  ASSUME NEW i \in NextItems
  PROVE  /\ i.id = Len(source) + 1
         /\ IsPhysics(i) \/ Broadcast(i)
         /\ ~(IsPhysics(i) /\ Broadcast(i))
BY DEF NextItems, ItemsOf, IsPhysics, Broadcast, Physics

\* The source grows by one item while the root is idle, or not at all.
LEMMA SourceStep ==
  ASSUME TypeOK, Next
  PROVE  \/ UNCHANGED source
         \/ rootPc = "idle" /\ \E i \in NextItems : source' = Append(source, i)
<1>1. ASSUME NEW w \in Workers, Worker(w)
      PROVE  UNCHANGED source
  BY <1>1 DEF Worker, PhysicsThread, MainThread, RequestFirst, ReceivePart,
     ReceiveMarker, ReceiveBroadcast, ReceiveCommand, StartEvent, DispatchItem,
     FinishEvent, WorkerExit, rootVars
<1>2. CASE Root
  BY <1>2 DEF Root, RootContinues, SendRingItem, BroadcastRingItem, OnSourceAttach,
     RootExit, GetDestination, TransmitChunk, BroadcastChunk
<1> QED
  BY <1>1, <1>2 DEF Next

LEMMA AppendSource ==
  ASSUME TypeOK, NEW i \in NextItems, source' = Append(source, i)
  PROVE  /\ DOMAIN source' = DOMAIN source \cup {Len(source) + 1}
         /\ Len(source) + 1 \notin DOMAIN source /\ source'[Len(source) + 1] = i
         /\ source' # <<>> /\ Len(source') = Len(source) + 1
         /\ \A k \in DOMAIN source : source'[k] = source[k]
<1>1. source \in Seq(Item) /\ i \in Item
  BY NextItemsTyped DEF TypeOK, RootTypeOK
<1> QED
  BY <1>1

LEMMA SourceGrows ==
  ASSUME TypeOK, SourceNumbered, Next
  PROVE  Grows /\ SourceNumbered'
<1>1. CASE UNCHANGED source
  BY <1>1 DEF Grows, SourceNumbered
<1>2. ASSUME NEW i \in NextItems, source' = Append(source, i)
      PROVE  Grows /\ SourceNumbered'
  <2>1. i.id = Len(source) + 1 /\ (IsPhysics(i) \/ Broadcast(i))
    BY NextItemsNumbered
  <2> QED
    BY <1>2, <2>1, AppendSource DEF Grows, SourceNumbered
<1> QED
  BY <1>1, <1>2, SourceStep

LEMMA GoodBlockGrows ==
  ASSUME Grows, NEW s, GoodBlock(source, s)
  PROVE  GoodBlock(source', s)
BY FromGrows DEF GoodBlock

\* A block whose ends do not move.
LEMMA BlockUnchanged ==
  ASSUME Grows, NEW w \in Workers, BlockOwned(w), UNCHANGED ptp[w],
         (dest' = w) <=> (dest = w), (dest = w) => UNCHANGED buffer
  PROVE  BlockOwned(w)' /\ Coming(w)' = Coming(w)
<1>1. \A k \in DOMAIN ptp[w] : GoodBlock(source', ptp[w][k].items)
  BY GoodBlockGrows DEF BlockOwned
<1>2. BlockOwned(w)'
  BY <1>1 DEF BlockOwned
<1>3. Coming(w)' = Coming(w)
  BY DEF Coming
<1> QED
  BY <1>2, <1>3

\* The root's end of a block.  The last part hands the buffer's items over.
LEMMA BlockByRoot ==
  ASSUME PumpInv, Grows, GoodBlock(source, buffer.items), NEW w \in Workers,
         BlockOwned(w), Root
  PROVE  /\ BlockOwned(w)'
         /\ Coming(w)' = IF TransmitChunk /\ dest = w /\ dest' = NoWorker
                         THEN Ids(buffer.items) ELSE Coming(w)
         /\ (dest = w) => (Coming(w) = {})
<1>1. /\ TypeOK /\ RootProgress /\ NoWorker # w /\ dest \in Workers \cup {NoWorker}
      /\ ptp[w] \in Seq(Part)
  BY WorkersAssumption DEF PumpInv, Framing, TypeOK, RootTypeOK, ChannelTypeOK
<1>2. CASE GetDestination
  <2>1. PICK v \in Workers : requests[v] > 0 /\ dest' = v
    BY <1>2 DEF GetDestination
  <2>2. UNCHANGED ptp /\ dest = NoWorker /\ ~TransmitChunk
    BY <1>1, <1>2 DEF GetDestination, RootProgress, TransmitChunk
  <2>3. CASE v = w
    <3>1. ptp[w] = <<>>
      BY <2>1, <2>3 DEF PumpInv, FlowControl, OneOutstanding, Delivering, TypeOK,
         ChannelTypeOK
    <3> QED
      BY <1>1, <2>2, <3>1 DEF BlockOwned, Coming
  <2>4. CASE v # w
    <3>1. dest' # w /\ dest # w
      BY <1>1, <2>1, <2>2, <2>4
    <3> QED
      BY <2>2, <3>1, BlockUnchanged
  <2> QED
    BY <2>3, <2>4
<1>3. CASE TransmitChunk
  <2> DEFINE part == [items |-> buffer.items, total |-> BlockSize,
                      offset |-> sent, bytes |-> PartBytes(buffer.bytes)]
  <2>1. /\ dest \in Workers /\ UNCHANGED source
        /\ ptp' = [ptp EXCEPT ![dest] = Append(@, part)]
        /\ \/ dest' = dest /\ UNCHANGED buffer
           \/ dest' = NoWorker
    BY <1>1, <1>3 DEF TransmitChunk, RootProgress
  <2>2. CASE dest # w
    <3>1. ptp'[w] = ptp[w] /\ dest' # w
      BY <1>1, <2>1, <2>2 DEF TypeOK, ChannelTypeOK
    <3> QED
      BY <1>3, <2>2, <3>1, BlockUnchanged
  <2>3. CASE dest = w
    <3>1. ptp'[w] = Append(ptp[w], part) /\ part.items = buffer.items
      BY <1>1, <2>1, <2>3 DEF TypeOK, ChannelTypeOK
    <3> HIDE DEF part
    <3>2. /\ DOMAIN ptp'[w] = DOMAIN ptp[w] \cup {Len(ptp[w]) + 1} /\ ptp'[w] # <<>>
          /\ \A k \in DOMAIN ptp[w] : ptp'[w][k] = ptp[w][k]
          /\ ptp'[w][Len(ptp[w]) + 1] = part
          /\ 1 \in DOMAIN ptp'[w]
      BY <1>1, <3>1
    <3>3. \A k \in DOMAIN ptp'[w] : ptp'[w][k].items = buffer.items
      BY <2>3, <3>1, <3>2 DEF BlockOwned
    <3>4. BlockOwned(w)'
      BY <1>1, <2>1, <3>2, <3>3 DEF BlockOwned
    <3>5. Coming(w) = {}
      BY <2>3 DEF Coming
    <3>6. Coming(w)' = IF dest' = NoWorker THEN Ids(buffer.items) ELSE {}
      BY <1>1, <2>1, <2>3, <3>2, <3>3 DEF Coming
    <3> QED
      BY <1>3, <2>3, <3>4, <3>5, <3>6
  <2> QED
    BY <2>2, <2>3
<1>4. CASE SendRingItem \/ BroadcastRingItem \/ OnSourceAttach \/ RootExit \/ BroadcastChunk
  <2>1. UNCHANGED <<dest, ptp>> /\ dest = NoWorker /\ ~TransmitChunk
    BY <1>1, <1>4 DEF SendRingItem, BroadcastRingItem, OnSourceAttach, RootExit,
       BroadcastChunk, RootProgress, TransmitChunk
  <2> QED
    BY <1>1, <2>1, BlockUnchanged
<1> QED
  BY <1>2, <1>3, <1>4 DEF Root, RootContinues

\* physicsThread takes the parts one by one and queues the block after the last.
LEMMA BlockByWorker ==
  ASSUME PumpInv, NEW w \in Workers, BlockOwned(w), ArrivedOnce(w),
         Coming(w) \cap Arrived(w) = {}, PhysicsThread(w)
  PROVE  /\ BlockOwned(w)' /\ ArrivedOnce(w)'
         /\ \/ Coming(w)' = Coming(w) /\ Arrived(w)' = Arrived(w)
            \/ Coming(w)' = {} /\ Arrived(w)' = Arrived(w) \cup Coming(w)
<1>1. TypeOK /\ Framing /\ ptp[w] \in Seq(Part)
  BY DEF PumpInv, TypeOK, ChannelTypeOK
<1>2. Grows /\ UNCHANGED <<source, dest, buffer, main, analysed>>
  BY DEF PhysicsThread, RequestFirst, ReceivePart, ReceiveMarker, rootVars, Grows
<1>3. CASE RequestFirst(w) \/ ReceiveMarker(w)
  <2>1. UNCHANGED <<ptp, evq>>
    BY <1>3 DEF RequestFirst, ReceiveMarker
  <2> QED
    BY <1>2, <2>1, BlockUnchanged, ArrivedUnchanged
<1>4. CASE ReceivePart(w)
  <2> DEFINE part == Head(ptp[w])
  <2>1. /\ phys[w].pc \in {"first", "more"} /\ ptp[w] # <<>>
        /\ ptp'[w] = Tail(ptp[w])
        /\ IF Complete(Missing(w))
           THEN QueueEvent(w, [kind |-> "targeted", items |-> part.items])
           ELSE UNCHANGED evq
    BY <1>1, <1>4 DEF ReceivePart, Missing, TypeOK, ChannelTypeOK
  <2>2. /\ 1 \in DOMAIN ptp[w] /\ part = ptp[w][1] /\ part \in Part
        /\ \A k \in DOMAIN ptp'[w] : k + 1 \in DOMAIN ptp[w] /\ ptp'[w][k] = ptp[w][k + 1]
        /\ ptp'[w] # <<>> => 1 \in DOMAIN ptp'[w]
    <3>1. ptp'[w] \in Seq(Part)
      BY <1>1, <2>1, TailElements
    <3>2. ptp'[w] # <<>> => 1 \in DOMAIN ptp'[w]
      BY <3>1
    <3> QED
      BY <1>1, <2>1, <3>2, TailElements
  <2> HIDE DEF part
  <2>3. BlockOwned(w)'
    <3>1. \A k \in DOMAIN ptp'[w] :
            /\ GoodBlock(source, ptp'[w][k].items)
            /\ ptp'[w][k].items = ptp[w][1].items
            /\ (dest = w) => (ptp'[w][k].items = buffer.items)
      BY <2>2 DEF BlockOwned
    <3>2. ptp'[w] # <<>> => ptp'[w][1].items = ptp[w][1].items
      BY <2>2, <3>1
    <3>3. \A k \in DOMAIN ptp'[w] : ptp'[w] # <<>>
      OBVIOUS
    <3> QED
      BY <1>2, <3>1, <3>2, <3>3 DEF BlockOwned
  <2>4. CASE Complete(Missing(w))
    <3> DEFINE e == [kind |-> "targeted", items |-> part.items]
    <3>1. ptp'[w] = <<>> /\ dest # w
      BY <1>1, <2>1, <2>4, BlockComplete
    <3>2. Coming(w) = Ids(part.items) /\ Coming(w)' = {}
      BY <2>1, <2>2, <3>1 DEF Coming
    <3>3. e \in Event /\ e.items = part.items /\ e.kind # "none" /\ QueueEvent(w, e)
      BY <2>1, <2>2, <2>4, EventTyped DEF Part
    <3>4. GoodEvent(source, e)
      BY <2>2, <3>3 DEF BlockOwned, GoodBlock, GoodEvent
    <3> HIDE DEF e
    <3>5. ArrivedOnce(w)' /\ Arrived(w)' = Arrived(w) \cup Ids(e.items)
      BY <1>1, <1>2, <3>2, <3>3, <3>4, ArrivedQueue
    <3> QED
      BY <2>3, <3>2, <3>3, <3>5
  <2>5. CASE ~Complete(Missing(w))
    <3>1. ArrivedOnce(w)' /\ Arrived(w)' = Arrived(w)
      BY <1>2, <2>1, <2>5, ArrivedUnchanged
    <3>2. dest = w \/ ptp'[w] # <<>>
      <4> SUFFICES ASSUME dest # w, ptp'[w] = <<>>
                   PROVE  FALSE
        OBVIOUS
      <4>1. Len(ptp[w]) = 1
        <5>1. Len(ptp'[w]) = Len(ptp[w]) - 1 /\ Len(ptp[w]) \in Nat \ {0}
          BY <1>1, <2>1, TailElements
        <5> QED
          BY <5>1
      <4>2. /\ ptp[w][1].offset + ptp[w][1].bytes = ptp[w][1].total
            /\ ptp[w][1] \in Part
        BY <1>1, <2>1, <2>2, <4>1 DEF Framing, BackMatches
      <4>3. Missing(w) = 0
        <5>1. Missing(w) = ptp[w][1].total - (ptp[w][1].offset + ptp[w][1].bytes)
          BY <1>1, <2>1, MissingExact
        <5> QED
          BY <4>2, <5>1 DEF Part
      <4> QED
        BY <2>5, <4>3 DEF Complete
    <3>3. Coming(w)' = Coming(w)
      <4>1. CASE dest = w
        BY <1>2, <4>1 DEF Coming
      <4>2. CASE dest # w
        <5>1. ptp'[w] # <<>> /\ 1 \in DOMAIN ptp'[w]
          BY <2>2, <3>2, <4>2
        <5>2. ptp'[w][1].items = ptp[w][1].items
          BY <2>2, <5>1 DEF BlockOwned
        <5> QED
          BY <1>2, <2>1, <4>2, <5>1, <5>2 DEF Coming
      <4> QED
        BY <4>1, <4>2
    <3> QED
      BY <2>3, <3>1, <3>3
  <2> QED
    BY <2>4, <2>5
<1> QED
  BY <1>3, <1>4 DEF PhysicsThread

---------------------------------------------------------------------------
(* Broadcasts.  nonPhysicsThread counts the bytes of an item as            *)
(* physicsThread counts those of a block; that an item becomes one event,  *)
(* and not two, rests on the pieces being framed and on their order.       *)

ItemOf(part) == part.items[1]
LastPiece(part) == part.offset + part.bytes = part.total

\* A piece of an item that comes after the item of number n
After(part, n) == ItemOf(part) = StopItem \/ n < ItemOf(part).id

\* The root is in the middle of a broadcast.
Sending == rootPc = "broadcast" /\ sent > 0

Piece(src, pc, part) ==
  /\ part.items = <<ItemOf(part)>> /\ part.total = ItemOf(part).bytes
  /\ part.bytes > 0 /\ part.offset + part.bytes <= part.total
  /\ IF ItemOf(part) = StopItem THEN pc = "exited"
     ELSE From(src, part.items) /\ Broadcast(ItemOf(part))

Follows(next, part) ==
  IF LastPiece(part) THEN next.offset = 0 /\ After(next, ItemOf(part).id)
  ELSE next.items = part.items /\ next.offset = part.offset + part.bytes

PiecesFit(w) ==
  \A k \in DOMAIN bcast[w] :
    /\ Piece(source, rootPc, bcast[w][k])
    /\ (k + 1 \in DOMAIN bcast[w]) => Follows(bcast[w][k + 1], bcast[w][k])

PiecesOrdered(w) ==
  \A j, k \in DOMAIN bcast[w] :
    (j < k) => (ItemOf(bcast[w][k]) = StopItem
                \/ /\ ItemOf(bcast[w][j]) # StopItem
                   /\ ItemOf(bcast[w][j]).id <= ItemOf(bcast[w][k]).id)

PiecesFront(w) ==
  /\ (nonphys[w].pc = "done") => (rootPc = "exited")
  /\ (bcast[w] # <<>>) =>
       /\ (nonphys[w].pc = "first") => (bcast[w][1].offset = 0)
       /\ (nonphys[w].pc = "more") =>
            (bcast[w][1].total - bcast[w][1].offset = nonphys[w].missing)

PiecesBack(w) ==
  IF bcast[w] # <<>>
  THEN LET last == bcast[w][Len(bcast[w])]
       IN  IF Sending
           THEN last.items = <<pending>> /\ last.offset + last.bytes = sent
           ELSE LastPiece(last)
  ELSE IF Sending
       THEN nonphys[w].pc = "more" /\ nonphys[w].missing = pending.bytes - sent
       ELSE nonphys[w].pc # "more"

\* What the worker has heard comes before what is on its way, and both come
\* before what the root has still to send.
HeardBefore(w) ==
  \A n \in Arrived(w) : Broadcast(source[n]) =>
    /\ \A k \in DOMAIN bcast[w] : After(bcast[w][k], n)
    /\ Broadcast(pending) => n < pending.id

PendingAfter(w) ==
  (Broadcast(pending) /\ ~Sending) =>
    \A k \in DOMAIN bcast[w] : ItemOf(bcast[w][k]).id < pending.id

BroadcastInv(w) ==
  /\ PiecesFit(w) /\ PiecesOrdered(w) /\ PiecesFront(w) /\ PiecesBack(w)
  /\ HeardBefore(w) /\ PendingAfter(w)

\* What has arrived comes from the data source.
LEMMA ArrivedDelivered ==
  ASSUME NEW w \in Workers, ArrivedOnce(w), NEW n \in Arrived(w)
  PROVE  n \in DOMAIN source
BY DEF ArrivedOnce, Arrived, Waiting, Handled, Analysed, GoodEvent, From, Ids

\* A piece stays a piece while the root has not exited.
LEMMA PieceKept ==
  ASSUME Grows, NEW part, Piece(source, rootPc, part),
         (rootPc = "exited") => (rootPc' = "exited")
  PROVE  Piece(source', rootPc', part)
BY FromGrows DEF Piece

LEMMA PieceAt ==
  ASSUME NEW w \in Workers, BroadcastInv(w), NEW k \in DOMAIN bcast[w]
  PROVE  Piece(source, rootPc, bcast[w][k])
BY DEF BroadcastInv, PiecesFit

\* A worker hears no broadcast and the root sends none.
LEMMA BroadcastUnchanged ==
  ASSUME Grows, NEW w \in Workers, BroadcastInv(w), ArrivedOnce(w),
         UNCHANGED <<bcast[w], nonphys[w], rootPc, sent, pending>>,
         \A n \in Arrived(w)' : n \in Arrived(w) \/ ~Broadcast(source'[n])
  PROVE  BroadcastInv(w)'
<1>1. Sending' = Sending
  BY DEF Sending
<1>2. PiecesFit(w)'
  <2>1. \A k \in DOMAIN bcast[w] : Piece(source', rootPc', bcast[w][k])
    BY PieceKept DEF BroadcastInv, PiecesFit
  <2> QED
    BY <2>1 DEF BroadcastInv, PiecesFit, Piece
<1>3. PiecesOrdered(w)' /\ PiecesFront(w)' /\ PendingAfter(w)'
  BY <1>1 DEF BroadcastInv, PiecesOrdered, PiecesFront, PendingAfter
<1>4. PiecesBack(w)'
  BY <1>1 DEF BroadcastInv, PiecesBack
<1>5. HeardBefore(w)'
  <2> SUFFICES ASSUME NEW n \in Arrived(w)', Broadcast(source'[n])
               PROVE  /\ \A k \in DOMAIN bcast[w] : After(bcast[w][k], n)
                      /\ Broadcast(pending) => n < pending.id
    BY DEF HeardBefore
  <2>1. n \in Arrived(w) /\ n \in DOMAIN source
    BY ArrivedDelivered
  <2>2. source'[n] = source[n]
    BY <2>1 DEF Grows
  <2> QED
    BY <2>1, <2>2 DEF BroadcastInv, HeardBefore
<1> QED
  BY <1>2, <1>3, <1>4, <1>5 DEF BroadcastInv

\* What flush and the code after it do to the item being dispatched.
LEMMA FlushPending ==
  ASSUME NEW i, Flush(i)
  PROVE  /\ rootPc' \in {"idle", "request", "broadcast"}
         /\ (rootPc' = "idle") => (pending' = NoItem)
         /\ (rootPc' # "idle") => (pending' = i)
         /\ (rootPc' = "broadcast") => (sent' = 0 /\ i.type \notin {Physics, "NONE"})
BY DEF Flush, AfterFlush

\* The root's way through a dispatch: nothing is broadcast before the first
\* piece of the item, and a new item comes after all others.
LEMMA RootPending ==
  ASSUME TypeOK, SourceNumbered, PendingLast, Root, ~BroadcastChunk
  PROVE  /\ PendingLast' /\ ~Sending /\ ~Sending'
         /\ rootPc # "exited" /\ rootPc' # "exited"
         /\ Broadcast(pending') =>
              (pending' = pending \/ pending'.id = Len(source) + 1)
<1> USE DEF Sending
<1>1. source \in Seq(Item) /\ sent \in Nat
  BY DEF TypeOK, RootTypeOK
<1>2. /\ NoItem.type = "NONE" /\ StopItem.type = "STOP"
      /\ ~Broadcast(NoItem) /\ ~Broadcast(StopItem)
  BY DEF NoItem, StopItem, Broadcast
<1>3. CASE SendRingItem
  <2>1. PICK i \in NextItems : /\ source' = Append(source, i) /\ IsPhysics(i)
                               /\ \/ rootPc' = "request" /\ pending' = i
                                  \/ UNCHANGED <<rootPc, pending>>
    BY <1>3 DEF SendRingItem
  <2>2. source' # <<>> /\ source'[Len(source')] = i /\ rootPc = "idle"
    BY <1>1, <1>3, <2>1, AppendSource DEF SendRingItem
  <2>3. ~Broadcast(i)
    BY <2>1 DEF IsPhysics, Broadcast, Physics
  <2> QED
    BY <1>2, <2>1, <2>2, <2>3 DEF PendingLast
<1>4. CASE BroadcastRingItem
  <2>1. PICK i \in NextItems : source' = Append(source, i) /\ Broadcast(i) /\ Flush(i)
    BY <1>4 DEF BroadcastRingItem
  <2>2. source' # <<>> /\ source'[Len(source')] = i /\ i.id = Len(source) + 1
    BY <1>1, <2>1, AppendSource, NextItemsNumbered
  <2>3. rootPc = "idle"
    BY <1>4 DEF BroadcastRingItem
  <2> QED
    BY <1>2, <2>1, <2>2, <2>3, FlushPending DEF PendingLast
<1>5. CASE OnSourceAttach
  <2>1. rootPc = "idle" /\ Flush(NoItem) /\ UNCHANGED source
    BY <1>5 DEF OnSourceAttach
  <2> QED
    BY <1>2, <2>1, FlushPending DEF PendingLast
<1>6. CASE RootExit
  <2>1. rootPc = "idle" /\ Flush(StopItem) /\ UNCHANGED source
    BY <1>6 DEF RootExit
  <2> QED
    BY <1>2, <2>1, FlushPending DEF PendingLast
<1>7. CASE GetDestination
  BY <1>2, <1>7 DEF GetDestination, PendingLast
<1>8. CASE TransmitChunk
  <2>1. CASE rootPc' = "send"
    <3>1. UNCHANGED <<pending, source>> /\ rootPc = "send"
      BY <1>8, <2>1 DEF TransmitChunk, AfterFlush
    <3> QED
      BY <2>1, <3>1 DEF PendingLast
  <2>2. CASE rootPc' # "send"
    <3>1. AfterFlush(pending) /\ UNCHANGED source /\ rootPc = "send"
      BY <1>8, <2>2 DEF TransmitChunk
    <3>2. pending.type \in {"STOP", "NONE"} \/ IsPhysics(pending) \/ Broadcast(pending)
      BY <1>1, <1>2, <3>1 DEF PendingLast, TypeOK, RootTypeOK, Item, ItemTypes,
         IsPhysics, Broadcast
    <3>3. (pending.type = "STOP") => (pending = StopItem)
      <4>1. (source # <<>>) => (Len(source) \in DOMAIN source)
        BY <1>1
      <4> QED
        BY <1>2, <4>1 DEF PendingLast, SourceNumbered, IsPhysics, Broadcast, Physics
    <3> QED
      BY <1>2, <3>1, <3>2, <3>3 DEF AfterFlush, PendingLast, IsPhysics
  <2> QED
    BY <2>1, <2>2
<1> QED
  BY <1>3, <1>4, <1>5, <1>6, <1>7, <1>8 DEF Root, RootContinues

\* The root sends the next piece of the item, or its first piece after all
\* pieces of the items before it.
LEMMA PiecesBySend ==
  ASSUME PumpInv, SourceNumbered, PendingLast, NEW w \in Workers,
         BroadcastInv(w), ArrivedOnce(w), BroadcastChunk
  PROVE  BroadcastInv(w)' /\ PendingLast'
<1> DEFINE n == PartBytes(pending.bytes)
           part == [items |-> <<pending>>, total |-> pending.bytes,
                    offset |-> sent, bytes |-> n]
           l == Len(bcast[w])
<1>1. /\ TypeOK /\ bcast[w] \in Seq(Part) /\ rootPc = "broadcast"
      /\ sent \in Nat /\ sent < pending.bytes /\ pending \in Item
      /\ pending.bytes \in Nat /\ pending.id \in Nat
      /\ source \in Seq(Item)
  BY DEF PumpInv, TypeOK, RootTypeOK, ChannelTypeOK, Framing, RootProgress,
     BroadcastChunk, Item
<1>2. n \in Nat /\ n > 0 /\ sent + n <= pending.bytes
      /\ (sent + n < pending.bytes => n = MaxMessage) /\ MaxMessage \in Nat \ {0}
  BY <1>1, BytesAssumption DEF PartBytes
<1>3. /\ part.items = <<pending>> /\ ItemOf(part) = pending
      /\ part.total = pending.bytes /\ part.offset = sent /\ part.bytes = n
  BY DEF ItemOf
<1>4. /\ bcast'[w] = Append(bcast[w], part)
      /\ UNCHANGED <<source, nonphys, evq, main, analysed>>
      /\ IF sent + n < pending.bytes
         THEN sent' = sent + n /\ UNCHANGED <<rootPc, pending>>
         ELSE /\ sent' = 0 /\ pending' = NoItem
              /\ rootPc' = IF pending.type = "STOP" THEN "exited" ELSE "idle"
  BY DEF BroadcastChunk, workerVars
<1> HIDE DEF part, n
<1>5. /\ l \in Nat /\ DOMAIN bcast[w] = 1 .. l /\ DOMAIN bcast'[w] = 1 .. l + 1
      /\ bcast'[w] # <<>> /\ Len(bcast'[w]) = l + 1
      /\ \A k \in 1 .. l : bcast'[w][k] = bcast[w][k]
      /\ bcast'[w][l + 1] = part
      /\ (bcast[w] = <<>>) <=> (l = 0)
  <2>1. bcast[w] \in Seq(Part) /\ bcast'[w] = Append(bcast[w], part)
    BY <1>1, <1>4
  <2>2. /\ l \in Nat /\ DOMAIN bcast[w] = 1 .. l /\ DOMAIN bcast'[w] = 1 .. l + 1
        /\ \A k \in 1 .. l : bcast'[w][k] = bcast[w][k]
        /\ bcast'[w][l + 1] = part
    BY <2>1
  <2>3. bcast'[w] # <<>> /\ Len(bcast'[w]) = l + 1
    BY <2>1
  <2>4. (bcast[w] = <<>>) <=> (l = 0)
    BY <2>1, EmptySeq
  <2> QED
    BY <2>2, <2>3, <2>4
<1> HIDE DEF l
<1>6. Grows /\ (pending = StopItem \/ Broadcast(pending))
  BY <1>1, <1>4 DEF Grows, PendingLast
<1>7. Broadcast(pending) => (pending.id \in DOMAIN source /\ source[pending.id] = pending)
  <2>1. (source # <<>>) => (Len(source) \in DOMAIN source)
    BY <1>1
  <2> QED
    BY <2>1 DEF PendingLast, SourceNumbered, NoItem, StopItem, Broadcast
<1>8. (pending = StopItem) <=> (pending.type = "STOP")
  BY <1>6 DEF StopItem, Broadcast
<1>9. (pending = StopItem) => (sent = 0 /\ n = 1)
  BY <1>1, <1>2 DEF StopItem
<1>10. (rootPc' = "exited") <=> (pending = StopItem)
  <2>1. (pending = StopItem) => ~(sent + n < pending.bytes)
    BY <1>9 DEF StopItem
  <2> QED
    BY <1>1, <1>4, <1>8, <2>1
<1>11. PendingLast'
  <2>1. CASE sent + n < pending.bytes
    BY <1>4, <2>1 DEF PendingLast
  <2>2. CASE ~(sent + n < pending.bytes)
    BY <1>4, <2>2 DEF PendingLast
  <2> QED
    BY <2>1, <2>2
\* No stop message has been sent and no worker has heard one.
<1>12. /\ nonphys[w].pc # "done"
       /\ \A k \in 1 .. l : ItemOf(bcast[w][k]) # StopItem
  BY <1>1, <1>5 DEF BroadcastInv, PiecesFront, PiecesFit, Piece
<1>13. (l > 0) => Follows(part, bcast[w][l])
  <2> SUFFICES ASSUME l > 0
               PROVE  Follows(part, bcast[w][l])
    OBVIOUS
  <2>1. l \in DOMAIN bcast[w] /\ bcast[w] # <<>> /\ bcast[w][l] \in Part
    BY <1>1, <1>5
  <2>2. bcast[w][l].offset \in Nat /\ bcast[w][l].bytes \in Nat /\ bcast[w][l].total \in Nat
    BY <2>1 DEF Part
  <2>3. CASE Sending
    <3>1. bcast[w][l].items = <<pending>> /\ bcast[w][l].offset + bcast[w][l].bytes = sent
      BY <2>1, <2>3 DEF BroadcastInv, PiecesBack, l
    <3>2. bcast[w][l].total = pending.bytes
      BY <2>1, <3>1 DEF BroadcastInv, PiecesFit, Piece, ItemOf
    <3>3. ~LastPiece(bcast[w][l])
      BY <1>1, <3>1, <3>2 DEF LastPiece
    <3> QED
      BY <1>3, <3>1, <3>3 DEF Follows
  <2>4. CASE ~Sending
    <3>1. LastPiece(bcast[w][l]) /\ sent = 0
      BY <1>1, <2>1, <2>4 DEF BroadcastInv, PiecesBack, l, Sending
    <3>2. After(part, ItemOf(bcast[w][l]).id)
      BY <1>3, <1>5, <1>6, <2>1, <2>4 DEF BroadcastInv, PendingAfter, After
    <3> QED
      BY <1>3, <3>1, <3>2 DEF Follows
  <2> QED
    BY <2>3, <2>4
<1>14. Piece(source', rootPc', part)
  <2>1. (pending # StopItem) => From(source', part.items) /\ Broadcast(ItemOf(part))
    BY <1>1, <1>3, <1>4, <1>6, <1>7, OneItem
  <2> QED
    BY <1>1, <1>2, <1>3, <1>10, <2>1 DEF Piece
<1>15. PiecesFit(w)'
  <2>1. \A k \in 1 .. l : Piece(source', rootPc', bcast[w][k])
    BY <1>1, <1>5, <1>6, PieceKept DEF BroadcastInv, PiecesFit
  <2> SUFFICES ASSUME NEW k \in 1 .. l + 1
               PROVE  /\ Piece(source', rootPc', bcast'[w][k])
                      /\ (k + 1 \in 1 .. l + 1) => Follows(bcast'[w][k + 1], bcast'[w][k])
    BY <1>5 DEF PiecesFit
  <2>2. CASE k = l + 1
    BY <1>5, <1>14, <2>2
  <2>3. CASE k = l
    BY <1>5, <1>13, <2>1, <2>3
  <2>4. CASE k < l
    <3>1. k \in 1 .. l /\ k + 1 \in 1 .. l
      BY <1>5, <2>4
    <3>2. Follows(bcast[w][k + 1], bcast[w][k])
      BY <1>5, <3>1 DEF BroadcastInv, PiecesFit
    <3> QED
      BY <1>5, <2>1, <3>1, <3>2
  <2> QED
    BY <1>5, <2>2, <2>3, <2>4
<1>16. Broadcast(pending) => \A j \in 1 .. l : ItemOf(bcast[w][j]).id <= pending.id
  <2> SUFFICES ASSUME Broadcast(pending), NEW j \in 1 .. l
               PROVE  ItemOf(bcast[w][j]).id <= pending.id
    OBVIOUS
  <2>1. CASE Sending
    <3>1. l \in DOMAIN bcast[w] /\ j \in DOMAIN bcast[w] /\ bcast[w] # <<>>
      BY <1>5
    <3>2. ItemOf(bcast[w][l]) = pending /\ pending # StopItem
      BY <2>1, <3>1 DEF BroadcastInv, PiecesBack, l, ItemOf, StopItem, Broadcast
    <3>3. CASE j = l
      BY <1>1, <3>2, <3>3
    <3>4. CASE j # l
      <4>1. j < l
        BY <1>5, <3>4
      <4> QED
        BY <3>1, <3>2, <4>1 DEF BroadcastInv, PiecesOrdered
    <3> QED
      BY <3>3, <3>4
  <2>2. CASE ~Sending
    <3>1. ItemOf(bcast[w][j]).id < pending.id
      BY <1>5, <2>2 DEF BroadcastInv, PendingAfter
    <3>2. ItemOf(bcast[w][j]) \in Item
      <4>1. bcast[w][j] \in Part
        BY <1>1, <1>5
      <4>2. bcast[w][j].items \in Seq(Item)
        BY <4>1 DEF Part
      <4>3. bcast[w][j].items = <<ItemOf(bcast[w][j])>>
        BY <1>5 DEF BroadcastInv, PiecesFit, Piece
      <4> QED
        BY <4>2, <4>3
    <3> QED
      BY <1>1, <3>1, <3>2 DEF Item
  <2> QED
    BY <2>1, <2>2
<1>17. PiecesOrdered(w)'
  <2> SUFFICES ASSUME NEW j \in 1 .. l + 1, NEW k \in 1 .. l + 1, j < k
               PROVE  ItemOf(bcast'[w][k]) = StopItem
                      \/ /\ ItemOf(bcast'[w][j]) # StopItem
                         /\ ItemOf(bcast'[w][j]).id <= ItemOf(bcast'[w][k]).id
    BY <1>5 DEF PiecesOrdered
  <2>1. j \in 1 .. l
    BY <1>5
  <2>2. CASE k = l + 1
    BY <1>3, <1>5, <1>6, <1>12, <1>16, <2>1, <2>2
  <2>3. CASE k # l + 1
    <3>1. k \in 1 .. l
      BY <1>5, <2>3
    <3> QED
      BY <1>5, <2>1, <3>1 DEF BroadcastInv, PiecesOrdered
  <2> QED
    BY <2>2, <2>3
<1>18. PiecesFront(w)'
  <2>1. CASE l = 0
    <3>1. bcast[w] = <<>> /\ bcast'[w][1] = part
      BY <1>5, <2>1
    <3>2. IF Sending
          THEN nonphys[w].pc = "more" /\ nonphys[w].missing = pending.bytes - sent
          ELSE nonphys[w].pc # "more" /\ sent = 0
      BY <1>1, <3>1 DEF BroadcastInv, PiecesBack, Sending
    <3> QED
      BY <1>3, <1>4, <1>12, <3>1, <3>2 DEF PiecesFront
  <2>2. CASE l # 0
    <3>1. bcast[w] # <<>> /\ bcast'[w][1] = bcast[w][1]
      <4>1. 1 \in 1 .. l
        BY <1>5, <2>2
      <4> QED
        BY <1>5, <2>2, <4>1
    <3> QED
      BY <1>4, <1>12, <3>1 DEF BroadcastInv, PiecesFront
  <2> QED
    BY <2>1, <2>2
<1>19. PiecesBack(w)'
  <2>1. bcast'[w][Len(bcast'[w])] = part /\ bcast'[w] # <<>>
    BY <1>5
  <2>2. CASE sent + n < pending.bytes
    <3>1. Sending' /\ pending' = pending /\ sent' = sent + n
      BY <1>1, <1>2, <1>4, <2>2 DEF Sending
    <3> QED
      BY <1>3, <2>1, <3>1 DEF PiecesBack
  <2>3. CASE ~(sent + n < pending.bytes)
    <3>1. ~Sending'
      BY <1>4, <2>3 DEF Sending
    <3>2. LastPiece(part)
      BY <1>1, <1>2, <1>3, <2>3 DEF LastPiece
    <3> QED
      BY <2>1, <3>1, <3>2 DEF PiecesBack
  <2> QED
    BY <2>2, <2>3
<1>20. ~Broadcast(pending') \/ (pending' = pending /\ Sending')
  <2>1. CASE sent + n < pending.bytes
    BY <1>1, <1>2, <1>4, <2>1 DEF Sending
  <2>2. CASE ~(sent + n < pending.bytes)
    BY <1>4, <2>2 DEF NoItem, Broadcast
  <2> QED
    BY <2>1, <2>2
<1>21. Arrived(w)' = Arrived(w)
  BY <1>4, <1>6, ArrivedUnchanged
<1>22. HeardBefore(w)'
  <2> SUFFICES ASSUME NEW i \in Arrived(w), Broadcast(source[i])
               PROVE  /\ \A k \in 1 .. l + 1 : After(bcast'[w][k], i)
                      /\ Broadcast(pending') => i < pending'.id
    BY <1>4, <1>5, <1>21 DEF HeardBefore
  <2>1. Broadcast(pending) => i < pending.id
    BY DEF BroadcastInv, HeardBefore
  <2>2. After(part, i)
    BY <1>3, <1>6, <2>1 DEF After
  <2>3. \A k \in 1 .. l : After(bcast'[w][k], i)
    BY <1>5 DEF BroadcastInv, HeardBefore
  <2> QED
    BY <1>5, <1>20, <2>1, <2>2, <2>3
<1>23. PendingAfter(w)'
  BY <1>20 DEF PendingAfter
<1> QED
  BY <1>11, <1>15, <1>17, <1>18, <1>19, <1>22, <1>23 DEF BroadcastInv

\* The root's other steps.
LEMMA BroadcastByRoot ==
  ASSUME PumpInv, SourceNumbered, PendingLast, NEW w \in Workers,
         BroadcastInv(w), ArrivedOnce(w), Root
  PROVE  BroadcastInv(w)' /\ PendingLast'
<1>1. CASE BroadcastChunk
  BY <1>1, PiecesBySend
<1>2. CASE ~BroadcastChunk
  <2>1. /\ TypeOK /\ Next /\ bcast[w] \in Seq(Part) /\ source \in Seq(Item)
        /\ pending \in Item
    BY DEF PumpInv, TypeOK, RootTypeOK, ChannelTypeOK, Next
  <2>2. UNCHANGED <<bcast, nonphys, evq, main, analysed>>
    BY <1>2 DEF Root, RootContinues, SendRingItem, BroadcastRingItem, OnSourceAttach,
       RootExit, GetDestination, TransmitChunk, workerVars
  <2>3. /\ PendingLast' /\ ~Sending /\ ~Sending'
        /\ rootPc # "exited" /\ rootPc' # "exited"
        /\ Broadcast(pending') => (pending' = pending \/ pending'.id = Len(source) + 1)
    BY <1>2, <2>1, RootPending
  <2>4. Grows
    BY <2>1, SourceGrows
  <2>5. Arrived(w)' = Arrived(w)
    BY <2>2, <2>4, ArrivedUnchanged
  <2>6. PiecesFit(w)'
    <3>1. \A k \in DOMAIN bcast[w] : Piece(source', rootPc', bcast[w][k])
      BY <2>3, <2>4, PieceKept DEF BroadcastInv, PiecesFit
    <3> QED
      BY <2>2, <3>1 DEF BroadcastInv, PiecesFit
  <2>7. PiecesOrdered(w)' /\ PiecesFront(w)' /\ PiecesBack(w)'
    BY <2>2, <2>3 DEF BroadcastInv, PiecesOrdered, PiecesFront, PiecesBack
\* What has been broadcast was delivered before the item that is pending now.
  <2>8. \A n \in DOMAIN source : n < Len(source) + 1
    BY <2>1
  <2>9. \A k \in DOMAIN bcast[w] : ItemOf(bcast[w][k]).id \in DOMAIN source
    <3> TAKE k \in DOMAIN bcast[w]
    <3>1. Piece(source, rootPc, bcast[w][k])
      BY PieceAt
    <3>2. From(source, bcast[w][k].items) /\ bcast[w][k].items = <<ItemOf(bcast[w][k])>>
      BY <2>3, <3>1 DEF Piece
    <3>3. 1 \in DOMAIN bcast[w][k].items
      BY <3>2
    <3> QED
      BY <3>2, <3>3 DEF From, ItemOf
  <2>10. HeardBefore(w)'
    <3> SUFFICES ASSUME NEW n \in Arrived(w), Broadcast(source'[n])
                 PROVE  /\ \A k \in DOMAIN bcast[w] : After(bcast[w][k], n)
                        /\ Broadcast(pending') => n < pending'.id
      BY <2>2, <2>5 DEF HeardBefore
    <3>1. n \in DOMAIN source /\ source'[n] = source[n]
      BY <2>4, ArrivedDelivered DEF Grows
    <3> QED
      BY <2>3, <2>8, <3>1 DEF BroadcastInv, HeardBefore
  <2>11. PendingAfter(w)'
    <3> SUFFICES ASSUME Broadcast(pending'), NEW k \in DOMAIN bcast[w]
                 PROVE  ItemOf(bcast[w][k]).id < pending'.id
      BY <2>2 DEF PendingAfter
    <3>1. CASE pending' = pending
      BY <2>3, <3>1 DEF BroadcastInv, PendingAfter
    <3>2. CASE pending' # pending
      BY <2>3, <2>8, <2>9, <3>2
    <3> QED
      BY <3>1, <3>2
  <2> QED
    BY <2>3, <2>6, <2>7, <2>10, <2>11 DEF BroadcastInv
<1> QED
  BY <1>1, <1>2

\* nonPhysicsThread takes the pieces one by one and queues the item after its
\* last one.
LEMMA PiecesByWorker ==
  ASSUME PumpInv, NEW w \in Workers, BroadcastInv(w), ArrivedOnce(w),
         ReceiveBroadcast(w)
  PROVE  /\ BroadcastInv(w)' /\ ArrivedOnce(w)'
         /\ \A n \in Arrived(w)' :
              n \in Arrived(w) \/ (n \in DOMAIN source /\ Broadcast(source[n]))
         /\ Arrived(w) \subseteq Arrived(w)'
<1> DEFINE b == bcast[w]
           t == bcast'[w]
           l == Len(bcast[w])
           part == bcast[w][1]
           i == ItemOf(part)
           missing == part.total - (part.offset + part.bytes)
<1>1. /\ TypeOK /\ b \in Seq(Part) /\ b # <<>> /\ nonphys[w].pc \in {"first", "more"}
      /\ t = Tail(b) /\ Head(b) = part /\ part \in Part
      /\ UNCHANGED <<source, rootPc, sent, pending, main, analysed>>
  <2>1. TypeOK /\ b \in Seq(Part) /\ b # <<>> /\ nonphys[w].pc \in {"first", "more"}
        /\ t = Tail(b) /\ UNCHANGED <<source, rootPc, sent, pending, main, analysed>>
    BY DEF PumpInv, TypeOK, ChannelTypeOK, WorkerTypeOK, ReceiveBroadcast, rootVars
  <2>2. Head(b) = part /\ part \in Part
    BY <2>1, TailElements
  <2> QED
    BY <2>1, <2>2
<1>2. /\ l \in Nat \ {0} /\ DOMAIN b = 1 .. l /\ DOMAIN t = 1 .. l - 1
      /\ Len(t) = l - 1 /\ t \in Seq(Part)
      /\ \A k \in 1 .. l - 1 : t[k] = b[k + 1]
  BY <1>1, TailElements
<1>2a. 1 \in DOMAIN bcast[w]
  BY <1>2
<1>3. /\ part.total \in Nat /\ part.offset \in Nat /\ part.bytes \in Nat
      /\ missing \in Nat
  <2>1. Piece(source, rootPc, part)
    BY <1>2a, PieceAt
  <2>2. part.total \in Nat /\ part.offset \in Nat /\ part.bytes \in Nat
    BY <1>1 DEF Part
  <2> QED
    BY <2>1, <2>2 DEF Piece
<1>4. missing = (IF nonphys[w].pc = "first" THEN Head(bcast[w]).total
                                       ELSE nonphys[w].missing) - Head(bcast[w]).bytes
  BY <1>1, <1>3 DEF BroadcastInv, PiecesFront
<1>5. /\ (i = StopItem) => nonphys'[w].pc = "done" /\ UNCHANGED evq
      /\ (i # StopItem /\ missing > 0) =>
            /\ nonphys'[w] = [pc |-> "more", missing |-> missing]
            /\ UNCHANGED evq
      /\ (i # StopItem /\ ~(missing > 0)) =>
            /\ nonphys'[w] = [pc |-> "first", missing |-> 0]
            /\ QueueEvent(w, [kind |-> "broadcast", items |-> part.items])
  <2>0. Piece(source, rootPc, part)
    BY <1>2a, PieceAt
  <2>1. (part.items[1].type = "STOP") <=> (i = StopItem)
    BY <2>0 DEF Piece, ItemOf, StopItem, Broadcast
  <2>2. nonphys \in [Workers -> [pc: {"first", "more", "done"}, missing: Nat]]
    BY <1>1 DEF TypeOK, WorkerTypeOK
  <2> HIDE DEF missing, part, i
  <2>3. CASE i = StopItem
    BY <1>1, <1>4, <2>1, <2>2, <2>3 DEF ReceiveBroadcast
  <2>4. CASE i # StopItem /\ missing > 0
    BY <1>1, <1>4, <2>1, <2>2, <2>4 DEF ReceiveBroadcast
  <2>5. CASE i # StopItem /\ ~(missing > 0)
    BY <1>1, <1>4, <2>1, <2>2, <2>5 DEF ReceiveBroadcast
  <2> QED
    BY <2>3, <2>4, <2>5
<1>6. /\ Piece(source, rootPc, part)
      /\ (l > 1) => Follows(b[2], part) /\ Piece(source, rootPc, b[2])
  <2>1. Piece(source, rootPc, part)
    BY <1>2a, PieceAt
  <2>2. CASE l > 1
    <3>1. 1 \in 1 .. l /\ 1 + 1 \in 1 .. l /\ 1 + 1 = 2
      BY <1>2, <2>2
    <3>2. PiecesFit(w)
      BY DEF BroadcastInv
    <3> QED
      BY <1>2, <2>1, <3>1, <3>2 DEF PiecesFit
  <2> QED
    BY <2>1, <2>2
<1>7. LastPiece(part) <=> (missing = 0)
  BY <1>3 DEF LastPiece
<1>8. Sending' = Sending /\ Grows
  BY <1>1 DEF Sending, Grows
<1> HIDE DEF b, t, l, missing
<1>9. PiecesFit(w)'
  <2> SUFFICES ASSUME NEW k \in 1 .. l - 1
               PROVE  /\ Piece(source, rootPc, t[k])
                      /\ (k + 1 \in 1 .. l - 1) => Follows(t[k + 1], t[k])
    BY <1>1, <1>2 DEF PiecesFit, t
  <2> DEFINE j == k + 1
  <2>1. j \in 1 .. l /\ t[k] = b[j]
    BY <1>2
  <2>2. (k + 1 \in 1 .. l - 1) => (j + 1 \in 1 .. l /\ t[k + 1] = b[j + 1])
    BY <1>2
  <2> HIDE DEF j
  <2> QED
    BY <1>2, <2>1, <2>2 DEF BroadcastInv, PiecesFit, b
<1>10. PiecesOrdered(w)'
  <2> SUFFICES ASSUME NEW j \in 1 .. l - 1, NEW k \in 1 .. l - 1, j < k
               PROVE  ItemOf(t[k]) = StopItem
                      \/ /\ ItemOf(t[j]) # StopItem
                         /\ ItemOf(t[j]).id <= ItemOf(t[k]).id
    BY <1>2 DEF PiecesOrdered, t
  <2>1. j + 1 \in 1 .. l /\ k + 1 \in 1 .. l /\ j + 1 < k + 1
        /\ t[j] = b[j + 1] /\ t[k] = b[k + 1]
    BY <1>2
  <2> QED
    BY <1>2, <2>1 DEF BroadcastInv, PiecesOrdered, b
<1>11. (i = StopItem) => (rootPc = "exited")
  BY <1>6 DEF Piece
<1>12. PiecesFront(w)'
  <2>1. (nonphys'[w].pc = "done") => (rootPc = "exited")
    BY <1>3, <1>5, <1>11
  <2>2. CASE t = <<>>
    BY <1>1, <2>1, <2>2 DEF PiecesFront, t
  <2>3. CASE t # <<>>
    <3>1. l > 1 /\ t[1] = b[2] /\ b[2] \in Part
      <4>1. l - 1 # 0
        BY <1>2, <2>3, EmptySeq
      <4>2. l > 1 /\ 1 \in 1 .. l - 1 /\ 1 + 1 = 2
        BY <1>2, <4>1
      <4> QED
        BY <1>1, <1>2, <4>2
    <3>2. /\ LastPiece(part) => (b[2].offset = 0)
          /\ ~LastPiece(part) => /\ b[2].offset = part.offset + part.bytes
                                 /\ b[2].total = part.total
      BY <1>6, <3>1 DEF Follows, Piece, ItemOf
    <3>3. (nonphys'[w].pc = "first") => (t[1].offset = 0)
      BY <1>3, <1>5, <1>7, <3>1, <3>2
    <3>4. (nonphys'[w].pc = "more") =>
            (t[1].total - t[1].offset = nonphys'[w].missing)
      <4>1. (nonphys'[w].pc = "more") =>
              (missing > 0 /\ nonphys'[w].missing = missing)
        BY <1>3, <1>5
      <4> QED
        BY <1>3, <1>7, <3>1, <3>2, <4>1 DEF missing
    <3> QED
      BY <1>1, <2>1, <3>3, <3>4 DEF PiecesFront, t
  <2> QED
    BY <2>2, <2>3
<1>13. PiecesBack(w)'
  <2>1. CASE t # <<>>
    <3>1. t[Len(t)] = b[Len(b)] /\ b # <<>>
      <4>1. l - 1 # 0
        BY <1>2, <2>1, EmptySeq
      <4>2. l - 1 \in 1 .. l - 1 /\ (l - 1) + 1 = l
        BY <1>2, <4>1
      <4> QED
        BY <1>1, <1>2, <4>2 DEF l, b
    <3> QED
      BY <1>1, <1>8, <2>1, <3>1 DEF BroadcastInv, PiecesBack, b, t
  <2>2. CASE t = <<>>
    <3>1. l = 1
      BY <1>2, <2>2
    <3>2. CASE Sending
      <4>1. part.items = <<pending>> /\ part.offset + part.bytes = sent
        BY <1>1, <3>1, <3>2 DEF BroadcastInv, PiecesBack, l, b
      <4>2. i = pending /\ part.total = pending.bytes
        BY <1>6, <4>1 DEF Piece, ItemOf
      <4>3. sent < pending.bytes /\ rootPc = "broadcast"
        BY <3>2 DEF Sending, PumpInv, Framing, RootProgress
      <4>4. i # StopItem /\ missing > 0 /\ missing = pending.bytes - sent
        BY <1>3, <1>11, <4>1, <4>2, <4>3 DEF missing
      <4> QED
        BY <1>1, <1>5, <1>8, <2>2, <3>2, <4>4 DEF PiecesBack, t
    <3>3. CASE ~Sending
      <4>1. LastPiece(part)
        BY <1>1, <3>1, <3>3 DEF BroadcastInv, PiecesBack, l, b
      <4>2. nonphys'[w].pc # "more"
        BY <1>3, <1>5, <1>7, <4>1
      <4> QED
        BY <1>8, <2>2, <3>3, <4>2 DEF PiecesBack, t
    <3> QED
      BY <3>2, <3>3
  <2> QED
    BY <2>1, <2>2
<1>14. PendingAfter(w)'
  <2>1. \A k \in 1 .. l - 1 : k + 1 \in 1 .. l /\ t[k] = b[k + 1]
    BY <1>2
  <2> QED
    BY <1>1, <1>2, <1>8, <2>1 DEF BroadcastInv, PendingAfter, t, b
<1>15. CASE i # StopItem /\ ~(missing > 0)
  <2> DEFINE e == [kind |-> "broadcast", items |-> part.items]
             n == i.id
  <2>1. /\ From(source, part.items) /\ Broadcast(i) /\ part.items = <<i>>
        /\ LastPiece(part)
    BY <1>3, <1>6, <1>7, <1>15 DEF Piece
  <2>2. part.items \in Seq(Item) /\ i \in Item
    <3>1. part.items \in Seq(Item)
      BY <1>1 DEF Part
    <3> QED
      BY <2>1, <3>1
  <2> HIDE DEF part, i
  <2>3. /\ Ids(part.items) = {n} /\ UniqueIds(part.items)
        /\ n \in DOMAIN source /\ source[n] = i /\ n \in Nat
    BY <2>1, <2>2, OneItem DEF Item
  <2>4. \A m \in Arrived(w) : Broadcast(source[m]) => m < n
    <3> SUFFICES ASSUME NEW m \in Arrived(w), Broadcast(source[m])
                 PROVE  m < n
      OBVIOUS
    <3>1. After(part, m)
      BY <1>2 DEF BroadcastInv, HeardBefore, b, part
    <3> QED
      BY <1>15, <3>1 DEF After, i
  <2>5. n \notin Arrived(w)
    BY <2>1, <2>3, <2>4
  <2>6. e \in Event /\ e.items = part.items /\ e.kind # "none"
    BY <2>2, EventTyped
  <2>7. GoodEvent(source, e) /\ QueueEvent(w, e)
    BY <1>5, <1>15, <2>1, <2>3, <2>6 DEF GoodEvent
  <2> HIDE DEF e
  <2>8. ArrivedOnce(w)' /\ Arrived(w)' = Arrived(w) \cup {n}
    BY <1>1, <2>3, <2>5, <2>6, <2>7, ArrivedQueue
\* The pieces behind the last one of an item belong to later items.
  <2>9. \A k \in 1 .. l - 1 : After(t[k], n)
    <3> SUFFICES ASSUME NEW k \in 1 .. l - 1
                 PROVE  After(b[k + 1], n)
      BY <1>2
    <3>1. l > 1 /\ k + 1 \in 1 .. l /\ 2 \in 1 .. l
      BY <1>2
    <3>2. After(b[2], n)
      BY <1>6, <2>1, <3>1 DEF Follows, i
    <3>3. CASE k = 1
      BY <3>2, <3>3
    <3>4. CASE k # 1
      <4>1. 2 < k + 1
        BY <1>2, <3>4
      <4>2. ItemOf(b[k + 1]) = StopItem
            \/ /\ ItemOf(b[2]) # StopItem
               /\ ItemOf(b[2]).id <= ItemOf(b[k + 1]).id
        BY <1>2, <3>1, <4>1 DEF BroadcastInv, PiecesOrdered, b
      <4>3. \A k2 \in 1 .. l : ItemOf(b[k2]).id \in Nat
        <5> TAKE k2 \in 1 .. l
        <5>0. b[k2] \in Part
          BY <1>1, <1>2
        <5>1. Piece(source, rootPc, b[k2])
          BY <1>2, PieceAt DEF b
        <5>2. b[k2].items = <<ItemOf(b[k2])>> /\ b[k2].items \in Seq(Item)
          BY <5>0, <5>1 DEF Piece, Part
        <5>3. ItemOf(b[k2]) \in Item
          BY <5>2
        <5> QED
          BY <5>3 DEF Item
      <4> QED
        BY <2>3, <3>1, <3>2, <4>2, <4>3 DEF After
    <3> QED
      BY <3>3, <3>4
  <2>10. Broadcast(pending) => n < pending.id
    <3> SUFFICES ASSUME Broadcast(pending)
                 PROVE  n < pending.id
      OBVIOUS
    <3>1. CASE Sending
      <4>1. sent < pending.bytes /\ l \in DOMAIN b
        BY <1>2, <3>1 DEF Sending, PumpInv, Framing, RootProgress
      <4>2. b[l].items = <<pending>> /\ b[l].offset + b[l].bytes = sent
        BY <1>1, <3>1 DEF BroadcastInv, PiecesBack, l, b
      <4>3. b[l].total = pending.bytes
        BY <4>1, <4>2 DEF BroadcastInv, PiecesFit, Piece, ItemOf, b
      <4>4. l # 1
        <5>1. sent \in Nat /\ pending.bytes \in Nat
          BY <1>1 DEF TypeOK, RootTypeOK, Item
        <5> SUFFICES ASSUME l = 1 PROVE FALSE
          OBVIOUS
        <5>2. b[l] = part
          BY DEF b, part
        <5> QED
          BY <2>1, <4>1, <4>2, <4>3, <5>1, <5>2 DEF LastPiece
      <4>5. l - 1 \in 1 .. l - 1 /\ (l - 1) + 1 = l
        BY <1>2, <4>4
      <4>6. After(b[l], n)
        BY <1>2, <2>9, <4>5
      <4> QED
        BY <4>2, <4>6 DEF After, ItemOf, StopItem, Broadcast
    <3>2. CASE ~Sending
      BY <1>2, <3>2 DEF BroadcastInv, PendingAfter, b, part, i
    <3> QED
      BY <3>1, <3>2
  <2>11. HeardBefore(w)'
    <3> SUFFICES ASSUME NEW m \in Arrived(w) \cup {n}, Broadcast(source[m])
                 PROVE  /\ \A k \in 1 .. l - 1 : After(t[k], m)
                        /\ Broadcast(pending) => m < pending.id
      BY <1>1, <1>2, <2>8 DEF HeardBefore, t
    <3>1. CASE m = n
      BY <2>9, <2>10, <3>1
    <3>2. CASE m \in Arrived(w)
      <4>1. \A k \in 1 .. l - 1 : k + 1 \in 1 .. l /\ t[k] = b[k + 1]
        BY <1>2
      <4> QED
        BY <1>2, <3>2, <4>1 DEF BroadcastInv, HeardBefore, b
    <3> QED
      BY <3>1, <3>2
  <2> QED
    BY <1>9, <1>10, <1>12, <1>13, <1>14, <2>1, <2>3, <2>8, <2>11 DEF BroadcastInv
<1>16. CASE i = StopItem \/ missing > 0
  <2>1. UNCHANGED evq
    BY <1>5, <1>16
  <2>2. ArrivedOnce(w)' /\ Arrived(w)' = Arrived(w)
    BY <1>1, <1>8, <2>1, ArrivedUnchanged
  <2>3. HeardBefore(w)'
    <3>1. \A k \in 1 .. l - 1 : k + 1 \in 1 .. l /\ t[k] = b[k + 1]
      BY <1>2
    <3> QED
      BY <1>1, <1>2, <2>2, <3>1 DEF BroadcastInv, HeardBefore, b, t
  <2> QED
    BY <1>9, <1>10, <1>12, <1>13, <1>14, <2>2, <2>3 DEF BroadcastInv
<1> QED
  BY <1>15, <1>16

---------------------------------------------------------------------------
(* Every physics item is in one place.                                     *)

PhysicsItems == {n \in DOMAIN source : IsPhysics(source[n])}
At(w) == Coming(w) \cup Arrived(w)

Located ==
  /\ \A n \in PhysicsItems : n \in Ids(buffer.items) \/ \E w \in Workers : n \in At(w)
  /\ \A w \in Workers : At(w) \cap Ids(buffer.items) = {} /\ Coming(w) \cap Arrived(w) = {}
  /\ \A v, w \in Workers : (v # w) => (PhysicsItems \cap At(v) \cap At(w) = {})

\* The inductive invariant: what the root and each worker hold comes from the
\* data source, and is held in one place.
DeliveryInv ==
  /\ SourceNumbered /\ PendingLast /\ GoodBlock(source, buffer.items) /\ Located
  /\ \A w \in Workers : BlockOwned(w) /\ ArrivedOnce(w) /\ BroadcastInv(w)

\* Blocks hold physics items only.
LEMMA BlocksPhysics ==
  ASSUME TypeOK, DeliveryInv
  PROVE  /\ Ids(buffer.items) \subseteq PhysicsItems
         /\ \A w \in Workers : Coming(w) \subseteq PhysicsItems
<1>1. ASSUME NEW s, GoodBlock(source, s)
      PROVE  Ids(s) \subseteq PhysicsItems
  BY <1>1 DEF GoodBlock, From, AllPhysics, Ids, PhysicsItems
<1>2. ASSUME NEW w \in Workers
      PROVE  Coming(w) \subseteq PhysicsItems
  <2>1. CASE ptp[w] # <<>>
    <3>1. 1 \in DOMAIN ptp[w]
      BY <2>1 DEF TypeOK, ChannelTypeOK
    <3> QED
      BY <1>1, <3>1 DEF DeliveryInv, BlockOwned, Coming
  <2>2. CASE ptp[w] = <<>>
    BY <2>2 DEF Coming
  <2> QED
    BY <2>1, <2>2
<1> QED
  BY <1>1, <1>2 DEF DeliveryInv

\* Physics items that are new to the source
LEMMA PhysicsItemsStep ==
  ASSUME TypeOK
  PROVE  /\ UNCHANGED source => (PhysicsItems' = PhysicsItems)
         /\ \A i \in NextItems : (source' = Append(source, i)) =>
              PhysicsItems' = IF IsPhysics(i) THEN PhysicsItems \cup {i.id}
                                              ELSE PhysicsItems
<1>1. UNCHANGED source => (PhysicsItems' = PhysicsItems)
  BY DEF PhysicsItems
<1>2. ASSUME NEW i \in NextItems, source' = Append(source, i)
      PROVE  PhysicsItems' = IF IsPhysics(i) THEN PhysicsItems \cup {i.id} ELSE PhysicsItems
  <2>1. /\ DOMAIN source' = DOMAIN source \cup {i.id}
        /\ i.id \notin DOMAIN source /\ source'[i.id] = i
        /\ \A k \in DOMAIN source : source'[k] = source[k]
    BY <1>2, AppendSource, NextItemsNumbered
  <2> QED
    BY <2>1 DEF PhysicsItems
<1> QED
  BY <1>1, <1>2

LEMMA DeliveryByRoot ==
  ASSUME PumpInv, DeliveryInv, Root
  PROVE  DeliveryInv'
<1>1. /\ TypeOK /\ Next /\ SourceNumbered /\ PendingLast /\ GoodBlock(source, buffer.items)
      /\ RootProgress /\ source \in Seq(Item) /\ buffer.items \in Seq(Item)
      /\ dest \in Workers \cup {NoWorker} /\ NoWorker \notin Workers
  BY WorkersAssumption DEF PumpInv, DeliveryInv, Next, Framing, TypeOK, RootTypeOK
<1>2. Grows /\ SourceNumbered'
  BY <1>1, SourceGrows
<1>3. ASSUME NEW w \in Workers
      PROVE  /\ BlockOwned(w)' /\ ArrivedOnce(w)' /\ BroadcastInv(w)' /\ PendingLast'
             /\ Arrived(w)' = Arrived(w)
             /\ Coming(w)' = IF TransmitChunk /\ dest = w /\ dest' = NoWorker
                             THEN Ids(buffer.items) ELSE Coming(w)
             /\ (dest = w) => (Coming(w) = {})
  <2>1. UNCHANGED <<evq, main, analysed>>
    BY DEF Root, RootContinues, SendRingItem, BroadcastRingItem, OnSourceAttach,
       RootExit, GetDestination, TransmitChunk, BroadcastChunk, workerVars
  <2> QED
    BY <1>1, <1>2, <2>1, BlockByRoot, ArrivedUnchanged, BroadcastByRoot DEF DeliveryInv
<1>4. PendingLast'
  BY <1>3, WorkersAssumption
<1>5. Ids(buffer.items) \subseteq PhysicsItems /\ \A w \in Workers : Coming(w) \subseteq PhysicsItems
  BY <1>1, BlocksPhysics
<1>6. GoodBlock(source', buffer'.items) /\ Located'
  <2>1. CASE SendRingItem
    <3>1. PICK i \in NextItems : /\ IsPhysics(i) /\ source' = Append(source, i)
                                 /\ buffer'.items = Append(buffer.items, i)
      BY <2>1 DEF SendRingItem
    <3>2. i \in Item /\ i.id = Len(source) + 1 /\ i.id \notin DOMAIN source
          /\ i.id \in DOMAIN source' /\ source'[i.id] = i
      BY <1>1, <3>1, NextItemsTyped, NextItemsNumbered, AppendSource DEF TypeOK
    <3>3. \A w \in Workers : i.id \notin At(w)
      BY <1>5, <3>2, ArrivedDelivered DEF At, PhysicsItems, DeliveryInv
    <3>4. i.id \notin Ids(buffer.items)
      BY <1>5, <3>2 DEF PhysicsItems
    <3>5. Ids(buffer'.items) = Ids(buffer.items) \cup {i.id}
      BY <1>1, <3>1, <3>2, AppendItem
    <3>6. GoodBlock(source', buffer.items)
      BY <1>1, <1>2, GoodBlockGrows
    <3>7. GoodBlock(source', buffer'.items)
      <4>1. From(source', Append(buffer.items, i))
        BY <1>1, <3>2, <3>6, AppendItem DEF GoodBlock
      <4>2. UniqueIds(Append(buffer.items, i)) /\ AllPhysics(Append(buffer.items, i))
        BY <1>1, <3>1, <3>2, <3>4, AppendItem DEF GoodBlock
      <4> QED
        BY <3>1, <4>1, <4>2 DEF GoodBlock
    <3>8. PhysicsItems' = PhysicsItems \cup {i.id}
      BY <1>1, <3>1, PhysicsItemsStep
    <3>9. ~TransmitChunk
      BY <2>1 DEF SendRingItem, TransmitChunk
    <3>10. \A w \in Workers : At(w)' = At(w) /\ Coming(w)' = Coming(w)
      BY <1>3, <3>9 DEF At
    <3>11. Located'
      BY <1>3, <3>3, <3>5, <3>8, <3>10 DEF DeliveryInv, Located
    <3> QED
      BY <3>7, <3>11
  <2>2. CASE TransmitChunk /\ dest' = NoWorker
    <3>1. UNCHANGED source /\ dest \in Workers
      BY <1>1, <2>2 DEF TransmitChunk, RootProgress
    <3>2. buffer' = EmptyBuffer
      BY <1>1, <2>2, <3>1 DEF TransmitChunk, InitBuffer
    <3>3. Ids(buffer'.items) = {} /\ GoodBlock(source', buffer'.items)
      BY <3>2, EmptyItems DEF EmptyBuffer, GoodBlock
    <3>4. PICK d \in Workers : d = dest
      BY <3>1
    <3>5. /\ Coming(d) = {} /\ Coming(d)' = Ids(buffer.items)
          /\ Arrived(d)' = Arrived(d)
      BY <1>3, <2>2, <3>4
    <3>6. At(d)' = Ids(buffer.items) \cup At(d)
      BY <3>5 DEF At
    <3>7. \A w \in Workers : (w # d) => (At(w)' = At(w) /\ Coming(w)' = Coming(w))
      BY <1>3, <3>4 DEF At
    <3>8. PhysicsItems' = PhysicsItems
      BY <1>1, <3>1, PhysicsItemsStep
    <3>9. \A w \in Workers : Coming(w)' \cap Arrived(w)' = {}
      BY <1>3, <3>5, <3>7 DEF DeliveryInv, Located, At
    <3>10. \A n \in PhysicsItems : \E w \in Workers : n \in At(w)'
      BY <3>6, <3>7 DEF DeliveryInv, Located
    <3>11. \A v, w \in Workers : (v # w) => (PhysicsItems \cap At(v)' \cap At(w)' = {})
      <4> SUFFICES ASSUME NEW v \in Workers, NEW w \in Workers, v # w
                   PROVE  PhysicsItems \cap At(v)' \cap At(w)' = {}
        OBVIOUS
      <4>1. CASE v # d /\ w # d
        BY <3>7, <4>1 DEF DeliveryInv, Located
      <4>2. CASE v = d
        BY <3>6, <3>7, <4>2 DEF DeliveryInv, Located
      <4>3. CASE w = d
        BY <3>6, <3>7, <4>3 DEF DeliveryInv, Located
      <4> QED
        BY <4>1, <4>2, <4>3
    <3>12. Located'
      BY <3>3, <3>8, <3>9, <3>10, <3>11 DEF Located
    <3> QED
      BY <3>3, <3>12
  <2>3. CASE ~SendRingItem /\ ~(TransmitChunk /\ dest' = NoWorker)
    <3>1. UNCHANGED buffer
      <4>1. CASE TransmitChunk
        BY <1>1, <2>3, <4>1 DEF TransmitChunk
      <4>2. CASE ~TransmitChunk
        BY <2>3, <4>2 DEF Root, RootContinues, BroadcastRingItem, OnSourceAttach,
           RootExit, GetDestination, BroadcastChunk
      <4> QED
        BY <4>1, <4>2
    <3>2. PhysicsItems' = PhysicsItems
      <4>1. CASE BroadcastRingItem
        <5>1. PICK i \in NextItems : Broadcast(i) /\ source' = Append(source, i)
          BY <4>1 DEF BroadcastRingItem
        <5>2. ~IsPhysics(i)
          BY <5>1, NextItemsNumbered
        <5> QED
          BY <1>1, <5>1, <5>2, PhysicsItemsStep
      <4>2. CASE ~BroadcastRingItem
        <5>1. UNCHANGED source
          BY <2>3, <4>2 DEF Root, RootContinues, OnSourceAttach, RootExit,
             GetDestination, TransmitChunk, BroadcastChunk
        <5> QED
          BY <1>1, <5>1, PhysicsItemsStep
      <4> QED
        BY <4>1, <4>2
    <3>3. \A w \in Workers : At(w)' = At(w) /\ Coming(w)' = Coming(w)
      BY <1>3, <2>3 DEF At
    <3>4. Located'
      BY <1>3, <3>1, <3>2, <3>3 DEF DeliveryInv, Located
    <3>5. GoodBlock(source', buffer'.items)
      BY <1>1, <1>2, <3>1, GoodBlockGrows
    <3> QED
      BY <3>4, <3>5
  <2> QED
    BY <2>1, <2>2, <2>3
<1> QED
  BY <1>2, <1>3, <1>4, <1>6 DEF DeliveryInv

\* A worker leaves alone what other workers have heard and analysed.
LEMMA OthersKeep ==
  ASSUME TypeOK, NEW w \in Workers, Worker(w), NEW v \in Workers, v # w
  PROVE  /\ UNCHANGED <<rootVars, ptp[v], evq[v], main[v]>>
         /\ UNCHANGED <<bcast[v], nonphys[v], analysed[v]>>
<1>1. UNCHANGED <<rootVars, ptp[v], evq[v], main[v]>>
  BY OthersUnchanged
<1>2. /\ bcast \in [Workers -> Seq(Part)] /\ analysed \in [Workers -> Seq(Item)]
      /\ DOMAIN nonphys = Workers
  BY DEF TypeOK, ChannelTypeOK, WorkerTypeOK
<1>3. bcast'[v] = bcast[v]
  <2>1. bcast' = bcast \/ bcast' = [bcast EXCEPT ![w] = Tail(@)]
    BY DEF Worker, PhysicsThread, MainThread, RequestFirst, ReceivePart, ReceiveMarker,
       ReceiveBroadcast, ReceiveCommand, StartEvent, DispatchItem, FinishEvent, WorkerExit
  <2> QED
    BY <1>2, <2>1
<1>4. analysed'[v] = analysed[v]
  <2>1. analysed' = analysed \/ analysed' = [analysed EXCEPT ![w] = Append(@, Head(main[w].items))]
    BY DEF Worker, PhysicsThread, MainThread, RequestFirst, ReceivePart, ReceiveMarker,
       ReceiveBroadcast, ReceiveCommand, StartEvent, DispatchItem, FinishEvent, WorkerExit
  <2> QED
    BY <1>2, <2>1
<1>5. nonphys'[v] = nonphys[v]
  <2>1. CASE ReceiveBroadcast(w)
    <3>1. \/ nonphys' = [nonphys EXCEPT ![w].pc = "done"]
          \/ \E m : nonphys' = [nonphys EXCEPT ![w] = m]
      BY <2>1 DEF ReceiveBroadcast
    <3> QED
      BY <1>2, <3>1
  <2>2. CASE ~ReceiveBroadcast(w)
    BY <2>2 DEF Worker, PhysicsThread, MainThread, RequestFirst, ReceivePart, ReceiveMarker,
       ReceiveCommand, StartEvent, DispatchItem, FinishEvent, WorkerExit
  <2> QED
    BY <2>1, <2>2
<1> QED
  BY <1>1, <1>3, <1>4, <1>5

\* What each step of a worker does to its own items.
LEMMA DeliveryOfWorker ==
  ASSUME PumpInv, DeliveryInv, NEW w \in Workers, Worker(w)
  PROVE  /\ BlockOwned(w)' /\ ArrivedOnce(w)' /\ BroadcastInv(w)'
         /\ Coming(w)' \cap Arrived(w)' = {}
         /\ At(w) \subseteq At(w)'
         /\ \A n \in At(w)' : n \in At(w) \/ (n \in DOMAIN source /\ Broadcast(source[n]))
<1>1. /\ TypeOK /\ BlockOwned(w) /\ ArrivedOnce(w) /\ BroadcastInv(w)
      /\ Coming(w) \cap Arrived(w) = {} /\ Coming(w) \subseteq PhysicsItems
      /\ \A n \in PhysicsItems : n \in DOMAIN source /\ ~Broadcast(source[n])
  BY BlocksPhysics DEF PumpInv, DeliveryInv, Located, PhysicsItems, IsPhysics, Broadcast,
     Physics
<1>2. UNCHANGED rootVars
  BY DEF Worker, PhysicsThread, MainThread, RequestFirst, ReceivePart,
     ReceiveMarker, ReceiveBroadcast, ReceiveCommand, StartEvent, DispatchItem,
     FinishEvent, WorkerExit
<1>3. Grows /\ UNCHANGED <<source, buffer, rootPc, pending, dest, sent>>
  BY <1>2 DEF Grows, rootVars
<1>4. CASE PhysicsThread(w)
  <2>1. /\ BlockOwned(w)' /\ ArrivedOnce(w)'
        /\ \/ Coming(w)' = Coming(w) /\ Arrived(w)' = Arrived(w)
           \/ Coming(w)' = {} /\ Arrived(w)' = Arrived(w) \cup Coming(w)
    BY <1>1, <1>4, BlockByWorker
  <2>2. UNCHANGED <<bcast, nonphys>>
    BY <1>4 DEF PhysicsThread, RequestFirst, ReceivePart, ReceiveMarker
  <2>3. \A n \in Arrived(w)' : n \in Arrived(w) \/ ~Broadcast(source'[n])
    BY <1>1, <1>3, <2>1
  <2>4. BroadcastInv(w)'
    BY <1>1, <1>3, <2>2, <2>3, BroadcastUnchanged
  <2>5. Coming(w)' \cap Arrived(w)' = {} /\ At(w)' = At(w)
    BY <1>1, <2>1 DEF At
  <2> QED
    BY <2>1, <2>4, <2>5
<1>5. ASSUME UNCHANGED ptp, ArrivedOnce(w)', BroadcastInv(w)', Arrived(w) \subseteq Arrived(w)',
             \A n \in Arrived(w)' :
               n \in Arrived(w) \/ (n \in DOMAIN source /\ Broadcast(source[n]))
      PROVE  /\ BlockOwned(w)' /\ Coming(w)' \cap Arrived(w)' = {}
             /\ At(w) \subseteq At(w)'
             /\ \A n \in At(w)' : n \in At(w) \/ (n \in DOMAIN source /\ Broadcast(source[n]))
  <2>1. BlockOwned(w)' /\ Coming(w)' = Coming(w)
    BY <1>1, <1>3, <1>5, BlockUnchanged
  <2>2. Coming(w)' \cap Arrived(w)' = {}
    BY <1>1, <1>5, <2>1
  <2> QED
    BY <1>5, <2>1, <2>2 DEF At
<1>6. CASE ReceiveBroadcast(w)
  <2>1. UNCHANGED ptp
    BY <1>6 DEF ReceiveBroadcast
  <2>2. /\ BroadcastInv(w)' /\ ArrivedOnce(w)' /\ Arrived(w) \subseteq Arrived(w)'
        /\ \A n \in Arrived(w)' :
             n \in Arrived(w) \/ (n \in DOMAIN source /\ Broadcast(source[n]))
    BY <1>1, <1>6, PiecesByWorker
  <2> QED
    BY <1>5, <2>1, <2>2
<1>7. CASE ReceiveCommand(w) \/ MainThread(w)
  <2>1. UNCHANGED <<ptp, bcast, nonphys>>
    BY <1>7 DEF ReceiveCommand, MainThread, StartEvent, DispatchItem, FinishEvent, WorkerExit
  <2>2. ArrivedOnce(w)' /\ Arrived(w)' = Arrived(w)
    <3>1. CASE ReceiveCommand(w)
      <4> DEFINE e == [kind |-> "exit", items |-> <<>>]
      <4>1. QueueEvent(w, e) /\ UNCHANGED <<main, analysed, source>>
        BY <3>1, <1>3 DEF ReceiveCommand
      <4>2. e \in Event /\ e.kind # "none" /\ e.items = <<>>
        BY DEF Event
      <4> HIDE DEF e
      <4>3. Ids(e.items) = {} /\ GoodEvent(source, e)
        BY <4>2, EmptyItems DEF GoodEvent
      <4> QED
        BY <1>1, <4>1, <4>2, <4>3, ArrivedQueue
    <3>2. CASE MainThread(w)
      BY <1>1, <3>2, ArrivedMoves
    <3> QED
      BY <1>7, <3>1, <3>2
  <2>3. BroadcastInv(w)'
    BY <1>1, <1>3, <2>1, <2>2, BroadcastUnchanged
  <2> QED
    BY <1>5, <2>1, <2>2, <2>3
<1> QED
  BY <1>1, <1>4, <1>5, <1>6, <1>7, PiecesByWorker, BlockByWorker DEF Worker

LEMMA DeliveryByWorker ==
  ASSUME PumpInv, DeliveryInv, NEW w \in Workers, Worker(w)
  PROVE  DeliveryInv'
<1>1. TypeOK /\ Ids(buffer.items) \subseteq PhysicsItems
  BY BlocksPhysics DEF PumpInv
<1>2. UNCHANGED rootVars
  BY DEF Worker, PhysicsThread, MainThread, RequestFirst, ReceivePart,
     ReceiveMarker, ReceiveBroadcast, ReceiveCommand, StartEvent, DispatchItem,
     FinishEvent, WorkerExit
<1>3. Grows /\ UNCHANGED <<source, buffer, rootPc, pending, dest, sent>>
  BY <1>2 DEF Grows, rootVars
<1>4. SourceNumbered' /\ PendingLast' /\ GoodBlock(source', buffer'.items)
  BY <1>3 DEF DeliveryInv, SourceNumbered, PendingLast, GoodBlock
<1>5. ASSUME NEW v \in Workers
      PROVE  /\ BlockOwned(v)' /\ ArrivedOnce(v)' /\ BroadcastInv(v)'
             /\ Coming(v)' \cap Arrived(v)' = {}
             /\ At(v) \subseteq At(v)'
             /\ \A n \in At(v)' : n \in At(v) \/ n \notin PhysicsItems
  <2>1. CASE v = w
    <3>1. \A n \in DOMAIN source : Broadcast(source[n]) => n \notin PhysicsItems
      BY DEF PhysicsItems, IsPhysics, Broadcast, Physics
    <3> QED
      BY <2>1, <3>1, DeliveryOfWorker
  <2>2. CASE v # w
    <3>1. UNCHANGED <<ptp[v], evq[v], main[v], bcast[v], nonphys[v], analysed[v]>>
      BY <1>1, <2>2, OthersKeep
    <3>2. BlockOwned(v)' /\ Coming(v)' = Coming(v)
      BY <1>3, <3>1, BlockUnchanged DEF DeliveryInv
    <3>3. ArrivedOnce(v)' /\ Arrived(v)' = Arrived(v)
      BY <1>3, <3>1, ArrivedUnchanged DEF DeliveryInv
    <3>4. BroadcastInv(v)'
      BY <1>3, <3>1, <3>3, BroadcastUnchanged DEF DeliveryInv
    <3> QED
      BY <3>2, <3>3, <3>4 DEF DeliveryInv, Located, At
  <2> QED
    BY <2>1, <2>2
<1>6. PhysicsItems' = PhysicsItems
  BY <1>3 DEF PhysicsItems
<1>7. Located'
  BY <1>1, <1>3, <1>5, <1>6 DEF DeliveryInv, Located
<1> QED
  BY <1>4, <1>5, <1>7 DEF DeliveryInv

LEMMA InitDelivery ==
  ASSUME Init
  PROVE  DeliveryInv
<1>1. SourceNumbered /\ PendingLast /\ PhysicsItems = {}
  BY DEF Init, SourceNumbered, PendingLast, PhysicsItems
<1>2. GoodBlock(source, buffer.items) /\ Ids(buffer.items) = {}
  BY EmptyItems DEF Init, EmptyBuffer, GoodBlock
<1>3. ASSUME NEW w \in Workers
      PROVE  BlockOwned(w) /\ ArrivedOnce(w) /\ BroadcastInv(w) /\ At(w) = {}
  <2>1. /\ ptp[w] = <<>> /\ evq[w] = <<>> /\ main[w] = Idle /\ analysed[w] = <<>>
        /\ bcast[w] = <<>> /\ nonphys[w].pc = "first" /\ ~Sending
    BY <1>3 DEF Init, Sending
  <2>2. BlockOwned(w) /\ Coming(w) = {}
    BY <2>1 DEF BlockOwned, Coming
  <2>3. Waiting(w) = {} /\ Handled(w) = {} /\ Analysed(w) = {}
    BY <2>1, EmptyItems DEF Waiting, Handled, Analysed, Idle
  <2>4. ArrivedOnce(w)
    BY <2>1, <2>3, EmptyItems DEF ArrivedOnce, GoodEvent, Idle
  <2>5. BroadcastInv(w)
    BY <2>1, <2>3 DEF BroadcastInv, PiecesFit, PiecesOrdered, PiecesFront, PiecesBack,
       HeardBefore, PendingAfter, Arrived
  <2> QED
    BY <2>2, <2>3, <2>4, <2>5 DEF At, Arrived
<1>4. Located
  BY <1>1, <1>2, <1>3 DEF Located, At
<1> QED
  BY <1>1, <1>2, <1>3, <1>4 DEF DeliveryInv

LEMMA DeliveryStutters ==
  ASSUME DeliveryInv, UNCHANGED vars
  PROVE  DeliveryInv'
<1>1. /\ SourceNumbered' /\ PendingLast' /\ GoodBlock(source', buffer'.items)
      /\ PhysicsItems' = PhysicsItems /\ Grows
  BY DEF DeliveryInv, SourceNumbered, PendingLast, PhysicsItems, Grows, vars, rootVars
<1>2. ASSUME NEW w \in Workers
      PROVE  /\ BlockOwned(w)' /\ ArrivedOnce(w)' /\ BroadcastInv(w)'
             /\ Coming(w)' = Coming(w) /\ Arrived(w)' = Arrived(w)
  <2>1. /\ UNCHANGED <<ptp[w], evq[w], main[w], bcast[w], nonphys[w], analysed[w]>>
        /\ UNCHANGED <<source, buffer, rootPc, pending, dest, sent>>
    BY DEF vars, rootVars, workerVars
  <2>2. BlockOwned(w)' /\ Coming(w)' = Coming(w)
    BY <1>1, <2>1, BlockUnchanged DEF DeliveryInv
  <2>3. ArrivedOnce(w)' /\ Arrived(w)' = Arrived(w)
    BY <1>1, <2>1, ArrivedUnchanged DEF DeliveryInv
  <2>4. BroadcastInv(w)'
    BY <1>1, <2>1, <2>3, BroadcastUnchanged DEF DeliveryInv
  <2> QED
    BY <2>2, <2>3, <2>4
<1>3. UNCHANGED buffer /\ \A w \in Workers : At(w)' = At(w)
  BY <1>2 DEF At, vars, rootVars
<1>4. Located'
  BY <1>1, <1>2, <1>3 DEF DeliveryInv, Located
<1> QED
  BY <1>1, <1>2, <1>4 DEF DeliveryInv

LEMMA DeliveryInvariant == Spec => [](PumpInv /\ DeliveryInv)
<1>1. Init => DeliveryInv
  BY InitDelivery
<1>2. PumpInv /\ DeliveryInv /\ [Next]_vars => DeliveryInv'
  BY DeliveryByRoot, DeliveryByWorker, DeliveryStutters DEF Next
<1> QED
  BY <1>1, <1>2, PumpInvariant, PTL DEF Spec

---------------------------------------------------------------------------
(* The places of ExactlyOnce, in terms of what the invariant is about.      *)

LEMMA PhysicsIdsFrom ==
  ASSUME SourceNumbered, NEW s, From(source, s)
  PROVE  PhysicsIds(s) = Ids(s) \cap PhysicsItems
BY DEF PhysicsIds, Ids, From, PhysicsItems

LEMMA PhysicsIdsSource ==
  ASSUME SourceNumbered
  PROVE  PhysicsIds(source) = PhysicsItems
BY DEF SourceNumbered, PhysicsIds, PhysicsItems

LEMMA PlacesExact ==
  ASSUME TypeOK, DeliveryInv, NEW w \in Workers
  PROVE  /\ IdsAt(w)["delivering"] = Coming(w)
         /\ IdsAt(w)["queued"] = Waiting(w) \cap PhysicsItems
         /\ IdsAt(w)["handling"] = Handled(w) \cap PhysicsItems
         /\ IdsAt(w)["analysed"] = Analysed(w) \cap PhysicsItems
<1>1. /\ SourceNumbered /\ BlockOwned(w) /\ ArrivedOnce(w)
      /\ Coming(w) \subseteq PhysicsItems
  BY BlocksPhysics DEF DeliveryInv
<1>2. IdsAt(w)["delivering"] = Coming(w)
  <2>1. CASE dest = w
    BY <2>1 DEF IdsAt, Coming
  <2>2. CASE dest # w
    <3>1. IdsAt(w)["delivering"] = UNION {PhysicsIds(ptp[w][k].items) : k \in DOMAIN ptp[w]}
      BY <2>2 DEF IdsAt
    <3>2. \A k \in DOMAIN ptp[w] : From(source, ptp[w][k].items)
                                   /\ ptp[w][k].items = ptp[w][1].items
      BY <1>1 DEF BlockOwned, GoodBlock
    <3>3. CASE ptp[w] = <<>>
      BY <2>2, <3>1, <3>3 DEF Coming
    <3>4. CASE ptp[w] # <<>>
      <4>1. 1 \in DOMAIN ptp[w]
        BY <3>4 DEF TypeOK, ChannelTypeOK
      <4>2. Coming(w) = Ids(ptp[w][1].items)
        BY <2>2, <3>4 DEF Coming
      <4>3. \A k \in DOMAIN ptp[w] : PhysicsIds(ptp[w][k].items) = Coming(w)
        BY <1>1, <3>2, <4>1, <4>2, PhysicsIdsFrom
      <4> QED
        BY <3>1, <4>1, <4>3
    <3> QED
      BY <3>3, <3>4
  <2> QED
    BY <2>1, <2>2
<1>3. IdsAt(w)["queued"] = Waiting(w) \cap PhysicsItems
  <2>1. \A k \in DOMAIN evq[w] :
          PhysicsIds(evq[w][k].items) = Ids(evq[w][k].items) \cap PhysicsItems
    BY <1>1, PhysicsIdsFrom DEF ArrivedOnce, GoodEvent
  <2> QED
    BY <2>1 DEF IdsAt, Waiting
<1>4. /\ IdsAt(w)["handling"] = Handled(w) \cap PhysicsItems
      /\ IdsAt(w)["analysed"] = Analysed(w) \cap PhysicsItems
  <2>1. IdsAt(w)["handling"] = PhysicsIds(main[w].items)
        /\ IdsAt(w)["analysed"] = PhysicsIds(analysed[w])
    BY DEF IdsAt
  <2> QED
    BY <1>1, <2>1, PhysicsIdsFrom DEF ArrivedOnce, GoodEvent, Handled, Analysed
<1> QED
  BY <1>2, <1>3, <1>4

LEMMA DeliveredOnce ==
  ASSUME TypeOK, DeliveryInv
  PROVE  ExactlyOnce
<1>1. /\ PhysicsIds(source) = PhysicsItems
      /\ PhysicsIds(buffer.items) = Ids(buffer.items)
      /\ Ids(buffer.items) \subseteq PhysicsItems
      /\ Located
  BY PhysicsIdsSource, PhysicsIdsFrom, BlocksPhysics DEF DeliveryInv, GoodBlock
<1>2. ASSUME NEW w \in Workers
      PROVE  /\ \A p \in Places : IdsAt(w)[p] \subseteq At(w) \cap PhysicsItems
             /\ \A n \in At(w) \cap PhysicsItems : \E p \in Places : n \in IdsAt(w)[p]
             /\ \A p, q \in Places : (p # q) => (IdsAt(w)[p] \cap IdsAt(w)[q] = {})
  <2>1. /\ IdsAt(w)["delivering"] = Coming(w) /\ Coming(w) \subseteq PhysicsItems
        /\ IdsAt(w)["queued"] = Waiting(w) \cap PhysicsItems
        /\ IdsAt(w)["handling"] = Handled(w) \cap PhysicsItems
        /\ IdsAt(w)["analysed"] = Analysed(w) \cap PhysicsItems
    BY PlacesExact, BlocksPhysics
  <2>2. /\ Coming(w) \cap Arrived(w) = {}
        /\ Waiting(w) \cap Handled(w) = {} /\ Waiting(w) \cap Analysed(w) = {}
        /\ Handled(w) \cap Analysed(w) = {}
    BY DEF DeliveryInv, Located, ArrivedOnce
  <2>3. At(w) = Coming(w) \cup Waiting(w) \cup Handled(w) \cup Analysed(w)
    BY DEF At, Arrived
  <2>4. \A p, q \in Places : (p # q) => (IdsAt(w)[p] \cap IdsAt(w)[q] = {})
    BY <2>1, <2>2 DEF Arrived, Places
  <2> QED
    BY <2>1, <2>3, <2>4 DEF Places
<1>3. ASSUME NEW n \in PhysicsItems
      PROVE  \/ /\ n \in Ids(buffer.items)
                /\ \A w \in Workers, p \in Places : n \notin IdsAt(w)[p]
             \/ /\ n \notin Ids(buffer.items)
                /\ \E w \in Workers, p \in Places :
                     /\ n \in IdsAt(w)[p]
                     /\ \A v \in Workers, q \in Places :
                          (n \in IdsAt(v)[q]) => (v = w /\ q = p)
  <2>1. CASE n \in Ids(buffer.items)
    BY <1>1, <1>2, <2>1 DEF Located
  <2>2. CASE n \notin Ids(buffer.items)
    <3>1. PICK w \in Workers : n \in At(w)
      BY <1>1, <2>2 DEF Located
    <3>2. PICK p \in Places : n \in IdsAt(w)[p]
      BY <1>2, <3>1
    <3>3. ASSUME NEW v \in Workers, NEW q \in Places, n \in IdsAt(v)[q]
          PROVE  v = w /\ q = p
      <4>1. v = w
        BY <1>1, <1>2, <3>1, <3>3 DEF Located
      <4> QED
        BY <1>2, <3>2, <3>3, <4>1
    <3> QED
      BY <2>2, <3>2, <3>3
  <2> QED
    BY <2>1, <2>2
<1>4. \A w \in Workers : \A j, k \in DOMAIN analysed[w] :
        (analysed[w][j].id = analysed[w][k].id) => (j = k)
  BY DEF DeliveryInv, ArrivedOnce, UniqueIds
<1> QED
  BY <1>1, <1>3, <1>4 DEF ExactlyOnce

\* No physics item the root reads is lost, duplicated or analysed by two
\* workers, and no worker analyses any item twice, for any number of workers,
\* chunk sizes, message sizes and items: BufferedItems::flush, physicsThread,
\* nonPhysicsThread and RingItemEventHandler hand every item over once.
THEOREM ItemsDeliveredOnce == Spec => []ExactlyOnce
BY DeliveryInvariant, DeliveredOnce, PTL DEF PumpInv

---------------------------------------------------------------------------
(* The statistics.  While a flush is under way the item that caused it is  *)
(* not yet in them: the counters are exact up to that item.                 *)

Counted == {n \in PhysicsItems : ~(IsPhysics(pending) /\ n = pending.id)}
InRun == {n \in Counted : source[n].run = CurrentRun}

\* A state change item waits for the flush before it.
Unsettled == rootPc \in {"request", "send"} /\ pending.type \in {"BEGIN_RUN", "END_RUN"}

RunExact ==
  /\ stats.thisRun = Cardinality(InRun)
  /\ stats.runs = CurrentRun
RunPending ==
  /\ stats.runs + 1 = CurrentRun
  /\ RunActive
  /\ \A n \in PhysicsItems : source[n].run < CurrentRun

StatisticsInv ==
  /\ \A k \in DOMAIN source : source[k].run <= CurrentRun
  /\ stats.analyzed = Cardinality(Counted)
  /\ IF Unsettled /\ pending.type = "BEGIN_RUN" THEN RunPending ELSE RunExact
  /\ IF Unsettled THEN (pending.type = "END_RUN") => ~RunActive
                  ELSE (stats.state = "Active") <=> RunActive

LEMMA CountedFinite ==
  ASSUME TypeOK
  PROVE  /\ IsFiniteSet(Counted) /\ IsFiniteSet(InRun)
         /\ Cardinality(Counted) \in Nat /\ Cardinality(InRun) \in Nat
<1>1. Len(source) \in Nat /\ DOMAIN source = 1 .. Len(source)
  BY DEF TypeOK, RootTypeOK
<1>2. IsFiniteSet(DOMAIN source)
  BY <1>1, FS_Interval
<1>3. Counted \in SUBSET DOMAIN source /\ InRun \in SUBSET DOMAIN source
  BY DEF Counted, InRun, PhysicsItems
<1>4. IsFiniteSet(Counted) /\ IsFiniteSet(InRun)
  BY <1>2, <1>3, FS_Subset
<1> QED
  BY <1>4, FS_CardinalityType

\* The run a new item belongs to
LEMMA RunStep ==
  ASSUME TypeOK, \A k \in DOMAIN source : source[k].run <= CurrentRun,
         NEW i \in NextItems, source' = Append(source, i)
  PROVE  /\ CurrentRun' = i.run /\ CurrentRun \in Nat
         /\ \A k \in DOMAIN source' : source'[k].run <= CurrentRun'
         /\ i.type \in {Physics, "BEGIN_RUN", "END_RUN", "OTHER"}
         /\ (i.type # "BEGIN_RUN") => (CurrentRun' = CurrentRun)
         /\ (i.type = "BEGIN_RUN") => (CurrentRun' = CurrentRun + 1 /\ RunActive')
         /\ (i.type = "END_RUN") => ~RunActive'
         /\ (i.type \in {Physics, "OTHER"}) => (RunActive' <=> RunActive)
<1>1. /\ DOMAIN source' = DOMAIN source \cup {Len(source) + 1}
      /\ source'[Len(source) + 1] = i /\ source' # <<>> /\ Len(source') = Len(source) + 1
      /\ \A k \in DOMAIN source : source'[k] = source[k]
  BY AppendSource
<1>2. CurrentRun' = i.run
  BY <1>1 DEF CurrentRun
<1>3. source \in Seq(Item) /\ i \in Item
  BY NextItemsTyped DEF TypeOK, RootTypeOK
<1>4. CurrentRun \in Nat
  <2>1. (source # <<>>) => (source[Len(source)] \in Item)
    BY <1>3
  <2> QED
    BY <2>1 DEF CurrentRun, Item
<1>5. /\ i.type \in {Physics, "BEGIN_RUN", "END_RUN", "OTHER"}
      /\ i.run = IF i.type = "BEGIN_RUN" THEN CurrentRun + 1 ELSE CurrentRun
      /\ (i.type \in {Physics, "END_RUN"}) => RunActive
      /\ (i.type = "BEGIN_RUN") => ~RunActive
  BY DEF NextItems, ItemsOf, Physics
<1>6. \A k \in DOMAIN source : source[k].run \in Nat
  <2>1. \A k \in DOMAIN source : source[k] \in Item
    BY <1>3
  <2> QED
    BY <2>1 DEF Item
<1>7. \A k \in DOMAIN source' : source'[k].run <= CurrentRun'
  BY <1>1, <1>2, <1>4, <1>5, <1>6
<1>8. (i.type = "BEGIN_RUN") => RunActive'
  <2> SUFFICES ASSUME i.type = "BEGIN_RUN"
               PROVE  RunActive'
    OBVIOUS
  <2>1. CurrentRun' = CurrentRun + 1
    BY <1>2, <1>5
  <2>2. \A k \in DOMAIN source' :
          (source'[k].type = "END_RUN") => (source'[k].run # CurrentRun')
    BY <1>1, <1>4, <1>6, <2>1
  <2> QED
    BY <1>1, <1>4, <2>1, <2>2 DEF RunActive
<1>9. (i.type = "END_RUN") => ~RunActive'
  BY <1>1, <1>2 DEF RunActive
<1>10. (i.type \in {Physics, "OTHER"}) => (RunActive' <=> RunActive)
  <2> SUFFICES ASSUME i.type \in {Physics, "OTHER"}
               PROVE  RunActive' <=> RunActive
    OBVIOUS
  <2>1. CurrentRun' = CurrentRun /\ i.type # "END_RUN"
    BY <1>2, <1>5 DEF Physics
  <2>2. (\A k \in DOMAIN source' :
           (source'[k].type = "END_RUN") => (source'[k].run # CurrentRun'))
        <=> (\A k \in DOMAIN source :
               (source[k].type = "END_RUN") => (source[k].run # CurrentRun))
    BY <1>1, <2>1
  <2>3. (source = <<>>) => (CurrentRun = 0)
    BY DEF CurrentRun
  <2> QED
    BY <1>1, <2>1, <2>2, <2>3 DEF RunActive
<1> QED
  BY <1>2, <1>4, <1>5, <1>7, <1>8, <1>9, <1>10

\* A physics item enters the buffer, and is counted unless the buffer is full.
LEMMA StatisticsBySend ==
  ASSUME TypeOK, SourceNumbered, PendingLast, StatisticsInv, SendRingItem
  PROVE  StatisticsInv'
<1>1. PICK i \in NextItems :
        /\ IsPhysics(i) /\ source' = Append(source, i)
        /\ \/ rootPc' = "request" /\ pending' = i /\ UNCHANGED stats
           \/ stats' = CountPhysics(stats) /\ UNCHANGED <<rootPc, pending>>
  BY DEF SendRingItem
<1>2. /\ rootPc = "idle" /\ pending = NoItem /\ ~IsPhysics(pending)
      /\ ~Unsettled /\ stats \in Statistics
  BY DEF SendRingItem, PendingLast, Unsettled, NoItem, IsPhysics, Physics, TypeOK, RootTypeOK
<1>3. ~Unsettled' /\ i.type \notin {"BEGIN_RUN", "END_RUN"}
  BY <1>1, <1>2 DEF Unsettled, IsPhysics, Physics
<1>4. i.id = Len(source) + 1 /\ i.id \notin PhysicsItems
  BY <1>1, NextItemsNumbered, AppendSource DEF PhysicsItems
<1>5. /\ PhysicsItems' = PhysicsItems \cup {i.id} /\ source'[i.id] = i
      /\ \A n \in PhysicsItems : source'[n] = source[n]
  BY <1>1, <1>4, AppendSource, PhysicsItemsStep DEF PhysicsItems
<1>6. /\ \A k \in DOMAIN source' : source'[k].run <= CurrentRun'
      /\ i.run = CurrentRun /\ CurrentRun' = CurrentRun /\ (RunActive' <=> RunActive)
  BY <1>1, <1>3, RunStep DEF StatisticsInv, IsPhysics
<1>7. Counted = PhysicsItems /\ i.id \notin Counted /\ i.id \notin InRun
  BY <1>2, <1>4 DEF Counted, InRun
<1>8. RunExact /\ ((stats.state = "Active") <=> RunActive)
      /\ stats.analyzed = Cardinality(Counted)
  BY <1>2 DEF StatisticsInv
<1>9. CASE pending' = i /\ UNCHANGED stats
  <2>1. Counted' = Counted
    BY <1>1, <1>4, <1>5, <1>7, <1>9 DEF Counted
  <2>2. InRun' = InRun
    BY <1>5, <1>6, <1>7, <2>1 DEF InRun
  <2> QED
    BY <1>3, <1>6, <1>8, <1>9, <2>1, <2>2 DEF StatisticsInv, RunExact
<1>10. CASE stats' = CountPhysics(stats) /\ UNCHANGED pending
  <2>1. Counted' = Counted \cup {i.id}
    BY <1>2, <1>5, <1>7, <1>10 DEF Counted
  <2>2. InRun' = InRun \cup {i.id}
    BY <1>5, <1>6, <1>7, <2>1 DEF InRun
  <2>3. /\ Cardinality(Counted') = Cardinality(Counted) + 1
        /\ Cardinality(InRun') = Cardinality(InRun) + 1
    BY <1>7, <2>1, <2>2, CountedFinite, FS_AddElement
  <2>4. /\ stats'.analyzed = stats.analyzed + 1 /\ stats'.thisRun = stats.thisRun + 1
        /\ stats'.runs = stats.runs /\ stats'.state = stats.state
    BY <1>10 DEF CountPhysics
  <2> QED
    BY <1>3, <1>6, <1>8, <2>3, <2>4 DEF StatisticsInv, RunExact
<1> QED
  BY <1>1, <1>9, <1>10

\* Any other item is broadcast once the buffer is empty.
LEMMA StatisticsByBroadcast ==
  ASSUME TypeOK, SourceNumbered, PendingLast, StatisticsInv, BroadcastRingItem
  PROVE  StatisticsInv'
<1>1. PICK i \in NextItems : Broadcast(i) /\ source' = Append(source, i) /\ Flush(i)
  BY DEF BroadcastRingItem
<1>2. /\ rootPc = "idle" /\ ~IsPhysics(pending) /\ ~Unsettled /\ stats \in Statistics
  BY DEF BroadcastRingItem, PendingLast, Unsettled, NoItem, IsPhysics, Physics, TypeOK,
     RootTypeOK
<1>3. /\ i.type \in {"BEGIN_RUN", "END_RUN", "OTHER"} /\ ~IsPhysics(i)
  BY <1>1 DEF Broadcast, IsPhysics, Physics
<1>4. /\ PhysicsItems' = PhysicsItems
      /\ \A n \in PhysicsItems : source'[n] = source[n]
  BY <1>1, <1>3, AppendSource, PhysicsItemsStep DEF PhysicsItems
<1>5. /\ CurrentRun \in Nat
      /\ \A k \in DOMAIN source' : source'[k].run <= CurrentRun'
      /\ (i.type # "BEGIN_RUN") => (CurrentRun' = CurrentRun)
      /\ (i.type = "BEGIN_RUN") => (CurrentRun' = CurrentRun + 1 /\ RunActive')
      /\ (i.type = "END_RUN") => ~RunActive'
      /\ (i.type = "OTHER") => (RunActive' <=> RunActive)
  BY <1>1, RunStep DEF StatisticsInv
<1>6. \/ /\ rootPc' = "request" /\ pending' = i /\ UNCHANGED stats
      \/ /\ rootPc' = "broadcast" /\ pending' = i /\ stats' = UpdateStatistics(stats, i)
  BY <1>1, <1>3 DEF Flush, AfterFlush, Physics
<1>7. Counted' = Counted
  BY <1>2, <1>3, <1>4, <1>6 DEF Counted
<1>8. (i.type # "BEGIN_RUN") => (InRun' = InRun)
  BY <1>4, <1>5, <1>7 DEF InRun, Counted
<1>9. /\ RunExact /\ ((stats.state = "Active") <=> RunActive)
      /\ stats.analyzed = Cardinality(Counted)
  BY <1>2 DEF StatisticsInv
<1>10. (i.type = "BEGIN_RUN") => \A n \in PhysicsItems' : source'[n].run < CurrentRun'
  <2>1. \A n \in PhysicsItems : source[n].run <= CurrentRun /\ source[n].run \in Nat
    <3>1. \A k \in DOMAIN source : source[k] \in Item
      BY DEF TypeOK, RootTypeOK
    <3> QED
      BY <3>1 DEF StatisticsInv, PhysicsItems, Item
  <2> QED
    BY <1>4, <1>5, <2>1
<1>11. CASE rootPc' = "request" /\ pending' = i /\ UNCHANGED stats
  <2>1. Unsettled' <=> i.type \in {"BEGIN_RUN", "END_RUN"}
    BY <1>11 DEF Unsettled
  <2>2. CASE i.type = "BEGIN_RUN"
    BY <1>5, <1>7, <1>9, <1>10, <1>11, <2>1, <2>2 DEF StatisticsInv, RunPending, RunExact
  <2>3. CASE i.type # "BEGIN_RUN"
    BY <1>3, <1>5, <1>7, <1>8, <1>9, <1>11, <2>1, <2>3 DEF StatisticsInv, RunExact
  <2> QED
    BY <2>2, <2>3
<1>12. CASE rootPc' = "broadcast" /\ pending' = i /\ stats' = UpdateStatistics(stats, i)
  <2>1. ~Unsettled'
    BY <1>12 DEF Unsettled
  <2>2. CASE i.type = "BEGIN_RUN"
    <3>1. /\ stats'.analyzed = stats.analyzed /\ stats'.thisRun = 0
          /\ stats'.runs = stats.runs + 1 /\ stats'.state = "Active"
      BY <1>12, <2>2 DEF UpdateStatistics, BeginStatistics
    <3>2. InRun' = {}
      BY <1>5, <1>7, <1>10, <2>2 DEF InRun, Counted
    <3> QED
      BY <1>5, <1>7, <1>9, <2>1, <2>2, <3>1, <3>2, FS_EmptySet DEF StatisticsInv, RunExact
  <2>3. CASE i.type = "END_RUN"
    <3>1. /\ stats'.analyzed = stats.analyzed /\ stats'.thisRun = stats.thisRun
          /\ stats'.runs = stats.runs /\ stats'.state = "Halted"
      BY <1>2, <1>12, <2>3 DEF UpdateStatistics, EndStatistics, Statistics
    <3> QED
      BY <1>5, <1>7, <1>8, <1>9, <2>1, <2>3, <3>1 DEF StatisticsInv, RunExact
  <2>4. CASE i.type = "OTHER"
    <3>1. stats' = stats
      BY <1>12, <2>4 DEF UpdateStatistics
    <3> QED
      BY <1>5, <1>7, <1>8, <1>9, <2>1, <2>4, <3>1 DEF StatisticsInv, RunExact
  <2> QED
    BY <1>3, <2>2, <2>3, <2>4
<1> QED
  BY <1>6, <1>11, <1>12

\* What the statistics are compared with depends on the source and, while a
\* flush is under way, on the pending item.
LEMMA StatisticsUnchanged ==
  ASSUME StatisticsInv, UNCHANGED <<source, stats>>, Counted' = Counted,
         (Unsettled' <=> Unsettled), Unsettled => UNCHANGED pending
  PROVE  StatisticsInv'
<1>1. /\ CurrentRun' = CurrentRun /\ (RunActive' <=> RunActive)
      /\ InRun' = InRun /\ PhysicsItems' = PhysicsItems
  BY DEF CurrentRun, RunActive, InRun, PhysicsItems
<1>2. RunPending' <=> RunPending
  BY <1>1 DEF RunPending
<1>3. RunExact' <=> RunExact
  BY <1>1 DEF RunExact
<1>4. /\ (Unsettled /\ pending.type = "BEGIN_RUN")' <=> (Unsettled /\ pending.type = "BEGIN_RUN")
      /\ Unsettled' => (pending' = pending)
  OBVIOUS
<1> QED
  BY <1>1, <1>2, <1>3, <1>4 DEF StatisticsInv

\* The last part of a block has been sent: the item that was waiting for the
\* flush enters the statistics.
LEMMA StatisticsByFlush ==
  ASSUME TypeOK, SourceNumbered, PendingLast, StatisticsInv, rootPc = "send",
         AfterFlush(pending), UNCHANGED source
  PROVE  StatisticsInv'
<1>1. /\ CurrentRun' = CurrentRun /\ (RunActive' <=> RunActive)
      /\ PhysicsItems' = PhysicsItems /\ ~Unsettled'
      /\ \A k \in DOMAIN source : source'[k].run <= CurrentRun'
  BY DEF AfterFlush, CurrentRun, RunActive, PhysicsItems, Unsettled, StatisticsInv
<1>2. Unsettled <=> pending.type \in {"BEGIN_RUN", "END_RUN"}
  BY DEF Unsettled
<1>3. stats \in Statistics /\ source \in Seq(Item)
  BY DEF TypeOK, RootTypeOK
<1>4. NoItem.type = "NONE" /\ StopItem.type = "STOP"
  BY DEF NoItem, StopItem
<1>5. CASE IsPhysics(pending)
  <2>1. /\ pending' = NoItem /\ stats' = CountPhysics(stats) /\ ~Unsettled
        /\ ~IsPhysics(pending')
    BY <1>2, <1>4, <1>5 DEF AfterFlush, IsPhysics, Physics
  <2>2. /\ source # <<>> /\ pending = source[Len(source)]
        /\ Len(source) \in DOMAIN source
    BY <1>3, <1>4, <1>5 DEF PendingLast, IsPhysics, Physics
  <2>3. pending.id \in PhysicsItems /\ source[pending.id] = pending /\ pending.run = CurrentRun
    BY <1>5, <2>2 DEF SourceNumbered, PhysicsItems, CurrentRun
  <2>4. /\ Counted' = Counted \cup {pending.id} /\ pending.id \notin Counted
    BY <1>1, <1>5, <2>1, <2>3 DEF Counted
  <2>5. /\ InRun' = InRun \cup {pending.id} /\ pending.id \notin InRun
    BY <1>1, <2>3, <2>4 DEF InRun
  <2>6. /\ Cardinality(Counted') = Cardinality(Counted) + 1
        /\ Cardinality(InRun') = Cardinality(InRun) + 1
    BY <2>4, <2>5, CountedFinite, FS_AddElement
  <2>7. /\ stats'.analyzed = stats.analyzed + 1 /\ stats'.thisRun = stats.thisRun + 1
        /\ stats'.runs = stats.runs /\ stats'.state = stats.state
    BY <2>1 DEF CountPhysics
  <2>8. /\ RunExact /\ ((stats.state = "Active") <=> RunActive)
        /\ stats.analyzed = Cardinality(Counted)
    BY <2>1 DEF StatisticsInv
  <2> QED
    BY <1>1, <2>6, <2>7, <2>8 DEF StatisticsInv, RunExact
<1>6. CASE ~IsPhysics(pending)
  <2>1. ~IsPhysics(pending') /\ Counted' = Counted /\ InRun' = InRun
    <3>1. ~IsPhysics(pending')
      BY <1>4, <1>6 DEF AfterFlush, IsPhysics, Physics
    <3>2. Counted' = Counted
      BY <1>1, <1>6, <3>1 DEF Counted
    <3> QED
      BY <1>1, <3>1, <3>2 DEF InRun
  <2>2. stats.analyzed = Cardinality(Counted)
    BY DEF StatisticsInv
  <2>3. CASE pending.type = "BEGIN_RUN"
    <3>1. RunPending /\ Unsettled
      BY <1>2, <2>3 DEF StatisticsInv
    <3>2. stats' = BeginStatistics(stats)
      BY <2>3 DEF AfterFlush, UpdateStatistics, Physics
    <3>3. /\ stats'.analyzed = stats.analyzed /\ stats'.thisRun = 0
          /\ stats'.runs = stats.runs + 1 /\ stats'.state = "Active"
      BY <3>2 DEF BeginStatistics
    <3>4. InRun = {}
      <4>1. \A n \in PhysicsItems : source[n].run \in Nat /\ source[n].run < CurrentRun
        <5>1. \A k \in DOMAIN source : source[k] \in Item
          BY <1>3
        <5> QED
          BY <3>1, <5>1 DEF RunPending, PhysicsItems, Item
      <4> QED
        BY <4>1 DEF InRun, Counted
    <3> QED
      BY <1>1, <2>1, <2>2, <3>1, <3>3, <3>4, FS_EmptySet DEF StatisticsInv, RunExact, RunPending
  <2>4. CASE pending.type = "END_RUN"
    <3>1. RunExact /\ ~RunActive
      BY <1>2, <2>4 DEF StatisticsInv
    <3>2. stats' = EndStatistics(stats)
      BY <2>4 DEF AfterFlush, UpdateStatistics, Physics
    <3>3. /\ stats'.analyzed = stats.analyzed /\ stats'.thisRun = stats.thisRun
          /\ stats'.runs = stats.runs /\ stats'.state = "Halted"
      BY <1>3, <3>2 DEF EndStatistics, Statistics
    <3> QED
      BY <1>1, <2>1, <2>2, <3>1, <3>3 DEF StatisticsInv, RunExact
  <2>5. CASE pending.type \notin {"BEGIN_RUN", "END_RUN"}
    <3>1. ~Unsettled /\ UNCHANGED stats
      BY <1>2, <1>6, <2>5 DEF AfterFlush, UpdateStatistics
    <3> QED
      BY <1>1, <2>1, <3>1 DEF StatisticsInv, RunExact
  <2> QED
    BY <2>3, <2>4, <2>5
<1> QED
  BY <1>5, <1>6

LEMMA StatisticsByRoot ==
  ASSUME TypeOK, SourceNumbered, PendingLast, StatisticsInv, Root
  PROVE  StatisticsInv'
<1>1. /\ NoItem.type = "NONE" /\ StopItem.type = "STOP"
      /\ ~IsPhysics(NoItem) /\ ~IsPhysics(StopItem)
  BY DEF NoItem, StopItem, IsPhysics, Physics
<1>2. ASSUME NEW i, i \in {NoItem, StopItem}, Flush(i), rootPc = "idle", UNCHANGED source
      PROVE  StatisticsInv'
  <2>1. pending = NoItem /\ pending' \in {NoItem, StopItem} /\ UNCHANGED stats
    BY <1>1, <1>2, FlushPending DEF PendingLast, Flush, AfterFlush, UpdateStatistics
  <2>2. ~Unsettled /\ ~Unsettled'
    BY <1>1, <2>1 DEF Unsettled
  <2>3. Counted' = Counted
    BY <1>1, <1>2, <2>1 DEF Counted, PhysicsItems
  <2> QED
    BY <1>2, <2>1, <2>2, <2>3, StatisticsUnchanged
<1>3. CASE OnSourceAttach \/ RootExit
  BY <1>2, <1>3 DEF OnSourceAttach, RootExit
<1>4. CASE GetDestination
  <2>1. UNCHANGED <<source, stats, pending>> /\ (Unsettled' <=> Unsettled)
    BY <1>4 DEF GetDestination, Unsettled
  <2> QED
    BY <2>1, StatisticsUnchanged DEF Counted, PhysicsItems
<1>5. CASE TransmitChunk
  <2>1. UNCHANGED source /\ rootPc = "send"
    BY <1>5 DEF TransmitChunk
  <2>2. AfterFlush(pending) \/ UNCHANGED <<rootPc, pending, stats>>
    BY <1>5 DEF TransmitChunk
  <2>3. CASE UNCHANGED <<rootPc, pending, stats>>
    BY <2>1, <2>3, StatisticsUnchanged DEF Counted, PhysicsItems, Unsettled
  <2> QED
    BY <2>1, <2>2, <2>3, StatisticsByFlush
<1>6. CASE BroadcastChunk
  <2>1. /\ UNCHANGED <<source, stats>> /\ rootPc = "broadcast"
        /\ rootPc' \in {"broadcast", "idle", "exited"}
        /\ pending' = pending \/ pending' = NoItem
    BY <1>6 DEF BroadcastChunk
  <2>2. ~IsPhysics(pending)
    BY <1>1, <2>1 DEF PendingLast, Broadcast, IsPhysics, Physics
  <2>3. ~Unsettled /\ ~Unsettled'
    BY <2>1 DEF Unsettled
  <2>4. Counted' = Counted
    BY <1>1, <2>1, <2>2 DEF Counted, PhysicsItems
  <2> QED
    BY <2>1, <2>3, <2>4, StatisticsUnchanged
<1> QED
  BY <1>3, <1>4, <1>5, <1>6, StatisticsBySend, StatisticsByBroadcast DEF Root, RootContinues

LEMMA StatisticsInvariant == Spec => []StatisticsInv
<1>1. Init => StatisticsInv
  <2> SUFFICES ASSUME Init
               PROVE  StatisticsInv
    OBVIOUS
  <2>1. /\ source = <<>> /\ CurrentRun = 0 /\ ~RunActive /\ ~Unsettled
        /\ Counted = {} /\ InRun = {}
    BY DEF Init, CurrentRun, RunActive, Unsettled, Counted, InRun, PhysicsItems
  <2> QED
    BY <2>1, FS_EmptySet DEF Init, StatisticsInv, RunExact
<1>2. PumpInv /\ DeliveryInv /\ StatisticsInv /\ [Next]_vars => StatisticsInv'
  <2> SUFFICES ASSUME PumpInv, DeliveryInv, StatisticsInv, [Next]_vars
               PROVE  StatisticsInv'
    OBVIOUS
  <2>1. TypeOK /\ SourceNumbered /\ PendingLast
    BY DEF PumpInv, DeliveryInv
  <2>2. CASE UNCHANGED rootVars
    <3>1. UNCHANGED <<source, stats, pending, rootPc>>
      BY <2>2 DEF rootVars
    <3> QED
      BY <3>1, StatisticsUnchanged DEF Counted, PhysicsItems, Unsettled
  <2>3. ASSUME NEW w \in Workers, Worker(w)
        PROVE  UNCHANGED rootVars
    BY <2>3 DEF Worker, PhysicsThread, MainThread, RequestFirst, ReceivePart,
       ReceiveMarker, ReceiveBroadcast, ReceiveCommand, StartEvent, DispatchItem,
       FinishEvent, WorkerExit
  <2> QED
    BY <2>1, <2>2, <2>3, StatisticsByRoot DEF Next, vars
<1> QED
  BY <1>1, <1>2, DeliveryInvariant, PTL DEF Spec

\* Whenever the root is back in its event loop, EventsAnalyzed and
\* EventsAnalyzedThisRun count exactly the physics items it has read, in all and
\* in this run, RunsAnalyzed the runs, and RunState tells whether one is active:
\* countPhysicsItems and updateStatistics after every way through the buffer.
THEOREM StatisticsAreExact == Spec => []StatisticsExact
<1>1. PumpInv /\ DeliveryInv /\ StatisticsInv => StatisticsExact
  <2> SUFFICES ASSUME DeliveryInv, StatisticsInv, rootPc \in {"idle", "exited"}
               PROVE  /\ stats.analyzed = Cardinality(PhysicsIds(source))
                      /\ stats.thisRun = Cardinality({i \in PhysicsIds(source) :
                                                        source[i].run = CurrentRun})
                      /\ stats.runs = CurrentRun
                      /\ (stats.state = "Active") <=> RunActive
    BY DEF StatisticsExact
  <2>1. PhysicsIds(source) = PhysicsItems
    BY PhysicsIdsSource DEF DeliveryInv
  <2>2. Counted = PhysicsItems /\ ~Unsettled
    BY DEF DeliveryInv, PendingLast, Counted, Unsettled, NoItem, IsPhysics, Physics
  <2> QED
    BY <2>1, <2>2 DEF StatisticsInv, RunExact, InRun
<1> QED
  BY <1>1, DeliveryInvariant, StatisticsInvariant, PTL

---------------------------------------------------------------------------
(* The ring item pump implements WorkDistribution.  To what is said of the *)
(* delivery of items it adds the order of the items a worker hears: each   *)
(* has them all in the order of the source, and each physics item that     *)
(* waits in the root's buffer comes after them.                            *)

Broadcasts == {n \in DOMAIN source : Broadcast(source[n])}
Pieces(w) == {ItemOf(bcast[w][k]).id : k \in DOMAIN bcast[w]}
Dispatched == IF Broadcast(pending) THEN {pending.id} ELSE {}

\* A block is physics items, a broadcast is not.
OneKind(e) ==
  /\ (e.kind = "targeted") => AllPhysics(e.items)
  /\ (e.kind = "broadcast") => \A k \in DOMAIN e.items : Broadcast(e.items[k])
  /\ (e.kind \in {"exit", "none"}) => (e.items = <<>>)
Sorted(w) == OneKind(main[w]) /\ \A k \in DOMAIN evq[w] : OneKind(evq[w][k])

\* A worker has heard an item only if it has heard all those before it.
Sooner(w, k) ==
  Analysed(w) \cup Handled(w) \cup UNION {Ids(evq[w][m].items) : m \in 1 .. k - 1}
HeardInOrder(w) ==
  \A j, n \in Broadcasts : (j < n) =>
    /\ (n \in Analysed(w) \cup Handled(w)) => (j \in Analysed(w))
    /\ \A k \in DOMAIN evq[w] : (n \in Ids(evq[w][k].items)) => (j \in Sooner(w, k))

\* No broadcast is lost, and the physics items in the buffer came after all of them.
AllSent(w) == Broadcasts \subseteq Arrived(w) \cup Pieces(w) \cup Dispatched
BufferAfter(w) ==
  \A n \in Broadcasts \cap (Arrived(w) \cup Pieces(w)) : \A m \in Ids(buffer.items) : n < m

FlushedFirst ==
  /\ (rootPc \in {"request", "send"}) => (buffer.items # <<>>)
  /\ (rootPc \in {"broadcast", "exited"}) => (buffer.items = <<>>)

HeardInv(w) == Sorted(w) /\ HeardInOrder(w) /\ AllSent(w) /\ BufferAfter(w)
OrderInv == FlushedFirst /\ \A w \in Workers : HeardInv(w)

\* A worker whose items stay as they are
LEMMA OrderUnchanged ==
  ASSUME NEW w \in Workers, HeardInv(w), UNCHANGED source,
         UNCHANGED <<evq[w], main[w], analysed[w]>>
  PROVE  Sorted(w)' /\ HeardInOrder(w)' /\ Arrived(w)' = Arrived(w)
<1>1. /\ Broadcasts' = Broadcasts
      /\ Waiting(w)' = Waiting(w) /\ Handled(w)' = Handled(w) /\ Analysed(w)' = Analysed(w)
  BY DEF Broadcasts, Waiting, Handled, Analysed
<1>2. Sorted(w)'
  BY DEF HeardInv, Sorted, OneKind
<1>3. HeardInOrder(w)'
  BY <1>1 DEF HeardInv, HeardInOrder, Sooner
<1>4. Arrived(w)' = Arrived(w)
  BY <1>1 DEF Arrived
<1> QED
  BY <1>2, <1>3, <1>4

\* What a worker still has to hear or has heard stays the same.
LEMMA SentUnchanged ==
  ASSUME NEW w \in Workers, HeardInv(w), UNCHANGED <<source, pending, buffer>>,
         Broadcasts \cap (Arrived(w)' \cup Pieces(w)') = Broadcasts \cap (Arrived(w) \cup Pieces(w))
  PROVE  AllSent(w)' /\ BufferAfter(w)'
<1>1. Broadcasts' = Broadcasts /\ Dispatched' = Dispatched
  BY DEF Broadcasts, Dispatched
<1>2. AllSent(w)'
  BY <1>1 DEF HeardInv, AllSent
<1>3. BufferAfter(w)'
  BY <1>1 DEF HeardInv, BufferAfter
<1> QED
  BY <1>2, <1>3

\* and hears no broadcast
LEMMA HeardUnchanged ==
  ASSUME NEW w \in Workers, HeardInv(w), UNCHANGED <<source, pending, buffer>>,
         UNCHANGED <<evq[w], main[w], analysed[w], bcast[w]>>
  PROVE  HeardInv(w)'
<1>1. Sorted(w)' /\ HeardInOrder(w)' /\ Arrived(w)' = Arrived(w)
  BY OrderUnchanged
<1>2. Pieces(w)' = Pieces(w)
  BY DEF Pieces
<1>3. AllSent(w)' /\ BufferAfter(w)'
  BY <1>1, <1>2, SentUnchanged
<1> QED
  BY <1>1, <1>3 DEF HeardInv

\* An event is queued whose items come next.
LEMMA HeardQueue ==
  ASSUME TypeOK, NEW w \in Workers, HeardInv(w), NEW e \in Event, QueueEvent(w, e),
         OneKind(e), UNCHANGED <<source, main, analysed>>,
         \A n \in Broadcasts \cap Ids(e.items) :
           \A j \in Broadcasts : (j < n) => (j \in Arrived(w))
  PROVE  Sorted(w)' /\ HeardInOrder(w)'
<1>1. evq[w] \in Seq(Event) /\ evq'[w] = Append(evq[w], e)
  BY DEF QueueEvent, TypeOK, WorkerTypeOK
<1> PICK l \in Nat : l = Len(evq[w])
  BY <1>1
<1>2. /\ DOMAIN evq'[w] = DOMAIN evq[w] \cup {l + 1} /\ l + 1 \notin DOMAIN evq[w]
      /\ \A k \in DOMAIN evq[w] : evq'[w][k] = evq[w][k]
      /\ evq'[w][l + 1] = e /\ DOMAIN evq[w] = 1 .. l /\ l \in Nat
  BY <1>1
<1>3. Broadcasts' = Broadcasts /\ Handled(w)' = Handled(w) /\ Analysed(w)' = Analysed(w)
  BY DEF Broadcasts, Handled, Analysed
<1>4. Sorted(w)'
  BY <1>2 DEF HeardInv, Sorted
<1>5. \A k \in DOMAIN evq[w] : Sooner(w, k)' = Sooner(w, k)
  <2> TAKE k \in DOMAIN evq[w]
  <2>1. \A m \in 1 .. k - 1 : m \in DOMAIN evq[w]
    BY <1>2
  <2>2. \A m \in 1 .. k - 1 : evq'[w][m] = evq[w][m]
    BY <1>2, <2>1
  <2> QED
    BY <1>3, <2>2 DEF Sooner
<1>6. Arrived(w) \subseteq Sooner(w, l + 1)'
  <2>1. \A m \in DOMAIN evq[w] : m \in 1 .. (l + 1) - 1 /\ evq'[w][m] = evq[w][m]
    BY <1>2
  <2> QED
    BY <1>3, <2>1 DEF Sooner, Arrived, Waiting
<1>7. HeardInOrder(w)'
  <2> SUFFICES ASSUME NEW j \in Broadcasts, NEW n \in Broadcasts, j < n
               PROVE  /\ (n \in Analysed(w) \cup Handled(w)) => (j \in Analysed(w))
                      /\ \A k \in DOMAIN evq'[w] :
                           (n \in Ids(evq'[w][k].items)) => (j \in Sooner(w, k)')
    BY <1>3 DEF HeardInOrder
  <2>1. /\ (n \in Analysed(w) \cup Handled(w)) => (j \in Analysed(w))
        /\ \A k \in DOMAIN evq[w] : (n \in Ids(evq[w][k].items)) => (j \in Sooner(w, k))
    BY DEF HeardInv, HeardInOrder
  <2>2. (n \in Ids(e.items)) => (j \in Sooner(w, l + 1)')
    BY <1>6
  <2> QED
    BY <1>2, <1>5, <2>1, <2>2
<1> QED
  BY <1>4, <1>7

\* Positions one before, in a sequence whose first member has been removed
LEMMA OneLess ==
  ASSUME NEW k \in Nat, NEW m \in 1 .. (k + 1) - 1, m # 1
  PROVE  m - 1 \in 1 .. k - 1 /\ (m - 1) + 1 = m
OBVIOUS

\* The main thread takes the first event of its queue.
LEMMA HeardTake ==
  ASSUME TypeOK, NEW w \in Workers, ArrivedOnce(w), HeardInv(w), evq[w] # <<>>,
         main[w].kind = "none", main' = [main EXCEPT ![w] = Head(evq[w])],
         evq' = [evq EXCEPT ![w] = Tail(@)], UNCHANGED <<analysed, source>>
  PROVE  Sorted(w)' /\ HeardInOrder(w)'
<1>1. /\ evq[w] \in Seq(Event) /\ evq'[w] = Tail(evq[w])
      /\ main'[w] = Head(evq[w]) /\ main[w].items = <<>>
  BY DEF TypeOK, WorkerTypeOK, ArrivedOnce
<1>2. /\ 1 \in DOMAIN evq[w] /\ main'[w] = evq[w][1]
      /\ DOMAIN evq'[w] \subseteq Nat \ {0}
      /\ \A k \in DOMAIN evq'[w] :
           k + 1 \in DOMAIN evq[w] /\ evq'[w][k] = evq[w][k + 1]
  <2> DEFINE q == evq[w]
  <2>1. q \in Seq(Event) /\ q # <<>>
    BY <1>1
  <2> HIDE DEF q
  <2>2. /\ 1 \in DOMAIN q /\ Head(q) = q[1]
        /\ DOMAIN Tail(q) = 1 .. Len(q) - 1 /\ Len(q) \in Nat
        /\ \A k \in DOMAIN Tail(q) : k + 1 \in DOMAIN q /\ Tail(q)[k] = q[k + 1]
    BY <2>1, TailElements
  <2>3. DOMAIN Tail(q) \subseteq Nat \ {0}
    BY <2>2
  <2> QED
    BY <1>1, <2>2, <2>3, Zenon DEF q
<1>3. Handled(w) = {} /\ Handled(w)' = Ids(evq[w][1].items)
  BY <1>1, <1>2, EmptyItems DEF Handled
<1>4. Broadcasts' = Broadcasts /\ Analysed(w)' = Analysed(w)
  BY DEF Broadcasts, Analysed
<1>5. Sorted(w)'
  BY <1>2 DEF HeardInv, Sorted
<1>6. Sooner(w, 1) = Analysed(w)
  <2>1. 1 .. 1 - 1 = {}
    OBVIOUS
  <2> QED
    BY <1>3, <2>1 DEF Sooner
<1>7. \A k \in DOMAIN evq'[w] : Sooner(w, k + 1) \subseteq Sooner(w, k)'
  <2> TAKE k \in DOMAIN evq'[w]
  <2>1. ASSUME NEW m \in 1 .. (k + 1) - 1
        PROVE  Ids(evq[w][m].items) \subseteq Sooner(w, k)'
    <3>1. CASE m = 1
      BY <1>3, <3>1 DEF Sooner
    <3>2. CASE m # 1
      <4>1. k \in Nat
        BY <1>2
      <4>2. m - 1 \in 1 .. k - 1 /\ (m - 1) + 1 = m
        BY <3>2, <4>1, OneLess
      <4>3. m - 1 \in DOMAIN evq'[w]
        <5>1. evq'[w] \in Seq(Event)
          BY <1>1, HeadTail
        <5>2. DOMAIN evq'[w] = 1 .. Len(evq'[w]) /\ Len(evq'[w]) \in Nat
          BY <5>1
        <5> QED
          BY <4>1, <4>2, <5>2
      <4>4. evq'[w][m - 1] = evq[w][m]
        BY <1>2, <4>2, <4>3
      <4> QED
        BY <4>2, <4>4 DEF Sooner
    <3> QED
      BY <3>1, <3>2
  <2>2. UNION {Ids(evq[w][m].items) : m \in 1 .. (k + 1) - 1} \subseteq Sooner(w, k)'
    BY <2>1
  <2>3. Analysed(w) \cup Handled(w) \subseteq Sooner(w, k)'
    BY <1>3, <1>4 DEF Sooner
  <2> QED
    BY <2>2, <2>3 DEF Sooner
<1>8. HeardInOrder(w)'
  <2> SUFFICES ASSUME NEW j \in Broadcasts, NEW n \in Broadcasts, j < n
               PROVE  /\ (n \in Analysed(w) \cup Handled(w)') => (j \in Analysed(w))
                      /\ \A k \in DOMAIN evq'[w] :
                           (n \in Ids(evq'[w][k].items)) => (j \in Sooner(w, k)')
    BY <1>4 DEF HeardInOrder
  <2>1. /\ (n \in Analysed(w) \cup Handled(w)) => (j \in Analysed(w))
        /\ \A k \in DOMAIN evq[w] : (n \in Ids(evq[w][k].items)) => (j \in Sooner(w, k))
    BY DEF HeardInv, HeardInOrder
  <2>2. (n \in Handled(w)') => (j \in Analysed(w))
    BY <1>2, <1>3, <1>6, <2>1
  <2> QED
    BY <1>2, <1>7, <2>1, <2>2
<1> QED
  BY <1>5, <1>8

\* Sequences of two or more members have a second one.
LEMMA TwoOrMore ==
  ASSUME NEW l \in Nat, l # 0, l # 1
  PROVE  1 \in 1 .. l /\ 1 + 1 \in 1 .. l /\ 1 \in 1 .. l - 1
OBVIOUS

\* nonPhysicsThread takes a piece: it queues the item, or there is more of it
\* to come.
LEMMA PieceReceived ==
  ASSUME PumpInv, NEW w \in Workers, BroadcastInv(w), ReceiveBroadcast(w)
  PROVE  \E part \in Part :
           /\ Piece(source, rootPc, part) /\ Pieces(w) = {ItemOf(part).id} \cup Pieces(w)'
           /\ \/ /\ UNCHANGED evq
                 /\ \/ ItemOf(part) = StopItem \/ ItemOf(part) = pending
                    \/ ItemOf(part).id \in Pieces(w)'
              \/ /\ ItemOf(part) # StopItem
                 /\ QueueEvent(w, [kind |-> "broadcast", items |-> part.items])
<1>1. /\ bcast[w] \in Seq(Part) /\ bcast[w] # <<>> /\ bcast'[w] = Tail(bcast[w])
      /\ nonphys[w].pc \in {"first", "more"} /\ UNCHANGED <<source, rootPc, sent, pending>>
  BY DEF PumpInv, TypeOK, ChannelTypeOK, WorkerTypeOK, ReceiveBroadcast, rootVars
<1> PICK b \in Seq(Part) : b = bcast[w] /\ b # <<>>
  BY <1>1
<1> PICK t \in Seq(Part) : t = Tail(b)
  BY TailElements
<1> PICK l \in Nat : l = Len(b)
  OBVIOUS
<1>2. /\ l # 0 /\ DOMAIN b = 1 .. l /\ DOMAIN t = 1 .. l - 1 /\ Head(b) = b[1]
      /\ \A k \in 1 .. l - 1 : t[k] = b[k + 1]
  BY TailElements
<1>3. 1 \in DOMAIN b /\ b[1] \in Part
  BY <1>2, TailElements
<1> PICK part \in Part : part = b[1]
  BY <1>3
<1> PICK i : i = ItemOf(part)
  OBVIOUS
<1>4. Piece(source, rootPc, part)
  BY <1>3, PieceAt
<1>5. part.total \in Nat /\ part.offset \in Nat /\ part.bytes \in Nat
  BY DEF Part
<1> PICK missing \in Nat : missing = part.total - (part.offset + part.bytes)
  BY <1>4, <1>5 DEF Piece
<1>6. missing = (IF nonphys[w].pc = "first" THEN Head(bcast[w]).total
                                       ELSE nonphys[w].missing) - Head(bcast[w]).bytes
  BY <1>1, <1>2, <1>5 DEF BroadcastInv, PiecesFront
<1>7. (part.items[1].type = "STOP") <=> (i = StopItem)
  BY <1>4 DEF Piece, ItemOf, StopItem, Broadcast
<1>8. \/ (i = StopItem \/ missing > 0) /\ UNCHANGED evq
      \/ i # StopItem /\ QueueEvent(w, [kind |-> "broadcast", items |-> part.items])
  <2>1. CASE i = StopItem
    BY <1>1, <1>2, <1>6, <1>7, <2>1 DEF ReceiveBroadcast
  <2>2. CASE i # StopItem /\ missing > 0
    BY <1>1, <1>2, <1>6, <1>7, <2>2 DEF ReceiveBroadcast
  <2>3. CASE i # StopItem /\ ~(missing > 0)
    BY <1>1, <1>2, <1>6, <1>7, <2>3 DEF ReceiveBroadcast
  <2> QED
    BY <2>1, <2>2, <2>3
<1>9. Pieces(w) = {i.id} \cup Pieces(w)'
  <2>1. \A k \in DOMAIN b : k = 1 \/ (k - 1 \in DOMAIN t /\ t[k - 1] = b[k])
    BY TailElements
  <2>2. \A k \in DOMAIN t : k + 1 \in DOMAIN b /\ t[k] = b[k + 1]
    BY TailElements
  <2>3. Pieces(w) = {ItemOf(b[k]).id : k \in DOMAIN b}
        /\ Pieces(w)' = {ItemOf(t[k]).id : k \in DOMAIN t}
    BY <1>1 DEF Pieces
  <2>4. \A k \in DOMAIN b : ItemOf(b[k]).id \in {i.id} \cup Pieces(w)'
    BY <2>1, <2>3
  <2>5. \A k \in DOMAIN t : ItemOf(t[k]).id \in Pieces(w)
    BY <2>2, <2>3
  <2> QED
    BY <1>3, <2>3, <2>4, <2>5
<1>10. ASSUME missing > 0
       PROVE  i = pending \/ i.id \in Pieces(w)'
  <2>1. ~LastPiece(part)
    BY <1>5, <1>10 DEF LastPiece
  <2>2. CASE l = 1
    <3>1. part.items = <<pending>>
      BY <1>3, <2>1, <2>2 DEF BroadcastInv, PiecesBack
    <3> QED
      BY <3>1 DEF ItemOf
  <2>3. CASE l # 1
    <3>0. 1 \in 1 .. l /\ 1 + 1 \in 1 .. l /\ 1 \in 1 .. l - 1
      <4>1. l # 0 /\ l # 1
        BY <1>2, <2>3
      <4> QED
        BY <4>1, TwoOrMore
    <3>1. 1 \in DOMAIN b /\ 1 + 1 \in DOMAIN b /\ 1 \in DOMAIN t
      BY <1>2, <3>0
    <3>2. b[1 + 1].items = part.items
      BY <2>1, <3>1 DEF BroadcastInv, PiecesFit, Follows
    <3>3. ItemOf(t[1]) = i
      BY <1>2, <3>1, <3>2 DEF ItemOf
    <3> QED
      BY <1>1, <3>1, <3>3 DEF Pieces
  <2> QED
    BY <2>2, <2>3
<1> WITNESS part \in Part
<1> QED
  BY <1>4, <1>8, <1>9, <1>10

\* nonPhysicsThread's step: the items before the one it queues have arrived.
LEMMA HeardByBroadcast ==
  ASSUME PumpInv, DeliveryInv, NEW w \in Workers, HeardInv(w), ReceiveBroadcast(w),
         BroadcastInv(w)', ArrivedOnce(w)'
  PROVE  HeardInv(w)'
<1>1. /\ TypeOK /\ BroadcastInv(w) /\ ArrivedOnce(w) /\ source \in Seq(Item)
      /\ UNCHANGED <<source, buffer, pending, main, analysed>>
  BY DEF PumpInv, DeliveryInv, TypeOK, RootTypeOK, ReceiveBroadcast, rootVars
<1>2. PICK part \in Part :
        /\ Piece(source, rootPc, part) /\ Pieces(w) = {ItemOf(part).id} \cup Pieces(w)'
        /\ \/ /\ UNCHANGED evq
              /\ \/ ItemOf(part) = StopItem \/ ItemOf(part) = pending
                 \/ ItemOf(part).id \in Pieces(w)'
           \/ /\ ItemOf(part) # StopItem
              /\ QueueEvent(w, [kind |-> "broadcast", items |-> part.items])
  BY <1>1, PieceReceived
<1> PICK i : i = ItemOf(part)
  OBVIOUS
<1>3. Broadcasts' = Broadcasts /\ Dispatched' = Dispatched /\ 0 \notin Broadcasts
      /\ Broadcasts \subseteq Nat
  BY <1>1 DEF Broadcasts, Dispatched
<1>4. CASE UNCHANGED evq /\ (i = StopItem \/ i = pending \/ i.id \in Pieces(w)')
  <2>1. Sorted(w)' /\ HeardInOrder(w)' /\ Arrived(w)' = Arrived(w)
    BY <1>1, <1>4, OrderUnchanged
  <2>4. AllSent(w)'
    <3>1. (i = StopItem) => (i.id \notin Broadcasts)
      BY <1>3 DEF StopItem
    <3>2. (i = pending /\ i # StopItem) => (i.id \in Dispatched)
      BY <1>2 DEF Piece, Dispatched
    <3> QED
      BY <1>2, <1>3, <1>4, <2>1, <3>1, <3>2 DEF HeardInv, AllSent
  <2>5. BufferAfter(w)'
    BY <1>1, <1>2, <1>3, <2>1 DEF HeardInv, BufferAfter
  <2> QED
    BY <2>1, <2>4, <2>5 DEF HeardInv
<1>5. CASE i # StopItem /\ QueueEvent(w, [kind |-> "broadcast", items |-> part.items])
  <2> PICK e : e = [kind |-> "broadcast", items |-> part.items]
    OBVIOUS
  <2>1. e \in Event /\ e.kind = "broadcast" /\ e.items = part.items
    <3>1. part.items \in Seq(Item)
      BY DEF Part
    <3> QED
      BY <3>1, EventTyped
  <2>2. e.items = <<i>> /\ Broadcast(i) /\ From(source, <<i>>) /\ i \in Item
    <3>1. e.items = <<i>> /\ Broadcast(i) /\ From(source, <<i>>)
      BY <1>2, <1>5, <2>1 DEF Piece
    <3>2. <<i>> \in Seq(Item)
      BY <2>1, <3>1 DEF Event
    <3> QED
      BY <3>1, <3>2
  <2>3. /\ Ids(e.items) = {i.id} /\ i.id \in DOMAIN source /\ source[i.id] = i
        /\ i.id \in Broadcasts
    BY <2>2, OneItem DEF Broadcasts
  <2>4. OneKind(e)
    BY <2>1, <2>2 DEF OneKind
  <2>5. QueueEvent(w, e)
    BY <1>5
  <2>6. Arrived(w)' = Arrived(w) \cup {i.id}
    <3>1. evq'[w] = Append(evq[w], e) /\ evq[w] \in Seq(Event)
      BY <1>1, <2>5 DEF QueueEvent, TypeOK, WorkerTypeOK
    <3>2. /\ DOMAIN evq'[w] = DOMAIN evq[w] \cup {Len(evq[w]) + 1}
          /\ \A k \in DOMAIN evq[w] : evq'[w][k] = evq[w][k]
          /\ evq'[w][Len(evq[w]) + 1] = e
      BY <3>1
    <3>3. Waiting(w)' = Waiting(w) \cup {i.id}
      <4>1. \A k \in DOMAIN evq'[w] : Ids(evq'[w][k].items) \subseteq Waiting(w) \cup {i.id}
        BY <2>3, <3>2 DEF Waiting
      <4>2. \A k \in DOMAIN evq[w] : Ids(evq[w][k].items) \subseteq Waiting(w)'
        BY <3>2 DEF Waiting
      <4>3. i.id \in Waiting(w)'
        BY <2>3, <3>2 DEF Waiting
      <4>4. Waiting(w)' \subseteq Waiting(w) \cup {i.id}
        BY <4>1 DEF Waiting
      <4>5. Waiting(w) \subseteq Waiting(w)'
        BY <4>2 DEF Waiting
      <4> QED
        BY <4>3, <4>4, <4>5
    <3>4. Handled(w)' = Handled(w) /\ Analysed(w)' = Analysed(w)
      BY <1>1 DEF Handled, Analysed
    <3> QED
      BY <3>3, <3>4 DEF Arrived
\* Nothing that is still to come is before it.
  <2>7. \A j \in Broadcasts : (j < i.id) => (j \in Arrived(w))
    <3> SUFFICES ASSUME NEW j \in Broadcasts, j < i.id, j \notin Arrived(w)
                 PROVE  FALSE
      OBVIOUS
    <3>1. i.id \in Nat /\ j \in Nat /\ j # 0
      BY <1>3, <2>3
    <3>2. /\ \A k \in DOMAIN bcast'[w] : After(bcast'[w][k], i.id)
          /\ Broadcast(pending) => i.id < pending.id
      BY <1>1, <2>2, <2>3, <2>6 DEF BroadcastInv, HeardBefore
    <3>3. CASE j \in Dispatched
      <4>1. Broadcast(pending) /\ j = pending.id
        BY <3>3 DEF Dispatched
      <4> QED
        BY <3>1, <3>2, <4>1
    <3>4. CASE j \in Pieces(w)'
      <4>1. PICK k \in DOMAIN bcast'[w] : j = ItemOf(bcast'[w][k]).id
        BY <3>4 DEF Pieces
      <4>2. ItemOf(bcast'[w][k]) = StopItem \/ i.id < j
        BY <3>2, <4>1 DEF After
      <4>3. ItemOf(bcast'[w][k]) # StopItem
        BY <3>1, <4>1 DEF StopItem
      <4> QED
        BY <3>1, <4>2, <4>3
    <3>5. j # i.id
      BY <3>1
    <3> QED
      BY <1>2, <3>3, <3>4, <3>5 DEF HeardInv, AllSent
  <2>8. Sorted(w)' /\ HeardInOrder(w)'
    BY <1>1, <2>1, <2>3, <2>4, <2>5, <2>7, HeardQueue
  <2>9. Arrived(w)' \cup Pieces(w)' = Arrived(w) \cup Pieces(w)
    BY <1>2, <2>6
  <2>10. AllSent(w)' /\ BufferAfter(w)'
    BY <1>1, <2>9, SentUnchanged
  <2> QED
    BY <2>8, <2>10 DEF HeardInv
<1> QED
  BY <1>2, <1>4, <1>5

\* physicsThread queues a block: physics items, which no broadcast is.
LEMMA HeardByPart ==
  ASSUME PumpInv, DeliveryInv, NEW w \in Workers, HeardInv(w), ReceivePart(w)
  PROVE  HeardInv(w)'
<1>1. /\ TypeOK /\ Framing /\ BlockOwned(w) /\ ArrivedOnce(w) /\ ptp[w] # <<>>
      /\ phys[w].pc \in {"first", "more"} /\ Coming(w) \cap Arrived(w) = {}
      /\ Coming(w) \subseteq PhysicsItems
      /\ UNCHANGED <<source, buffer, pending, main, analysed, bcast>>
  BY BlocksPhysics DEF PumpInv, DeliveryInv, Located, ReceivePart, rootVars
<1>2. \/ Arrived(w)' = Arrived(w)
      \/ Arrived(w)' = Arrived(w) \cup Coming(w)
  BY <1>1, BlockByWorker DEF PhysicsThread
<1>3. Pieces(w)' = Pieces(w)
  BY <1>1 DEF Pieces
<1>4. Broadcasts \cap PhysicsItems = {}
  BY DEF Broadcasts, PhysicsItems, Broadcast, IsPhysics, Physics
<1>5. AllSent(w)' /\ BufferAfter(w)'
  BY <1>1, <1>2, <1>3, <1>4, SentUnchanged
<1>6. CASE ~Complete(Missing(w))
  <2>1. UNCHANGED evq
    BY <1>6 DEF ReceivePart, Missing
  <2> QED
    BY <1>1, <1>5, <2>1, OrderUnchanged DEF HeardInv
<1>7. CASE Complete(Missing(w))
  <2> PICK e : e = [kind |-> "targeted", items |-> Head(ptp[w]).items]
    OBVIOUS
  <2>1. QueueEvent(w, e)
    BY <1>7 DEF ReceivePart, Missing
  <2>2. /\ Head(ptp[w]).items \in Seq(Item) /\ Head(ptp[w]) = ptp[w][1]
        /\ 1 \in DOMAIN ptp[w]
    BY <1>1, MissingExact DEF Part
  <2>3. e \in Event /\ e.kind = "targeted" /\ e.items = ptp[w][1].items
    BY <2>2, EventTyped
  <2>4. GoodBlock(source, e.items)
    BY <1>1, <2>2, <2>3 DEF BlockOwned
  <2>5. OneKind(e) /\ Ids(e.items) \subseteq PhysicsItems
    BY <2>3, <2>4 DEF OneKind, GoodBlock, From, AllPhysics, Ids, PhysicsItems
  <2>6. Sorted(w)' /\ HeardInOrder(w)'
    BY <1>1, <1>4, <2>1, <2>3, <2>5, HeardQueue
  <2> QED
    BY <1>5, <2>6 DEF HeardInv
<1> QED
  BY <1>6, <1>7

\* RingItemEventHandler dispatches the first item of its event.
LEMMA HeardByDispatch ==
  ASSUME PumpInv, DeliveryInv, NEW w \in Workers, HeardInv(w), DispatchItem(w)
  PROVE  Sorted(w)' /\ HeardInOrder(w)'
<1>1. /\ main[w].items \in Seq(Item) /\ main[w].items # <<>>
      /\ analysed[w] \in Seq(Item)
      /\ main'[w].items = Tail(main[w].items) /\ main'[w].kind = main[w].kind
      /\ analysed'[w] = Append(analysed[w], Head(main[w].items))
      /\ UNCHANGED <<evq, source>> /\ ArrivedOnce(w)
  BY DEF DispatchItem, PumpInv, DeliveryInv, TypeOK, WorkerTypeOK, Event, rootVars
<1> PICK i : i = Head(main[w].items)
  OBVIOUS
<1>2. /\ i \in Item /\ Handled(w) = Handled(w)' \cup {i.id}
      /\ Analysed(w)' = Analysed(w) \cup {i.id}
  <2>1. i \in Item /\ Handled(w) = Handled(w)' \cup {i.id}
    BY <1>1, TailItems DEF ArrivedOnce, GoodEvent, Handled
  <2> QED
    BY <1>1, <2>1, AppendItem DEF Analysed
<1>3. Broadcasts' = Broadcasts
  BY <1>1 DEF Broadcasts
<1>4. \A k : Sooner(w, k)' = Sooner(w, k)
  BY <1>1, <1>2 DEF Sooner
<1>5. Sorted(w)'
  <2>1. \A k \in DOMAIN main'[w].items :
          k + 1 \in DOMAIN main[w].items /\ main'[w].items[k] = main[w].items[k + 1]
    BY <1>1, TailElements
  <2>2. main[w].kind \notin {"exit", "none"}
    BY <1>1 DEF HeardInv, Sorted, OneKind
  <2>3. OneKind(main[w])'
    BY <1>1, <2>1, <2>2 DEF HeardInv, Sorted, OneKind, AllPhysics
  <2> QED
    BY <1>1, <2>3 DEF HeardInv, Sorted, OneKind
<1>6. HeardInOrder(w)'
  <2> SUFFICES ASSUME NEW j \in Broadcasts, NEW n \in Broadcasts, j < n
               PROVE  /\ (n \in Analysed(w)' \cup Handled(w)') => (j \in Analysed(w)')
                      /\ \A k \in DOMAIN evq[w] :
                           (n \in Ids(evq[w][k].items)) => (j \in Sooner(w, k))
    BY <1>1, <1>3, <1>4 DEF HeardInOrder
  <2>1. /\ (n \in Analysed(w) \cup Handled(w)) => (j \in Analysed(w))
        /\ \A k \in DOMAIN evq[w] : (n \in Ids(evq[w][k].items)) => (j \in Sooner(w, k))
    BY DEF HeardInv, HeardInOrder
  <2> QED
    BY <1>2, <2>1
<1> QED
  BY <1>5, <1>6

\* A step of a worker leaves what it has heard in order.
LEMMA HeardByWorker ==
  ASSUME PumpInv, DeliveryInv, DeliveryInv', NEW w \in Workers, HeardInv(w), Worker(w)
  PROVE  HeardInv(w)'
<1>1. /\ TypeOK /\ ArrivedOnce(w) /\ BroadcastInv(w)' /\ ArrivedOnce(w)'
      /\ UNCHANGED <<source, pending, buffer>>
  <2>1. UNCHANGED rootVars
    BY DEF Worker, PhysicsThread, MainThread, RequestFirst, ReceivePart,
       ReceiveMarker, ReceiveBroadcast, ReceiveCommand, StartEvent, DispatchItem,
       FinishEvent, WorkerExit
  <2> QED
    BY <2>1 DEF rootVars, PumpInv, DeliveryInv
<1>2. CASE RequestFirst(w) \/ ReceiveMarker(w)
  BY <1>1, <1>2, HeardUnchanged DEF RequestFirst, ReceiveMarker
<1>3. CASE ReceivePart(w)
  BY <1>3, HeardByPart
<1>4. CASE ReceiveBroadcast(w)
  BY <1>1, <1>4, HeardByBroadcast
<1>5. CASE ReceiveCommand(w) \/ MainThread(w)
  <2>1. UNCHANGED bcast
    BY <1>5 DEF ReceiveCommand, MainThread, StartEvent, DispatchItem, FinishEvent, WorkerExit
  <2>2. Pieces(w)' = Pieces(w)
    BY <2>1 DEF Pieces
  <2>3. CASE ReceiveCommand(w)
    <3> PICK e : e = [kind |-> "exit", items |-> <<>>]
      OBVIOUS
    <3>1. QueueEvent(w, e) /\ UNCHANGED <<main, analysed, source>>
      BY <1>1, <2>3 DEF ReceiveCommand
    <3>2. e \in Event /\ e.kind = "exit" /\ e.items = <<>>
      BY DEF Event
    <3>3. Ids(e.items) = {} /\ OneKind(e) /\ GoodEvent(source, e)
      BY <3>2, EmptyItems DEF OneKind, GoodEvent
    <3>4. Sorted(w)' /\ HeardInOrder(w)'
      BY <1>1, <3>1, <3>2, <3>3, HeardQueue
    <3>5. Arrived(w)' = Arrived(w)
      BY <1>1, <3>1, <3>2, <3>3, ArrivedQueue
    <3> QED
      BY <1>1, <2>2, <3>4, <3>5, SentUnchanged DEF HeardInv
  <2>4. CASE MainThread(w)
    <3>1. Arrived(w)' = Arrived(w)
      BY <1>1, <2>4, ArrivedMoves
    <3>2. AllSent(w)' /\ BufferAfter(w)'
      BY <1>1, <2>2, <3>1, SentUnchanged
    <3>3. CASE StartEvent(w) \/ WorkerExit(w)
      <4>1. /\ evq[w] # <<>> /\ main[w].kind = "none" /\ main' = [main EXCEPT ![w] = Head(evq[w])]
            /\ evq' = [evq EXCEPT ![w] = Tail(@)] /\ UNCHANGED <<analysed, source>>
        BY <1>1, <3>3 DEF StartEvent, WorkerExit
      <4>2. Sorted(w)' /\ HeardInOrder(w)'
        BY <1>1, <4>1, HeardTake
      <4> QED
        BY <3>2, <4>2 DEF HeardInv
    <3>4. CASE DispatchItem(w)
      BY <3>2, <3>4, HeardByDispatch DEF HeardInv
    <3>5. CASE FinishEvent(w)
      <4>1. /\ main[w].items = <<>> /\ main'[w] = Idle /\ UNCHANGED <<source, evq, analysed>>
        BY <1>1, <3>5 DEF FinishEvent, TypeOK, WorkerTypeOK
      <4>2. /\ Handled(w)' = Handled(w) /\ Analysed(w)' = Analysed(w)
            /\ Broadcasts' = Broadcasts
        BY <4>1 DEF Handled, Analysed, Broadcasts, Idle
      <4>3. OneKind(main[w])'
        BY <4>1 DEF OneKind, Idle
      <4>4. Sorted(w)'
        BY <4>1, <4>3 DEF HeardInv, Sorted, OneKind
      <4>5. HeardInOrder(w)'
        BY <4>1, <4>2 DEF HeardInv, HeardInOrder, Sooner
      <4> QED
        BY <3>2, <4>4, <4>5 DEF HeardInv
    <3> QED
      BY <2>4, <3>3, <3>4, <3>5 DEF MainThread
  <2> QED
    BY <1>5, <2>3, <2>4
<1> QED
  BY <1>2, <1>3, <1>4, <1>5 DEF Worker, PhysicsThread

\* The buffer is empty once flush is done, and what flush is called for waits
\* in front of the buffer's items until then.
LEMMA FlushedByFlush ==
  ASSUME TypeOK, NEW i, Flush(i), UNCHANGED buffer
  PROVE  FlushedFirst'
<1>1. buffer.items \in Seq(Item) /\ ((NumItems = 0) <=> (buffer.items = <<>>))
  BY DEF TypeOK, RootTypeOK, NumItems
<1> QED
  BY <1>1 DEF Flush, AfterFlush, FlushedFirst

\* Every step of the root keeps to that.
LEMMA FlushedByRoot ==
  ASSUME TypeOK, FlushedFirst, Root
  PROVE  FlushedFirst'
<1>0. buffer.items \in Seq(Item)
  BY DEF TypeOK, RootTypeOK
<1>1. CASE SendRingItem
  <2>1. PICK i \in NextItems : buffer' = [items |-> Append(buffer.items, i),
                                          bytes |-> buffer.bytes + i.bytes]
    BY <1>1 DEF SendRingItem
  <2>2. buffer'.items # <<>>
    BY <1>0, <2>1
  <2>3. rootPc' \in {"idle", "request"}
    BY <1>1 DEF SendRingItem
  <2> QED
    BY <2>2, <2>3 DEF FlushedFirst
<1>2. CASE BroadcastRingItem
  BY <1>2, FlushedByFlush DEF BroadcastRingItem
<1>3. CASE OnSourceAttach
  BY <1>3, FlushedByFlush DEF OnSourceAttach
<1>4. CASE RootExit
  BY <1>4, FlushedByFlush DEF RootExit
<1>5. CASE GetDestination
  BY <1>5 DEF GetDestination, FlushedFirst
<1>6. CASE TransmitChunk
  <2>1. CASE UNCHANGED <<buffer, rootPc>>
    BY <2>1 DEF FlushedFirst
  <2>2. CASE ~UNCHANGED <<buffer, rootPc>>
    <3>1. buffer' = EmptyBuffer /\ rootPc' \in {"idle", "broadcast"}
      BY <1>6, <2>2 DEF TransmitChunk, AfterFlush, InitBuffer
    <3> QED
      BY <3>1 DEF FlushedFirst, EmptyBuffer
  <2> QED
    BY <2>1, <2>2
<1>7. CASE BroadcastChunk
  <2>1. UNCHANGED buffer /\ rootPc = "broadcast" /\ rootPc' \in {"idle", "broadcast", "exited"}
    BY <1>7 DEF BroadcastChunk
  <2> QED
    BY <2>1 DEF FlushedFirst
<1> QED
  BY <1>1, <1>2, <1>3, <1>4, <1>5, <1>6, <1>7 DEF Root, RootContinues

\* A broadcast item is being dispatched until it has been sent to every worker.
LEMMA DispatchedByRoot ==
  ASSUME PumpInv, DeliveryInv, Root, NEW w \in Workers
  PROVE  /\ Broadcasts' \subseteq Broadcasts \cup Dispatched'
         /\ Pieces(w) \cup Dispatched \subseteq Pieces(w)' \cup Dispatched'
         /\ ~BroadcastChunk => (Pieces(w)' = Pieces(w))
<1>1. /\ TypeOK /\ PendingLast /\ SourceNumbered /\ source \in Seq(Item)
      /\ bcast \in [Workers -> Seq(Part)] /\ pending \in Item
  BY DEF PumpInv, DeliveryInv, TypeOK, RootTypeOK, ChannelTypeOK
<1>2. (rootPc = "idle") => (Dispatched = {})
  BY DEF DeliveryInv, PendingLast, Dispatched, NoItem, Broadcast
<1>3. CASE SendRingItem \/ BroadcastRingItem
  <2>1. PICK i \in NextItems :
          /\ source' = Append(source, i) /\ rootPc = "idle" /\ UNCHANGED bcast
          /\ Broadcast(i) => Flush(i)
    <3>1. \A i \in NextItems : ~(IsPhysics(i) /\ Broadcast(i))
      BY NextItemsNumbered
    <3> QED
      BY <1>3, <3>1 DEF SendRingItem, BroadcastRingItem
  <2>2. i.id = Len(source) + 1
    BY NextItemsNumbered
  <2>3. Broadcast(i) => (pending' = i)
    BY <2>1 DEF Flush, AfterFlush, Broadcast, Physics
  <2>4. Broadcasts' \subseteq Broadcasts \cup (IF Broadcast(i) THEN {i.id} ELSE {})
    BY <1>1, <2>1, <2>2, AppendSource DEF Broadcasts
  <2>5. Pieces(w)' = Pieces(w)
    BY <2>1 DEF Pieces
  <2> QED
    BY <1>2, <2>1, <2>3, <2>4, <2>5 DEF Dispatched
<1>4. CASE OnSourceAttach \/ RootExit \/ GetDestination
  <2>1. UNCHANGED <<source, bcast>> /\ (rootPc = "idle" \/ UNCHANGED pending)
    BY <1>4 DEF OnSourceAttach, RootExit, GetDestination
  <2>2. Broadcasts' = Broadcasts /\ Pieces(w)' = Pieces(w)
    BY <2>1 DEF Broadcasts, Pieces
  <2> QED
    BY <1>2, <2>1, <2>2 DEF Dispatched
<1>5. CASE TransmitChunk
  <2>1. UNCHANGED <<source, bcast>> /\ (Broadcast(pending) => UNCHANGED pending)
    BY <1>5 DEF TransmitChunk, AfterFlush, Broadcast, Physics
  <2>2. Broadcasts' = Broadcasts /\ Pieces(w)' = Pieces(w)
    BY <2>1 DEF Broadcasts, Pieces
  <2> QED
    BY <2>1, <2>2 DEF Dispatched
<1>6. CASE BroadcastChunk
  <2>1. PICK part : /\ part.items = <<pending>> /\ bcast'[w] = Append(bcast[w], part)
                    /\ UNCHANGED source /\ part \in Part
    <3> DEFINE part == [items |-> <<pending>>, total |-> pending.bytes,
                        offset |-> sent, bytes |-> PartBytes(pending.bytes)]
    <3>1. /\ part.items = <<pending>> /\ bcast'[w] = Append(bcast[w], part)
          /\ UNCHANGED source
      BY <1>6 DEF BroadcastChunk
    <3>2. part \in Part
      <4>1. /\ RootTypeOK /\ <<pending>> \in Seq(Item) /\ pending.bytes \in Nat
            /\ sent < pending.bytes
        BY <1>1, <1>6 DEF PumpInv, TypeOK, Framing, RootProgress, BroadcastChunk, Item
      <4> QED
        BY <4>1, PartTyped
    <3> QED
      BY <3>1, <3>2
  <2>2. /\ DOMAIN bcast'[w] = DOMAIN bcast[w] \cup {Len(bcast[w]) + 1}
        /\ \A k \in DOMAIN bcast[w] : bcast'[w][k] = bcast[w][k]
        /\ bcast'[w][Len(bcast[w]) + 1] = part
    BY <1>1, <2>1
  <2>3. ItemOf(part) = pending
    BY <2>1 DEF ItemOf
  <2>4. Pieces(w) \subseteq Pieces(w)' /\ pending.id \in Pieces(w)'
    BY <2>2, <2>3 DEF Pieces
  <2>5. Broadcasts' = Broadcasts /\ Dispatched \subseteq {pending.id}
    BY <2>1 DEF Broadcasts, Dispatched
  <2> QED
    BY <1>6, <2>4, <2>5
<1> QED
  BY <1>3, <1>4, <1>5, <1>6 DEF Root, RootContinues

\* A step of the root leaves what a worker has heard in order.
LEMMA HeardByRoot ==
  ASSUME PumpInv, DeliveryInv, FlushedFirst, NEW w \in Workers, HeardInv(w), Root
  PROVE  HeardInv(w)'
<1>1. /\ TypeOK /\ Next /\ SourceNumbered /\ ArrivedOnce(w) /\ BroadcastInv(w)
      /\ source \in Seq(Item) /\ buffer.items \in Seq(Item)
  BY DEF PumpInv, DeliveryInv, Next, TypeOK, RootTypeOK
<1>2. UNCHANGED <<evq, main, analysed>>
  BY DEF Root, RootContinues, SendRingItem, BroadcastRingItem, OnSourceAttach,
     RootExit, GetDestination, TransmitChunk, BroadcastChunk, workerVars
<1>3. Grows
  BY <1>1, SourceGrows
<1>3A. source' \in Seq(Item)
  <2>1. ASSUME NEW i \in NextItems, source' = Append(source, i)
        PROVE  source' \in Seq(Item)
    <3>1. i \in Item
      BY <1>1, NextItemsTyped DEF TypeOK
    <3> QED
      BY <1>1, <2>1, <3>1
  <2> QED
    BY <1>1, <2>1, SourceStep
<1>4. /\ Waiting(w)' = Waiting(w) /\ Handled(w)' = Handled(w) /\ Analysed(w)' = Analysed(w)
      /\ Arrived(w)' = Arrived(w)
  BY <1>2 DEF Waiting, Handled, Analysed, Arrived
<1>5. Broadcasts = Broadcasts' \cap DOMAIN source
  BY <1>3 DEF Broadcasts, Grows
<1>6. Sorted(w)'
  BY <1>2 DEF HeardInv, Sorted, OneKind
<1>7. HeardInOrder(w)'
  <2> SUFFICES ASSUME NEW j \in Broadcasts', NEW n \in Broadcasts', j < n
               PROVE  /\ (n \in Analysed(w) \cup Handled(w)) => (j \in Analysed(w))
                      /\ \A k \in DOMAIN evq[w] :
                           (n \in Ids(evq[w][k].items)) => (j \in Sooner(w, k))
    BY <1>2, <1>4 DEF HeardInOrder, Sooner
  <2>1. j \in Nat \ {0} /\ n \in Nat
    BY <1>3A DEF Broadcasts
  <2>2. (n \in Arrived(w)) => (j \in Broadcasts /\ n \in Broadcasts)
    <3> SUFFICES ASSUME n \in Arrived(w) PROVE j \in DOMAIN source /\ n \in DOMAIN source
      BY <1>5
    <3>1. n \in DOMAIN source
      BY <1>1, ArrivedDelivered
    <3> QED
      BY <1>1, <2>1, <3>1
  <2>3. n \in Arrived(w) \/ (/\ n \notin Analysed(w) \cup Handled(w)
                             /\ \A k \in DOMAIN evq[w] : n \notin Ids(evq[w][k].items))
    BY DEF Arrived, Waiting
  <2> QED
    BY <2>2, <2>3 DEF HeardInv, HeardInOrder
<1>8. /\ Broadcasts' \subseteq Broadcasts \cup Dispatched'
      /\ Pieces(w) \cup Dispatched \subseteq Pieces(w)' \cup Dispatched'
      /\ ~BroadcastChunk => (Pieces(w)' = Pieces(w))
  BY DispatchedByRoot
<1>9. AllSent(w)'
  BY <1>4, <1>8 DEF HeardInv, AllSent
<1>10. BufferAfter(w)'
  <2>1. CASE BroadcastChunk
    <3>1. UNCHANGED buffer /\ buffer.items = <<>>
      BY <2>1 DEF BroadcastChunk, FlushedFirst
    <3> QED
      BY <3>1, EmptyItems DEF BufferAfter
  <2>2. CASE ~BroadcastChunk
    <3> SUFFICES ASSUME NEW n \in Broadcasts' \cap (Arrived(w) \cup Pieces(w)),
                        NEW m \in Ids(buffer'.items)
                 PROVE  n < m
      BY <1>4, <1>8, <2>2 DEF BufferAfter
    <3>1. n \in Broadcasts /\ n \in DOMAIN source
      <4>1. CASE n \in Arrived(w)
        BY <1>1, <1>5, <4>1, ArrivedDelivered
      <4>2. CASE n \in Pieces(w)
        <5>1. PICK k \in DOMAIN bcast[w] : n = ItemOf(bcast[w][k]).id
          BY <4>2 DEF Pieces
        <5>2. Piece(source, rootPc, bcast[w][k])
          BY <1>1, PieceAt
        <5>3. CASE ItemOf(bcast[w][k]) = StopItem
          <6>1. n = 0
            BY <5>1, <5>3 DEF StopItem
          <6> QED
            BY <1>3A, <6>1 DEF Broadcasts
        <5>4. CASE ItemOf(bcast[w][k]) # StopItem
          <6>1. From(source, bcast[w][k].items) /\ bcast[w][k].items = <<ItemOf(bcast[w][k])>>
            BY <5>2, <5>4 DEF Piece
          <6>2. 1 \in DOMAIN bcast[w][k].items
            BY <6>1
          <6> QED
            BY <1>5, <5>1, <6>1, <6>2 DEF From, ItemOf
        <5> QED
          BY <5>3, <5>4
      <4> QED
        BY <4>1, <4>2
    <3>2. m \in Ids(buffer.items) \/ m = Len(source) + 1
      <4>1. CASE SendRingItem
        <5>1. PICK i \in NextItems : buffer' = [items |-> Append(buffer.items, i),
                                                bytes |-> buffer.bytes + i.bytes]
          BY <4>1 DEF SendRingItem
        <5>2. i \in Item /\ i.id = Len(source) + 1
          BY <1>1, NextItemsTyped, NextItemsNumbered DEF TypeOK
        <5>3. buffer'.items = Append(buffer.items, i)
          BY <5>1
        <5>4. Ids(buffer'.items) = Ids(buffer.items) \cup {i.id}
          BY <1>1, <5>2, <5>3, AppendItem
        <5> QED
          BY <5>2, <5>4
      <4>2. CASE ~SendRingItem
        <5>1. UNCHANGED buffer \/ buffer' = EmptyBuffer
          BY <2>2, <4>2 DEF Root, RootContinues, BroadcastRingItem, OnSourceAttach, RootExit,
             GetDestination, TransmitChunk, InitBuffer
        <5>2. UNCHANGED buffer \/ Ids(buffer'.items) = {}
          BY <5>1, EmptyItems DEF EmptyBuffer
        <5> QED
          BY <5>2
      <4> QED
        BY <4>1, <4>2
    <3>3. n < Len(source) + 1
      BY <1>1, <3>1
    <3> QED
      BY <3>1, <3>2, <3>3 DEF HeardInv, BufferAfter
  <2> QED
    BY <2>1, <2>2
<1> QED
  BY <1>6, <1>7, <1>9, <1>10 DEF HeardInv

\* Nothing has been heard to begin with.
LEMMA InitOrder ==
  ASSUME Init
  PROVE  OrderInv
<1>1. FlushedFirst /\ Broadcasts = {}
  BY DEF Init, FlushedFirst, Broadcasts
<1>2. ASSUME NEW w \in Workers
      PROVE  HeardInv(w)
  <2>1. evq[w] = <<>> /\ main[w] = Idle
    BY <1>2 DEF Init
  <2>2. Sorted(w)
    BY <2>1 DEF Sorted, OneKind, Idle
  <2> QED
    BY <1>1, <2>2 DEF HeardInv, HeardInOrder, AllSent, BufferAfter
<1> QED
  BY <1>1, <1>2 DEF OrderInv

\* A step of any process leaves what all have heard in order.
LEMMA OrderStep ==
  ASSUME PumpInv, DeliveryInv, DeliveryInv', OrderInv, [Next]_vars
  PROVE  OrderInv'
<1>1. TypeOK
  BY DEF PumpInv
<1>2. CASE Root
  BY <1>1, <1>2, FlushedByRoot, HeardByRoot DEF OrderInv
<1>3. ASSUME NEW w \in Workers, Worker(w)
      PROVE  OrderInv'
  <2>1. UNCHANGED rootVars
    BY <1>3 DEF Worker, PhysicsThread, MainThread, RequestFirst, ReceivePart,
       ReceiveMarker, ReceiveBroadcast, ReceiveCommand, StartEvent, DispatchItem,
       FinishEvent, WorkerExit
  <2>2. FlushedFirst'
    BY <2>1 DEF rootVars, OrderInv, FlushedFirst
  <2>3. ASSUME NEW v \in Workers
        PROVE  HeardInv(v)'
    <3>1. CASE v = w
      BY <1>3, <3>1, HeardByWorker DEF OrderInv
    <3>2. CASE v # w
      <4>1. UNCHANGED <<evq[v], main[v], analysed[v], bcast[v]>>
        BY <1>1, <1>3, <3>2, OthersKeep
      <4>2. UNCHANGED <<source, pending, buffer>>
        BY <2>1 DEF rootVars
      <4> QED
        BY <4>1, <4>2, HeardUnchanged DEF OrderInv
    <3> QED
      BY <3>1, <3>2
  <2> QED
    BY <2>2, <2>3 DEF OrderInv
<1>4. CASE UNCHANGED vars
  <2>1. /\ UNCHANGED <<source, pending, buffer, rootPc>>
        /\ UNCHANGED <<evq, main, analysed, bcast>>
    BY <1>4 DEF vars, rootVars, workerVars
  <2>2. FlushedFirst'
    BY <2>1 DEF OrderInv, FlushedFirst
  <2>3. \A w \in Workers : HeardInv(w)'
    BY <2>1, HeardUnchanged DEF OrderInv
  <2> QED
    BY <2>2, <2>3 DEF OrderInv
<1> QED
  BY <1>2, <1>3, <1>4 DEF Next

\* The inductive invariant, in every behaviour of the pump.
LEMMA OrderInvariant == Spec => [](PumpInv /\ DeliveryInv /\ OrderInv)
<1>1. Init => OrderInv
  BY InitOrder
<1>2. PumpInv /\ DeliveryInv /\ DeliveryInv' /\ OrderInv /\ [Next]_vars => OrderInv'
  BY OrderStep
<1> QED
  BY <1>1, <1>2, DeliveryInvariant, PTL DEF Spec

---------------------------------------------------------------------------
(* The block of a worker, wherever it is. *)

BlockFound(w) ==
  /\ (dest = w) => (BlockOf(w) = buffer.items)
  /\ (dest # w /\ ptp[w] # <<>>) => (BlockOf(w) = ptp[w][1].items)
  /\ \A k \in DOMAIN evq[w] : (evq[w][k].kind = "targeted") => (BlockOf(w) = evq[w][k].items)
  /\ Handling(w) => (BlockOf(w) = main[w].items)
  /\ (dest # w /\ ptp[w] = <<>> /\ ~Queued(w) /\ ~Handling(w)) => (BlockOf(w) = <<>>)

\* Flow control leaves a worker one block, so that it is found in any order.
LEMMA BlockIsFound ==
  ASSUME PumpInv, NEW w \in Workers
  PROVE  BlockFound(w)
<1>1. /\ ptp[w] \in Seq(Part) /\ OneOutstanding(w)
      /\ (ptp[w] # <<>>) => (Head(ptp[w]) = ptp[w][1])
  BY DEF PumpInv, TypeOK, ChannelTypeOK, FlowControl
<1>2. (dest = w) => (BlockOf(w) = buffer.items)
  BY DEF BlockOf
<1>3. (dest # w /\ ptp[w] # <<>>) => (BlockOf(w) = ptp[w][1].items)
  BY <1>1 DEF BlockOf
<1>4. ASSUME NEW k \in DOMAIN evq[w], evq[w][k].kind = "targeted"
      PROVE  BlockOf(w) = evq[w][k].items
  <2>1. Queued(w) /\ dest # w /\ ptp[w] = <<>> /\ ~Handling(w)
    BY <1>1, <1>4 DEF OneOutstanding, Delivering, Queued
  <2>2. TargetedEvents(w) = {k}
    BY <1>1, <1>4 DEF OneOutstanding, TargetedEvents
  <2>3. (CHOOSE j \in TargetedEvents(w) : TRUE) = k
    BY <2>2
  <2>4. BlockOf(w) = evq[w][CHOOSE j \in TargetedEvents(w) : TRUE].items
    BY <2>1, <2>2 DEF BlockOf
  <2> QED
    BY <2>3, <2>4
<1>5. Handling(w) => (BlockOf(w) = main[w].items)
  <2>1. Handling(w) => (dest # w /\ ptp[w] = <<>> /\ TargetedEvents(w) = {})
    BY <1>1 DEF OneOutstanding, Delivering, Queued, TargetedEvents
  <2> QED
    BY <2>1 DEF BlockOf
<1>6. (dest # w /\ ptp[w] = <<>> /\ ~Queued(w) /\ ~Handling(w)) => (BlockOf(w) = <<>>)
  <2>1. ~Queued(w) => (TargetedEvents(w) = {})
    BY DEF Queued, TargetedEvents
  <2> QED
    BY <2>1 DEF BlockOf
<1> QED
  BY <1>2, <1>3, <1>4, <1>5, <1>6 DEF BlockFound

\* The first member of a sequence after a member has been appended,
LEMMA AppendFirst ==
  ASSUME NEW S, NEW s \in Seq(S), NEW x \in S
  PROVE  /\ Append(s, x) # <<>> /\ Head(Append(s, x)) = Append(s, x)[1]
         /\ Append(s, x)[1] = IF s = <<>> THEN x ELSE s[1]
<1>1. Append(s, x) \in Seq(S) /\ Append(s, x) # <<>>
  <2>1. Append(s, x) \in Seq(S) /\ Len(Append(s, x)) = Len(s) + 1 /\ Len(s) \in Nat
    BY AppendProperties
  <2>2. Len(Append(s, x)) # 0
    BY <2>1
  <2> QED
    BY <2>1, <2>2, EmptySeq
<1>2. Head(Append(s, x)) = Append(s, x)[1]
  BY <1>1, TailElements
<1>3. CASE s = <<>>
  BY <1>1, <1>2, <1>3
<1>4. CASE s # <<>>
  <2>1. 1 \in 1 .. Len(s)
    BY <1>4
  <2> QED
    BY <1>1, <1>2, <1>4, <2>1, AppendProperties
<1> QED
  BY <1>3, <1>4

\* and after the first one has been removed.
LEMMA TailFirst ==
  ASSUME NEW S, NEW s \in Seq(S), s # <<>>, Len(s) # 1
  PROVE  Tail(s) # <<>> /\ Tail(s)[1] = s[2] /\ 2 \in DOMAIN s
<1>1. /\ Len(s) \in Nat \ {0} /\ DOMAIN s = 1 .. Len(s)
      /\ Tail(s) \in Seq(S) /\ Len(Tail(s)) = Len(s) - 1 /\ DOMAIN Tail(s) = 1 .. Len(s) - 1
      /\ \A k \in DOMAIN Tail(s) : Tail(s)[k] = s[k + 1]
  BY TailElements
<1> PICK l \in Nat : l = Len(s)
  BY <1>1
<1>2. 1 \in 1 .. l /\ 1 + 1 \in 1 .. l /\ 1 \in 1 .. l - 1
  BY <1>1, TwoOrMore
<1>3. 1 \in DOMAIN Tail(s) /\ 1 + 1 = 2 /\ 2 \in DOMAIN s
  BY <1>1, <1>2
<1>4. Tail(s)[1] = s[2]
  BY <1>1, <1>3
<1>5. Tail(s) # <<>>
  <2>1. DOMAIN <<>> = {}
    OBVIOUS
  <2> QED
    BY <1>3, <2>1
<1> QED
  BY <1>3, <1>4, <1>5

\* A block that stays where it is
LEMMA BlockStays ==
  ASSUME NEW w \in Workers, UNCHANGED <<ptp[w], evq[w], main[w]>>,
         (dest' = w) <=> (dest = w), (dest = w) => UNCHANGED buffer
  PROVE  BlockOf(w)' = BlockOf(w)
<1>1. TargetedEvents(w)' = TargetedEvents(w) /\ Handling(w)' = Handling(w)
  BY DEF TargetedEvents, Handling
<1> QED
  BY <1>1 DEF BlockOf

\* transmitChunks: the block is the buffer until its last part is sent, and the
\* parts on their way after that.
LEMMA BlockTransmitted ==
  ASSUME PumpInv, DeliveryInv, NEW w \in Workers, TransmitChunk
  PROVE  BlockOf(w)' = BlockOf(w)
<1>1. /\ TypeOK /\ RootProgress /\ dest \in Workers /\ NoWorker \notin Workers
      /\ ptp \in [Workers -> Seq(Part)] /\ BlockOwned(w) /\ UNCHANGED <<evq, main>>
  BY WorkersAssumption DEF PumpInv, DeliveryInv, Framing, RootProgress, TypeOK, RootTypeOK,
     ChannelTypeOK, TransmitChunk, workerVars
<1>2. PICK part \in Part : /\ part.items = buffer.items
                           /\ ptp' = [ptp EXCEPT ![dest] = Append(@, part)]
  <2> DEFINE part == [items |-> buffer.items, total |-> BlockSize,
                      offset |-> sent, bytes |-> PartBytes(buffer.bytes)]
  <2>1. part.items = buffer.items /\ ptp' = [ptp EXCEPT ![dest] = Append(@, part)]
    BY DEF TransmitChunk
  <2>2. /\ RootTypeOK /\ buffer.items \in Seq(Item) /\ buffer.bytes \in Nat
        /\ sent < buffer.bytes
    BY <1>1 DEF TypeOK, RootTypeOK, RootProgress, TransmitChunk, BlockSize
  <2>3. part \in Part
    BY <2>2, PartTyped DEF BlockSize
  <2> QED
    BY <2>1, <2>3
<1>3. UNCHANGED <<dest, buffer>> \/ dest' = NoWorker
  BY DEF TransmitChunk
<1>4. CASE dest # w
  <2>1. UNCHANGED <<ptp[w], evq[w], main[w]>> /\ dest' # w
    BY <1>1, <1>2, <1>3, <1>4
  <2> QED
    BY <1>4, <2>1, BlockStays
<1>5. CASE dest = w /\ UNCHANGED <<dest, buffer>>
  BY <1>5 DEF BlockOf
<1>6. CASE dest = w /\ dest' = NoWorker
  <2>1. ptp'[w] = Append(ptp[w], part) /\ ptp[w] \in Seq(Part)
    BY <1>1, <1>2, <1>6
  <2>2. /\ ptp'[w] # <<>> /\ Head(ptp'[w]) = ptp'[w][1]
        /\ ptp'[w][1] = IF ptp[w] = <<>> THEN part ELSE ptp[w][1]
    BY <2>1, AppendFirst
  <2>3. (ptp[w] # <<>>) => (ptp[w][1].items = buffer.items)
    BY <1>1, <1>6, <2>1 DEF BlockOwned
  <2>4. Head(ptp'[w]).items = buffer.items
    BY <1>2, <2>2, <2>3
  <2>5. BlockOf(w)' = Head(ptp'[w]).items
    BY <1>1, <1>6, <2>2 DEF BlockOf
  <2>6. BlockOf(w) = buffer.items
    BY <1>6 DEF BlockOf
  <2> QED
    BY <2>4, <2>5, <2>6
<1> QED
  BY <1>3, <1>4, <1>5, <1>6

\* assembleTargetedData: the block is in the parts on their way until the last
\* of them is received, and queued then.
LEMMA BlockReceived ==
  ASSUME PumpInv, DeliveryInv, NEW w \in Workers, BlockFound(w), BlockFound(w)',
         ReceivePart(w)
  PROVE  BlockOf(w)' = BlockOf(w)
<1>1. /\ TypeOK /\ Framing /\ BlockOwned(w) /\ ptp[w] # <<>>
      /\ phys[w].pc \in {"first", "more"} /\ ptp[w] \in Seq(Part)
      /\ ptp'[w] = Tail(ptp[w]) /\ UNCHANGED <<dest, buffer, main>>
  BY DEF PumpInv, DeliveryInv, ReceivePart, rootVars, TypeOK, ChannelTypeOK
<1>2. BlockFound(w) /\ BlockFound(w)'
  OBVIOUS
<1>3. CASE dest = w
  BY <1>1, <1>2, <1>3 DEF BlockFound
<1>4. CASE dest # w /\ Complete(Missing(w))
  <2>1. QueueEvent(w, [kind |-> "targeted", items |-> Head(ptp[w]).items])
    BY <1>4 DEF ReceivePart, Missing
  <2>2. evq[w] \in Seq(Event) /\ Head(ptp[w]) = ptp[w][1]
    BY <1>1, MissingExact DEF TypeOK, WorkerTypeOK
  <2> PICK e : e = [kind |-> "targeted", items |-> Head(ptp[w]).items]
    OBVIOUS
  <2>3. evq'[w] = Append(evq[w], e)
    BY <1>1, <2>1 DEF QueueEvent, TypeOK, WorkerTypeOK
  <2>4. Len(evq[w]) + 1 \in DOMAIN evq'[w] /\ evq'[w][Len(evq[w]) + 1] = e
    BY <2>2, <2>3
  <2>5. BlockOf(w)' = e.items
    BY <1>2, <2>4 DEF BlockFound
  <2>6. BlockOf(w) = ptp[w][1].items
    BY <1>1, <1>2, <1>4 DEF BlockFound
  <2> QED
    BY <2>2, <2>5, <2>6
<1>5. CASE dest # w /\ ~Complete(Missing(w))
  <2>1. Len(ptp[w]) # 1
    <3> SUFFICES ASSUME Len(ptp[w]) = 1 PROVE FALSE
      OBVIOUS
    <3>1. ptp[w][1].offset + ptp[w][1].bytes = ptp[w][1].total
      BY <1>1, <1>5 DEF Framing, BackMatches
    <3>2. ptp[w][1].total \in Nat /\ ptp[w][1].offset \in Nat /\ ptp[w][1].bytes \in Nat
      BY <1>1, MissingExact DEF Part
    <3>3. Missing(w) = 0
      BY <1>1, <3>1, <3>2, MissingExact
    <3> QED
      BY <1>5, <3>3 DEF Complete
  <2>2. ptp'[w] # <<>> /\ ptp'[w][1] = ptp[w][2] /\ 2 \in DOMAIN ptp[w]
    BY <1>1, <2>1, TailFirst
  <2>3. ptp[w][2].items = ptp[w][1].items
    BY <1>1, <2>2 DEF BlockOwned
  <2> QED
    BY <1>1, <1>2, <1>5, <2>2, <2>3 DEF BlockFound
<1> QED
  BY <1>3, <1>4, <1>5

\* A block that is not in the main thread's hands stays when that thread works.
LEMMA BlockElsewhere ==
  ASSUME NEW w \in Workers, BlockFound(w), BlockFound(w)', ~Handling(w), ~Handling(w)',
         UNCHANGED <<dest, buffer, ptp, evq>>
  PROVE  BlockOf(w)' = BlockOf(w)
<1>1. Queued(w)' = Queued(w)
  BY DEF Queued
<1>2. CASE dest = w \/ ptp[w] # <<>>
  BY <1>2 DEF BlockFound
<1>3. CASE dest # w /\ ptp[w] = <<>> /\ Queued(w)
  BY <1>3 DEF BlockFound, Queued
<1>4. CASE dest # w /\ ptp[w] = <<>> /\ ~Queued(w)
  BY <1>1, <1>4 DEF BlockFound
<1> QED
  BY <1>2, <1>3, <1>4

\* Broadcasts and the exit command are queued behind it.
LEMMA BlockBehind ==
  ASSUME PumpInv, NEW w \in Workers, BlockFound(w), BlockFound(w)', NEW e \in Event,
         e.kind # "targeted", QueueEvent(w, e), UNCHANGED <<dest, buffer, ptp, main>>
  PROVE  BlockOf(w)' = BlockOf(w)
<1>1. evq[w] \in Seq(Event) /\ evq'[w] = Append(evq[w], e) /\ TypeOK /\ OneQueued(w)
  BY DEF QueueEvent, PumpInv, TypeOK, WorkerTypeOK, FlowControl, OneOutstanding, OneQueued
<1>2. \A k \in DOMAIN evq[w] : k \in DOMAIN evq'[w] /\ evq'[w][k] = evq[w][k]
  BY <1>1
<1>3. (Queued(w)' <=> Queued(w)) /\ (Handling(w)' <=> Handling(w))
  BY <1>1, QueueOther DEF Handling
<1>4. CASE dest = w \/ ptp[w] # <<>>
  BY <1>4 DEF BlockFound
<1>5. CASE dest # w /\ ptp[w] = <<>> /\ Queued(w)
  <2>1. PICK k \in DOMAIN evq[w] : evq[w][k].kind = "targeted"
    BY <1>5 DEF Queued
  <2> QED
    BY <1>2, <2>1 DEF BlockFound
<1>6. CASE dest # w /\ ptp[w] = <<>> /\ ~Queued(w) /\ Handling(w)
  BY <1>3, <1>6 DEF BlockFound
<1>7. CASE dest # w /\ ptp[w] = <<>> /\ ~Queued(w) /\ ~Handling(w)
  BY <1>3, <1>7 DEF BlockFound
<1> QED
  BY <1>4, <1>5, <1>6, <1>7

\* The main thread takes the first event of its queue, the block or another one.
LEMMA BlockTaken ==
  ASSUME PumpInv, NEW w \in Workers, BlockFound(w), BlockFound(w)', evq[w] # <<>>,
         main[w].kind = "none", main' = [main EXCEPT ![w] = Head(evq[w])],
         evq' = [evq EXCEPT ![w] = Tail(@)], UNCHANGED <<dest, buffer, ptp>>
  PROVE  BlockOf(w)' = BlockOf(w)
<1>1. /\ evq[w] \in Seq(Event) /\ evq'[w] = Tail(evq[w]) /\ main'[w] = Head(evq[w])
      /\ TypeOK /\ OneQueued(w) /\ ~Handling(w)
  BY DEF PumpInv, TypeOK, WorkerTypeOK, FlowControl, OneOutstanding, OneQueued, Handling
<1>2. /\ 1 \in DOMAIN evq[w] /\ main'[w] = evq[w][1]
      /\ \A k \in DOMAIN evq[w] :
           k = 1 \/ (k - 1 \in DOMAIN evq'[w] /\ evq'[w][k - 1] = evq[w][k])
  <2> PICK q \in Seq(Event) : q = evq[w] /\ q # <<>>
    BY <1>1
  <2>1. /\ 1 \in DOMAIN q /\ Head(q) = q[1]
        /\ \A k \in DOMAIN q : k = 1 \/ (k - 1 \in DOMAIN Tail(q) /\ Tail(q)[k - 1] = q[k])
    BY TailElements
  <2> QED
    BY <1>1, <2>1
<1>3. CASE dest = w \/ ptp[w] # <<>>
  BY <1>3 DEF BlockFound
<1>4. CASE dest # w /\ ptp[w] = <<>> /\ Queued(w)
  <2>1. PICK k \in DOMAIN evq[w] : evq[w][k].kind = "targeted"
    BY <1>4 DEF Queued
  <2>2. CASE k = 1
    BY <1>2, <2>1, <2>2 DEF BlockFound, Handling
  <2>3. CASE k # 1
    BY <1>2, <2>1, <2>3 DEF BlockFound
  <2> QED
    BY <2>2, <2>3
<1>5. CASE dest # w /\ ptp[w] = <<>> /\ ~Queued(w)
  <2>1. ~Queued(w)'
    BY <1>1, <1>5, TakeEvent
  <2>2. ~Handling(w)'
    BY <1>2, <1>5 DEF Queued, Handling
  <2> QED
    BY <1>1, <1>5, <2>1, <2>2 DEF BlockFound
<1> QED
  BY <1>3, <1>4, <1>5

\* The event handler is done with a block when nothing of it is left.
LEMMA BlockFinished ==
  ASSUME PumpInv, NEW w \in Workers, BlockFound(w), BlockFound(w)', FinishEvent(w)
  PROVE  BlockOf(w)' = BlockOf(w)
<1>1. /\ main'[w] = Idle /\ main[w].items = <<>> /\ UNCHANGED <<dest, buffer, ptp, evq>>
  BY DEF FinishEvent, rootVars, PumpInv, TypeOK, WorkerTypeOK
<1>2. ~Handling(w)'
  BY <1>1 DEF Handling, Idle
<1>3. CASE Handling(w)
  <2>1. dest # w /\ ptp[w] = <<>> /\ ~Queued(w)
    BY <1>3 DEF PumpInv, FlowControl, OneOutstanding, Delivering
  <2>2. ~Queued(w)'
    BY <1>1, <2>1 DEF Queued
  <2>3. BlockOf(w) = <<>> /\ BlockOf(w)' = <<>>
    BY <1>1, <1>2, <1>3, <2>1, <2>2 DEF BlockFound
  <2> QED
    BY <2>3
<1>4. CASE ~Handling(w)
  BY <1>1, <1>2, <1>4, BlockElsewhere
<1> QED
  BY <1>3, <1>4

\* Steps of a worker other than a dispatch leave every block alone.
LEMMA BlockByOthers ==
  ASSUME PumpInv, DeliveryInv, NEW w \in Workers, BlockFound(w), BlockFound(w)',
         Worker(w), ~DispatchItem(w)
  PROVE  BlockOf(w)' = BlockOf(w) /\ UNCHANGED analysed
<1>0. UNCHANGED rootVars /\ UNCHANGED analysed
  BY DEF Worker, PhysicsThread, MainThread, RequestFirst, ReceivePart,
     ReceiveMarker, ReceiveBroadcast, ReceiveCommand, StartEvent,
     FinishEvent, WorkerExit
<1> SUFFICES BlockOf(w)' = BlockOf(w)
  BY <1>0
<1>1. UNCHANGED <<dest, buffer>> /\ TypeOK /\ BroadcastInv(w)
  BY <1>0 DEF rootVars, PumpInv, DeliveryInv
<1>2. CASE RequestFirst(w) \/ ReceiveMarker(w)
  BY <1>1, <1>2, BlockStays DEF RequestFirst, ReceiveMarker
<1>3. CASE ReceivePart(w)
  BY <1>3, BlockReceived
<1>4. CASE ReceiveBroadcast(w)
  <2>1. UNCHANGED <<ptp, main>>
    BY <1>4 DEF ReceiveBroadcast
  <2>2. PICK part \in Part :
          UNCHANGED evq \/ QueueEvent(w, [kind |-> "broadcast", items |-> part.items])
    BY <1>1, <1>4, PieceReceived
  <2>3. CASE UNCHANGED evq
    BY <1>1, <2>1, <2>3, BlockStays
  <2>4. CASE QueueEvent(w, [kind |-> "broadcast", items |-> part.items])
    <3> PICK e : e = [kind |-> "broadcast", items |-> part.items]
      OBVIOUS
    <3>1. e \in Event /\ e.kind # "targeted"
      <4>1. part.items \in Seq(Item)
        BY DEF Part
      <4> QED
        BY <4>1, EventTyped
    <3>2. QueueEvent(w, e)
      BY <2>4
    <3> QED
      BY <1>1, <2>1, <3>1, <3>2, BlockBehind
  <2> QED
    BY <2>2, <2>3, <2>4
<1>5. CASE ReceiveCommand(w)
  <2> PICK e : e = [kind |-> "exit", items |-> <<>>]
    OBVIOUS
  <2>1. QueueEvent(w, e) /\ UNCHANGED <<ptp, main>>
    BY <1>5 DEF ReceiveCommand
  <2>2. e \in Event /\ e.kind # "targeted"
    BY DEF Event
  <2> QED
    BY <1>1, <2>1, <2>2, BlockBehind
<1>6. CASE StartEvent(w) \/ WorkerExit(w)
  <2>1. /\ evq[w] # <<>> /\ main[w].kind = "none" /\ main' = [main EXCEPT ![w] = Head(evq[w])]
        /\ evq' = [evq EXCEPT ![w] = Tail(@)] /\ UNCHANGED ptp
    BY <1>6 DEF StartEvent, WorkerExit
  <2> QED
    BY <1>1, <2>1, BlockTaken
<1>7. CASE FinishEvent(w)
  BY <1>7, BlockFinished
<1> QED
  BY <1>0, <1>2, <1>3, <1>4, <1>5, <1>6, <1>7 DEF Worker, PhysicsThread, MainThread

---------------------------------------------------------------------------
(* Every step is one of WorkDistribution's, or leaves its variables alone. *)

\* The items in the buffer wait until the root has a worker for them.
ItemsWaiting == IF rootPc = "send" THEN <<>> ELSE buffer.items

\* The abstract variables stay when what they stand for does.
LEMMA DistributionStutters ==
  ASSUME UNCHANGED <<source, analysed, ItemsWaiting>>,
         \A w \in Workers : BlockOf(w)' = BlockOf(w)
  PROVE  UNCHANGED WD!vars
<1>1. [w \in Workers |-> BlockOf(w)]' = [w \in Workers |-> BlockOf(w)]
  OBVIOUS
<1> QED
  BY <1>1 DEF WD!vars, ItemsWaiting

\* An item is delivered.
LEMMA OfferRefines ==
  ASSUME PumpInv, DeliveryInv, NEW i \in NextItems, source' = Append(source, i),
         ItemsWaiting' = IF IsPhysics(i) THEN Append(ItemsWaiting, i) ELSE ItemsWaiting,
         UNCHANGED analysed, \A w \in Workers : BlockOf(w)' = BlockOf(w)
  PROVE  WD!Offer
<1>1. /\ source \in Seq(Item) /\ i \in Item /\ i.id = Len(source) + 1
      /\ SourceNumbered
  BY NextItemsTyped, NextItemsNumbered DEF PumpInv, DeliveryInv, TypeOK, RootTypeOK
<1>2. source'[Len(source')] = i /\ Len(source') = Len(source) + 1
  BY <1>1
<1>3. i \notin WD!Members(source)
  BY <1>1 DEF WD!Members, SourceNumbered
<1>4. [w \in Workers |-> BlockOf(w)]' = [w \in Workers |-> BlockOf(w)]
  OBVIOUS
<1> QED
  BY <1>1, <1>2, <1>3, <1>4 DEF WD!Offer, ItemsWaiting

\* The root offers items and deals blocks.
LEMMA RootRefines ==
  ASSUME PumpInv, DeliveryInv, OrderInv, Root,
         \A w \in Workers : BlockFound(w) /\ BlockFound(w)'
  PROVE  WD!Next \/ UNCHANGED WD!vars
<1>1. /\ TypeOK /\ RootProgress /\ NoWorker \notin Workers /\ FlushedFirst
      /\ buffer.items \in Seq(Item) /\ UNCHANGED <<evq, main, analysed>>
  BY WorkersAssumption DEF PumpInv, Framing, OrderInv, TypeOK, RootTypeOK,
     Root, RootContinues, SendRingItem, BroadcastRingItem, OnSourceAttach,
     RootExit, GetDestination, TransmitChunk, BroadcastChunk, workerVars
<1>2. ASSUME UNCHANGED <<dest, ptp>>, UNCHANGED buffer \/ rootPc # "send"
      PROVE  \A w \in Workers : BlockOf(w)' = BlockOf(w)
  <2> TAKE w \in Workers
  <2>1. (dest = w) => UNCHANGED buffer
    BY <1>1, <1>2 DEF RootProgress
  <2> QED
    BY <1>1, <1>2, <2>1, BlockStays
<1>3. CASE SendRingItem
  <2>1. PICK i \in NextItems :
          /\ IsPhysics(i) /\ source' = Append(source, i)
          /\ buffer' = [items |-> Append(buffer.items, i), bytes |-> buffer.bytes + i.bytes]
    BY <1>3 DEF SendRingItem
  <2>2. rootPc = "idle" /\ rootPc' \in {"idle", "request"} /\ UNCHANGED <<dest, ptp>>
    BY <1>3 DEF SendRingItem
  <2>3. ItemsWaiting' = Append(ItemsWaiting, i)
    BY <2>1, <2>2 DEF ItemsWaiting
  <2>4. WD!Offer
    BY <1>1, <1>2, <2>1, <2>2, <2>3, OfferRefines
  <2> QED
    BY <2>4 DEF WD!Next
<1>4. CASE BroadcastRingItem
  <2>1. PICK i \in NextItems : Broadcast(i) /\ source' = Append(source, i) /\ Flush(i)
    BY <1>4 DEF BroadcastRingItem
  <2>2. rootPc = "idle" /\ UNCHANGED <<dest, ptp, buffer>>
    BY <1>4 DEF BroadcastRingItem
  <2>3. ItemsWaiting' = ItemsWaiting /\ ~IsPhysics(i)
    BY <2>1, <2>2, FlushPending, NextItemsNumbered DEF ItemsWaiting
  <2>4. WD!Offer
    BY <1>1, <1>2, <2>1, <2>2, <2>3, OfferRefines
  <2> QED
    BY <2>4 DEF WD!Next
<1>5. CASE OnSourceAttach \/ RootExit
  <2>1. /\ rootPc = "idle" /\ UNCHANGED <<source, dest, ptp, buffer>>
        /\ \E i : Flush(i)
    BY <1>5 DEF OnSourceAttach, RootExit
  <2>2. UNCHANGED ItemsWaiting
    BY <2>1, FlushPending DEF ItemsWaiting
  <2> QED
    BY <1>1, <1>2, <2>1, <2>2, DistributionStutters
<1>6. CASE GetDestination
  <2>1. PICK w \in Workers : requests[w] > 0 /\ dest' = w
    BY <1>6 DEF GetDestination
  <2>2. /\ rootPc = "request" /\ rootPc' = "send" /\ dest = NoWorker
        /\ UNCHANGED <<source, buffer, ptp>>
    BY <1>1, <1>6 DEF GetDestination, RootProgress
  <2>3. requests[w] = 1
    BY <1>1, <2>1 DEF PumpInv, FlowControl, OneOutstanding, TypeOK, ChannelTypeOK
  <2>4. ptp[w] = <<>> /\ dest # w /\ ~Queued(w) /\ ~Handling(w)
    BY <1>1, <2>2, <2>3 DEF PumpInv, FlowControl, OneOutstanding, Delivering
  <2>5. BlockOf(w) = <<>> /\ BlockOf(w)' = buffer.items
    BY <2>1, <2>2, <2>4 DEF BlockFound
  <2>6. \A v \in Workers : (v # w) => (BlockOf(v)' = BlockOf(v))
    <3> SUFFICES ASSUME NEW v \in Workers, v # w
                 PROVE  BlockOf(v)' = BlockOf(v)
      OBVIOUS
    <3> QED
      BY <1>1, <2>1, <2>2, BlockStays
  <2>7. [v \in Workers |-> BlockOf(v)]'
          = [[v \in Workers |-> BlockOf(v)] EXCEPT ![w] = buffer.items]
    BY <2>5, <2>6
  <2>8. buffer.items # <<>>
    BY <1>1, <2>2 DEF FlushedFirst
  <2>9. WD!Deal(w)
    BY <1>1, <2>2, <2>5, <2>7, <2>8 DEF WD!Deal
  <2> QED
    BY <2>9 DEF WD!Next
<1>7. CASE TransmitChunk
  <2>1. \A w \in Workers : BlockOf(w)' = BlockOf(w)
    BY <1>7, BlockTransmitted
  <2>2. UNCHANGED source /\ rootPc = "send"
    BY <1>7 DEF TransmitChunk
  <2>3. rootPc' = "send" \/ buffer' = EmptyBuffer
    BY <1>7, <2>2 DEF TransmitChunk, InitBuffer
  <2>4. UNCHANGED ItemsWaiting
    BY <2>2, <2>3 DEF ItemsWaiting, EmptyBuffer
  <2> QED
    BY <1>1, <2>1, <2>2, <2>4, DistributionStutters
<1>8. CASE BroadcastChunk
  <2>1. /\ rootPc # "send" /\ rootPc' # "send" /\ UNCHANGED <<source, dest, ptp, buffer>>
    BY <1>8 DEF BroadcastChunk
  <2>2. UNCHANGED ItemsWaiting
    BY <2>1 DEF ItemsWaiting
  <2> QED
    BY <1>1, <1>2, <2>1, <2>2, DistributionStutters
<1> QED
  BY <1>3, <1>4, <1>5, <1>6, <1>7, <1>8 DEF Root, RootContinues

\* RingItemEventHandler dispatches the next item of a block or a broadcast.  In
\* the latter case all that has come before it has been heard or dealt.
LEMMA DispatchRefines ==
  ASSUME PumpInv, DeliveryInv, OrderInv, NEW w \in Workers, DispatchItem(w),
         \A v \in Workers : BlockFound(v) /\ BlockFound(v)'
  PROVE  WD!Next
<1>1. /\ TypeOK /\ main[w] \in Event /\ main[w].items \in Seq(Item)
      /\ main[w].items # <<>> /\ analysed[w] \in Seq(Item) /\ source \in Seq(Item)
      /\ analysed \in [Workers -> Seq(Item)]
      /\ ArrivedOnce(w) /\ HeardInv(w) /\ SourceNumbered
  BY DEF PumpInv, DeliveryInv, OrderInv, DispatchItem, TypeOK, RootTypeOK, WorkerTypeOK, Event
<1> PICK i : i = Head(main[w].items)
  OBVIOUS
<1>2. /\ main'[w].kind = main[w].kind /\ main'[w].items = Tail(main[w].items)
      /\ analysed' = [analysed EXCEPT ![w] = Append(@, i)]
      /\ UNCHANGED <<source, buffer, rootPc, dest, ptp, evq>>
  BY <1>1 DEF DispatchItem, rootVars, TypeOK, WorkerTypeOK, Event
<1>3. UNCHANGED ItemsWaiting
  BY <1>2 DEF ItemsWaiting
<1>4. \A v \in Workers : (v # w) => (BlockOf(v)' = BlockOf(v))
  <2> SUFFICES ASSUME NEW v \in Workers, v # w
               PROVE  BlockOf(v)' = BlockOf(v)
    OBVIOUS
  <2>1. Worker(w)
    BY DEF Worker, MainThread
  <2>2. UNCHANGED <<ptp[v], evq[v], main[v]>>
    BY <1>1, <2>1, OthersKeep
  <2> QED
    BY <1>2, <2>2, BlockStays
<1>5. CASE Handling(w)
  <2>1. Handling(w)'
    BY <1>2, <1>5 DEF Handling
  <2>2. BlockOf(w) = main[w].items /\ BlockOf(w)' = Tail(main[w].items)
    BY <1>2, <1>5, <2>1 DEF BlockFound
  <2>3. [v \in Workers |-> BlockOf(v)]'
          = [[v \in Workers |-> BlockOf(v)] EXCEPT ![w] = Tail(@)]
    BY <1>4, <2>2
  <2>4. WD!Analyse(w)
    BY <1>1, <1>2, <1>3, <2>2, <2>3 DEF WD!Analyse, ItemsWaiting
  <2> QED
    BY <2>4 DEF WD!Next
<1>6. CASE ~Handling(w)
  <2>1. \A v \in Workers : BlockOf(v)' = BlockOf(v)
    <3>1. ~Handling(w)'
      BY <1>2, <1>6 DEF Handling
    <3> QED
      BY <1>2, <1>4, <1>6, <3>1, BlockElsewhere
  <2>2. [v \in Workers |-> BlockOf(v)]' = [v \in Workers |-> BlockOf(v)]
    BY <2>1
  <2>3. 1 \in DOMAIN main[w].items /\ i = main[w].items[1] /\ i \in Item
    BY <1>1, TailElements
  <2>4. Broadcast(i)
    <3>1. main[w].kind = "broadcast"
      BY <1>1, <1>6 DEF HeardInv, Sorted, OneKind, Handling, Event
    <3> QED
      BY <1>1, <2>3, <3>1 DEF HeardInv, Sorted, OneKind
  <2> PICK n : n = i.id
    OBVIOUS
  <2>5. n \in Handled(w) /\ n \in DOMAIN source /\ source[n] = i /\ n \in Broadcasts
    <3>1. n \in Handled(w) /\ n \in DOMAIN source /\ source[n] = i
      BY <1>1, <2>3 DEF Handled, Ids, ArrivedOnce, GoodEvent, From
    <3> QED
      BY <2>4, <3>1 DEF Broadcasts
  <2>6. source[n] \notin WD!Members(analysed[w])
    <3>1. n \notin Analysed(w)
      BY <1>1, <2>5 DEF ArrivedOnce
    <3> QED
      BY <2>5, <3>1 DEF WD!Members, Analysed, Ids
  <2>7. ASSUME NEW j \in 1 .. n - 1
        PROVE  IF IsPhysics(source[j]) THEN source[j] \notin WD!Members(ItemsWaiting)
               ELSE source[j] \in WD!Members(analysed[w])
    <3>1. /\ j \in DOMAIN source /\ j < n /\ source[j].id = j
          /\ j \in Nat /\ n \in Nat
      BY <1>1, <2>5 DEF SourceNumbered
    <3>2. CASE IsPhysics(source[j])
      <4> SUFFICES ASSUME source[j] \in WD!Members(ItemsWaiting)
                   PROVE  FALSE
        BY <3>2
      <4>1. j \in Ids(buffer.items)
        BY <3>1 DEF WD!Members, ItemsWaiting, Ids
      <4>2. n < j
        BY <1>1, <2>5, <4>1 DEF HeardInv, BufferAfter, Arrived
      <4> QED
        BY <3>1, <4>2
    <3>3. CASE ~IsPhysics(source[j])
      <4>1. j \in Broadcasts
        BY <1>1, <3>1, <3>3 DEF SourceNumbered, Broadcasts
      <4>2. j \in Analysed(w)
        BY <1>1, <2>5, <3>1, <4>1 DEF HeardInv, HeardInOrder
      <4>3. source[j] \in WD!Members(analysed[w])
        BY <1>1, <4>2 DEF Analysed, Ids, ArrivedOnce, From, WD!Members
      <4> QED
        BY <3>3, <4>3
    <3> QED
      BY <3>2, <3>3
  <2>8. ~IsPhysics(source[n])
    BY <2>4, <2>5 DEF IsPhysics, Broadcast, Physics
  <2>9. WD!Hear(w)
    BY <1>2, <1>3, <2>2, <2>5, <2>6, <2>7, <2>8 DEF WD!Hear, ItemsWaiting
  <2> QED
    BY <2>9 DEF WD!Next
<1> QED
  BY <1>5, <1>6

\* The other steps of a worker are not seen.
LEMMA WorkerRefines ==
  ASSUME PumpInv, DeliveryInv, OrderInv, NEW w \in Workers, Worker(w),
         \A v \in Workers : BlockFound(v) /\ BlockFound(v)'
  PROVE  WD!Next \/ UNCHANGED WD!vars
<1>1. CASE DispatchItem(w)
  BY <1>1, DispatchRefines
<1>2. CASE ~DispatchItem(w)
  <2>1. UNCHANGED rootVars
    BY <1>2 DEF Worker, PhysicsThread, MainThread, RequestFirst, ReceivePart,
       ReceiveMarker, ReceiveBroadcast, ReceiveCommand, StartEvent,
       FinishEvent, WorkerExit
  <2>2. UNCHANGED <<source, buffer, dest, ItemsWaiting>> /\ TypeOK
    BY <2>1 DEF rootVars, ItemsWaiting, PumpInv
  <2>3. UNCHANGED analysed
    BY <1>2, BlockByOthers
  <2>4. ASSUME NEW v \in Workers
        PROVE  BlockOf(v)' = BlockOf(v)
    <3>1. CASE v = w
      BY <1>2, <3>1, BlockByOthers
    <3>2. CASE v # w
      <4>1. UNCHANGED <<ptp[v], evq[v], main[v]>>
        BY <2>2, <3>2, OthersKeep
      <4> QED
        BY <2>2, <4>1, BlockStays
    <3> QED
      BY <3>1, <3>2
  <2> QED
    BY <2>2, <2>3, <2>4, DistributionStutters
<1> QED
  BY <1>1, <1>2

\* The ring item pump distributes its items as WorkDistribution says, for any
\* set of workers and however requests, parts, broadcasts and events cross: the
\* whole of RingItemPump.cpp's dispatching, from dispatchEvent in the root to
\* RingItemEventHandler in the workers.
THEOREM PumpDistributes == Spec => Distribution
<1>1. PumpInv => \A w \in Workers : BlockFound(w)
  BY BlockIsFound
<1>2. Init => WD!Init
  <2> SUFFICES ASSUME Init PROVE WD!Init
    OBVIOUS
  <2>1. \A w \in Workers : BlockOf(w) = <<>>
    BY WorkersAssumption DEF Init, BlockOf, TargetedEvents, Handling, Idle
  <2> QED
    BY <2>1 DEF Init, WD!Init, EmptyBuffer
<1>3. /\ PumpInv /\ DeliveryInv /\ OrderInv /\ [Next]_vars
      /\ (\A w \in Workers : BlockFound(w)) /\ (\A w \in Workers : BlockFound(w))'
      => [WD!Next]_(WD!vars)
  <2> SUFFICES ASSUME PumpInv, DeliveryInv, OrderInv, [Next]_vars,
                      \A w \in Workers : BlockFound(w) /\ BlockFound(w)'
               PROVE  WD!Next \/ UNCHANGED WD!vars
    OBVIOUS
  <2>1. CASE Root
    BY <2>1, RootRefines
  <2>2. ASSUME NEW w \in Workers, Worker(w)
        PROVE  WD!Next \/ UNCHANGED WD!vars
    BY <2>2, WorkerRefines
  <2>3. CASE UNCHANGED vars
    <3>1. /\ UNCHANGED <<source, analysed, ItemsWaiting, dest, buffer>>
          /\ UNCHANGED <<ptp, evq, main>>
      BY <2>3 DEF vars, rootVars, workerVars, ItemsWaiting
    <3>2. \A w \in Workers : BlockOf(w)' = BlockOf(w)
      BY <3>1, BlockStays
    <3> QED
      BY <3>1, <3>2, DistributionStutters
  <2> QED
    BY <2>1, <2>2, <2>3 DEF Next
<1> QED
  BY <1>1, <1>2, <1>3, OrderInvariant, PTL DEF Spec, Distribution, WD!Spec
=============================================================================
