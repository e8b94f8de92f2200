--------------------------- MODULE RingItemPump ---------------------------
(***************************************************************************)
(* The ring item pump of mpiSpecTcl (Core/RingItemPump.cpp, driven by      *)
(* CRingBufferDecoder::dispatchEvent in Core/CRingBufferDecoder.cpp and    *)
(* shut down by MpiExitHandler in Core/TclGrammerApp.cpp).                 *)
(*                                                                         *)
(* The root process reads ring items.  PHYSICS_EVENT items are gathered in *)
(* a buffer (class BufferedItems) and sent as one block to the first       *)
(* worker whose request is received; every other item is broadcast to all  *)
(* workers after the buffer has been flushed.  Each worker runs two pump   *)
(* threads, physicsThread and nonPhysicsThread, that queue events to its   *)
(* main thread, whose RingItemEventHandler dispatches the items and, after *)
(* a block, sends the next request.                                        *)
(*                                                                         *)
(* Channels are MPI's: first-in first-out between one sender and one       *)
(* receiver, no order between different senders or between point-to-point  *)
(* messages and broadcasts.  Sends are buffered.                           *)
(***************************************************************************)
EXTENDS Integers, Sequences, FiniteSets

CONSTANTS
  Workers,        \* worker ranks of gRingItemComm
  NoWorker,       \* not a rank
  ChunkSizes,     \* values the Tcl variable WorkerChunkSize takes
  PhysicsBytes,   \* sizes a PHYSICS_EVENT item may have
  OtherBytes,     \* sizes any other item may have
  MaxMessage,     \* MAX_MESSAGE_SIZE, scaled down
  LongBytes,      \* sizeof(uint32_t), the block's leading size, scaled down
  MaxItems,       \* bound on the ring items the data source delivers
  MayExit         \* TRUE if the user may exit the program

ASSUME WorkersAssumption == Workers # {} /\ NoWorker \notin Workers
ASSUME ChunkSizesAssumption == ChunkSizes # {} /\ ChunkSizes \subseteq Int
ASSUME BytesAssumption ==
  /\ PhysicsBytes \subseteq Nat \ {0}
  /\ OtherBytes \subseteq Nat \ {0}
  /\ MaxMessage \in Nat \ {0}
  /\ LongBytes \in Nat \ {0}
ASSUME BoundsAssumption == MaxItems \in Nat /\ MayExit \in BOOLEAN

VARIABLES
  source,       \* ring items the data source has delivered (history)
  buffer,       \* m_buffer: the buffered items and their bytes
  maxItems,     \* m_maxItems
  rootPc,       \* where the root's main thread is
  pending,      \* the item that thread is dispatching
  dest,         \* the rank flush sends the block to
  sent,         \* bytes of the block or broadcast already sent
  stats,        \* the run statistics variables of the root's CTclAnalyzer
  decoderRun,   \* the root decoder's m_runNumber
  requests,     \* request messages of each worker the root has not received
  ptp,          \* parts of blocks on their way from the root to each worker
  bcast,        \* broadcast parts each worker has not received
  marker,       \* the workers with a stop message to themselves on its way
  command,      \* the "exit" Tcl command on its way to each worker
  phys,         \* physicsThread of each worker
  nonphys,      \* nonPhysicsThread of each worker
  evq,          \* the main thread's Tcl event queue in each worker
  main,         \* the event the main thread is handling
  analysed      \* items each worker has dispatched (history)

rootVars == <<source, buffer, maxItems, rootPc, pending, dest,
              sent, stats, decoderRun>>
workerVars == <<phys, nonphys, evq, main, analysed>>
vars == <<rootVars, requests, ptp, bcast, marker, command, workerVars>>

---------------------------------------------------------------------------
(* Data *)

Physics == "PHYSICS_EVENT"
\* "OTHER" stands for scalers, text items and the like; "STOP" is the header
\* of size zero that stopRingItemPump sends and "NONE" no item at all.
ItemTypes == {Physics, "BEGIN_RUN", "END_RUN", "OTHER", "STOP", "NONE"}
Item == [id: Nat, type: ItemTypes, run: Nat, bytes: Nat \ {0}]
NoItem == [id |-> 0, type |-> "NONE", run |-> 0, bytes |-> 1]
StopItem == [id |-> 0, type |-> "STOP", run |-> 0, bytes |-> 1]

\* One MPI_Send of transmitChunks.  The receiver knows `total' only from the
\* first part of a block; `offset' says where in the block this part lies.
Part == [items: Seq(Item), total: Nat, offset: Nat, bytes: Nat]
Event == [kind: {"targeted", "broadcast", "exit", "none"}, items: Seq(Item)]
Idle == [kind |-> "none", items |-> <<>>]

IsPhysics(i) == i.type = Physics
Broadcast(i) == i.type \in {"BEGIN_RUN", "END_RUN", "OTHER"}

\* The run that is being read, counted from the items delivered so far.
CurrentRun == IF source = <<>> THEN 0 ELSE source[Len(source)].run
RunActive ==
  /\ source # <<>>
  /\ CurrentRun > 0
  /\ \A k \in DOMAIN source :
       (source[k].type = "END_RUN") => (source[k].run # CurrentRun)

\* The statistics counters and run variables that Tcl scripts in the root see.
\* EventsAccepted and BuffersAnalyzed move with EventsAnalyzed.
Statistics == [analyzed: Nat, thisRun: Nat, runs: Nat, run: Nat,
               state: {"Active", "Halted"}]

EmptyBuffer == [items |-> <<>>, bytes |-> LongBytes]
NumItems == Len(buffer.items)

\* The items the root's data source can deliver next: physics events and an
\* end run inside a run, a begin run outside one, anything else at any time.
ItemsOf(t, r, sizes) ==
  {[id |-> Len(source) + 1, type |-> t, run |-> r, bytes |-> b] : b \in sizes}

NextItems ==
  IF RunActive
  THEN ItemsOf(Physics, CurrentRun, PhysicsBytes)
         \cup ItemsOf("END_RUN", CurrentRun, OtherBytes)
         \cup ItemsOf("OTHER", CurrentRun, OtherBytes)
  ELSE ItemsOf("BEGIN_RUN", CurrentRun + 1, OtherBytes)
         \cup ItemsOf("OTHER", CurrentRun, OtherBytes)

---------------------------------------------------------------------------
(* The root's main thread *)

\* updateMaxItems: m_maxItems for some value of WorkerChunkSize, which the user
\* may change at any time.  A value that is not positive means
\* DEFAULT_MAX_CHUNK_SIZE.
ChunkLimitUnchecked(n) == n                          \* variant: value not checked
ChunkLimit(n) == IF n > 0 THEN n ELSE 1

\* countPhysicsItems for one item.
CountPhysics(s) ==
  [analyzed |-> s.analyzed + 1, thisRun |-> s.thisRun + 1, runs |-> s.runs,
   run |-> s.run, state |-> s.state]

\* updateStatistics.  The run number is the decoder's, not the item's.
BeginStatistics(s) ==
  [analyzed |-> s.analyzed, thisRun |-> 0, runs |-> s.runs + 1,
   run |-> decoderRun, state |-> "Active"]
EndStatistics(s) == [s EXCEPT !.state = "Halted"]

UpdateStatisticsFallThrough(s, i) ==                 \* variant: a break missing
  IF i.type = "BEGIN_RUN" THEN EndStatistics(BeginStatistics(s))
  ELSE IF i.type = "END_RUN" THEN EndStatistics(s) ELSE s
UpdateStatistics(s, i) ==
  IF i.type = "BEGIN_RUN" THEN BeginStatistics(s)
  ELSE IF i.type = "END_RUN" THEN EndStatistics(s) ELSE s

\* dispatchEvent of a PHYSICS_EVENT item: sendRingItem, BufferedItems::buffer.
\* A full buffer must be flushed before the item is counted.
SendRingItem ==
  /\ rootPc = "idle"
  /\ Len(source) < MaxItems
  /\ \E i \in NextItems :
       /\ IsPhysics(i)
       /\ source' = Append(source, i)
       /\ IF NumItems = 0 THEN \E n \in ChunkSizes : maxItems' = ChunkLimit(n)
                          ELSE UNCHANGED maxItems
       /\ buffer' = [items |-> Append(buffer.items, i),
                     bytes |-> buffer.bytes + i.bytes]
       /\ IF NumItems + 1 >= maxItems'
          THEN rootPc' = "request" /\ pending' = i /\ UNCHANGED stats
          ELSE stats' = CountPhysics(stats) /\ UNCHANGED <<rootPc, pending>>
  /\ UNCHANGED <<dest, sent, decoderRun, requests, ptp, bcast,
                 marker, command, workerVars>>

\* What the root does with the pending item once the buffer is empty: count a
\* physics item, update the statistics for any other and start broadcasting it.
AfterFlush(i) ==
  /\ sent' = 0
  /\ IF i.type \in {Physics, "NONE"}
     THEN /\ rootPc' = "idle"
          /\ pending' = NoItem
          /\ stats' = IF IsPhysics(i) THEN CountPhysics(stats) ELSE stats
     ELSE /\ rootPc' = "broadcast"
          /\ pending' = i
          /\ stats' = UpdateStatistics(stats, i)

\* BufferedItems::flush on behalf of item i.
FlushForgotten(i) == AfterFlush(i)                   \* variant: no flush
Flush(i) ==
  IF NumItems = 0
  THEN AfterFlush(i)
  ELSE rootPc' = "request" /\ pending' = i /\ UNCHANGED <<sent, stats>>

\* dispatchEvent of any other item: broadcastRingItem.  Parameter files' items, which
\* m_UnrecognizedTypeHandler takes instead, change nothing here and are no step.
BroadcastRingItem ==
  /\ rootPc = "idle"
  /\ Len(source) < MaxItems
  /\ \E i \in NextItems :
       /\ Broadcast(i)
       /\ source' = Append(source, i)
       /\ Flush(i)
  /\ UNCHANGED <<buffer, maxItems, dest, decoderRun, requests, ptp,
                 bcast, marker, command, workerVars>>

\* CRingBufferDecoder::OnSourceAttach flushes what the last source left.
OnSourceAttach ==
  /\ rootPc = "idle"
  /\ NumItems > 0
  /\ Flush(NoItem)
  /\ UNCHANGED <<source, buffer, maxItems, dest, decoderRun,
                 requests, ptp, bcast, marker, command, workerVars>>

\* BufferedItems::getDestination: receive a request from any worker.
GetDestination ==
  /\ rootPc = "request"
  /\ \E w \in Workers :
       /\ requests[w] > 0
       /\ requests' = [requests EXCEPT ![w] = @ - 1]
       /\ dest' = w
  /\ rootPc' = "send"
  /\ sent' = 0
  /\ UNCHANGED <<source, buffer, maxItems, pending, stats,
                 decoderRun, ptp, bcast, marker, command, workerVars>>

\* setSize: the size in front of the block includes itself.
BlockSizeExclusive == buffer.bytes - LongBytes       \* variant: it does not
BlockSize == buffer.bytes

\* initBuffer after a transmission
InitBufferForgotten(b) == b                          \* variant: not cleared
InitBuffer(b) == EmptyBuffer

\* The size of the next part of something `total' bytes long.
PartBytes(total) ==
  IF total - sent < MaxMessage THEN total - sent ELSE MaxMessage

\* One turn of transmitChunks' loop.  After the last part flush empties the
\* buffer and returns to its caller.
TransmitChunk ==
  /\ rootPc = "send"
  /\ LET n == PartBytes(buffer.bytes)
         part == [items |-> buffer.items, total |-> BlockSize,
                  offset |-> sent, bytes |-> n]
     IN  /\ ptp' = [ptp EXCEPT ![dest] = Append(@, part)]
         /\ IF sent + n < buffer.bytes
            THEN sent' = sent + n /\ UNCHANGED <<buffer, dest, rootPc, pending,
                                                 stats>>
            ELSE buffer' = InitBuffer(buffer) /\ dest' = NoWorker /\ AfterFlush(pending)
  /\ UNCHANGED <<source, maxItems, decoderRun, requests, bcast,
                 marker, command, workerVars>>

\* One turn of broadcastRingItem's loop.  After the last part dispatchEvent
\* records the run number of a state change item; after the stop message the
\* exit handler is done.
BroadcastChunk ==
  /\ rootPc = "broadcast"
  /\ LET n == PartBytes(pending.bytes)
         part == [items |-> <<pending>>, total |-> pending.bytes,
                  offset |-> sent, bytes |-> n]
     IN  /\ bcast' = [w \in Workers |-> Append(bcast[w], part)]
         /\ IF sent + n < pending.bytes
            THEN sent' = sent + n /\ UNCHANGED <<rootPc, pending, decoderRun>>
            ELSE /\ sent' = 0
                 /\ pending' = NoItem
                 /\ rootPc' = IF pending.type = "STOP" THEN "exited" ELSE "idle"
                 /\ decoderRun' = IF pending.type \in {"BEGIN_RUN", "END_RUN"}
                                  THEN pending.run ELSE decoderRun
  /\ UNCHANGED <<source, buffer, maxItems, dest, stats, requests,
                 ptp, marker, command, workerVars>>

\* MpiExitHandler in the root: broadcast the exit command, then
\* stopRingItemPump, which flushes the buffer and broadcasts the stop message.
RootExit ==
  /\ MayExit
  /\ rootPc = "idle"
  /\ command' = [w \in Workers |-> "sent"]
  /\ Flush(StopItem)
  /\ UNCHANGED <<source, buffer, maxItems, dest, decoderRun,
                 requests, ptp, bcast, marker, workerVars>>

---------------------------------------------------------------------------
(* The pump threads of worker w *)

\* Tcl_ThreadQueueEvent at TCL_QUEUE_TAIL
QueueEvent(w, e) == evq' = [evq EXCEPT ![w] = Append(@, e)]

\* physicsThread asks for its first block.
RequestFirst(w) ==
  /\ phys[w].pc = "start"
  /\ phys' = [phys EXCEPT ![w].pc = "first"]
  /\ requests' = [requests EXCEPT ![w] = @ + 1]
  /\ UNCHANGED <<rootVars, ptp, bcast, marker, command, nonphys, evq, main,
                 analysed>>

\* Are all bytes of a block there when `missing' are still to come?
CompleteLate(missing) == missing < 0                 \* variant: off by one
Complete(missing) == missing <= 0

\* assembleTargetedData receives a part from the root: the first one tells how
\* many bytes are missing, the last one completes the block, which is queued.
ReceivePart(w) ==
  /\ phys[w].pc \in {"first", "more"}
  /\ ptp[w] # <<>>
  /\ LET part == Head(ptp[w])
         missing == (IF phys[w].pc = "first" THEN part.total
                                             ELSE phys[w].missing) - part.bytes
     IN  IF Complete(missing)
         THEN /\ phys' = [phys EXCEPT ![w] = [pc |-> "first", missing |-> 0]]
              /\ QueueEvent(w, [kind |-> "targeted", items |-> part.items])
         ELSE /\ phys' = [phys EXCEPT ![w] = [pc |-> "more",
                                              missing |-> missing]]
              /\ UNCHANGED evq
  /\ ptp' = [ptp EXCEPT ![w] = Tail(@)]
  /\ UNCHANGED <<rootVars, requests, bcast, marker, command, nonphys, main,
                 analysed>>

\* assembleTargetedData receives the worker's own stop message.  As the first
\* part of a block it ends the thread.  In the middle of a block it is taken
\* for data, and the block's last part no longer fits the receive posted for
\* it: MPI aborts the process.
ReceiveMarker(w) ==
  /\ w \in marker
  /\ phys[w].pc \in {"first", "more"}
  /\ marker' = marker \ {w}
  /\ phys' = [phys EXCEPT ![w].pc = IF @ = "first" THEN "done" ELSE "fatal"]
  /\ UNCHANGED <<rootVars, requests, ptp, bcast, command, nonphys, evq, main,
                 analysed>>

\* nonPhysicsThread: receiveBroadcastEvent receives a broadcast part.
ReceiveBroadcast(w) ==
  /\ nonphys[w].pc # "done"
  /\ bcast[w] # <<>>
  /\ LET part == Head(bcast[w])
         missing == (IF nonphys[w].pc = "first" THEN part.total
                                  ELSE nonphys[w].missing) - part.bytes
     IN  CASE part.items[1].type = "STOP" ->
                /\ nonphys' = [nonphys EXCEPT ![w].pc = "done"]
                /\ UNCHANGED evq
           [] part.items[1].type # "STOP" /\ missing > 0 ->
                /\ nonphys' = [nonphys EXCEPT ![w] = [pc |-> "more",
                                                      missing |-> missing]]
                /\ UNCHANGED evq
           [] OTHER ->
                /\ nonphys' = [nonphys EXCEPT ![w] = [pc |-> "first",
                                                      missing |-> 0]]
                /\ QueueEvent(w, [kind |-> "broadcast", items |-> part.items])
  /\ bcast' = [bcast EXCEPT ![w] = Tail(@)]
  /\ UNCHANGED <<rootVars, requests, ptp, marker, command, phys, main, analysed>>

\* The Tcl command pump queues the exit command to the same main thread.
ReceiveCommand(w) ==
  /\ command[w] = "sent"
  /\ command' = [command EXCEPT ![w] = "queued"]
  /\ QueueEvent(w, [kind |-> "exit", items |-> <<>>])
  /\ UNCHANGED <<rootVars, requests, ptp, bcast, marker, phys, nonphys, main,
                 analysed>>

---------------------------------------------------------------------------
(* The main thread of worker w *)

\* The event loop starts RingItemEventHandler for the next event.
StartEvent(w) ==
  /\ main[w].kind = "none"
  /\ evq[w] # <<>>
  /\ Head(evq[w]).kind # "exit"
  /\ main' = [main EXCEPT ![w] = Head(evq[w])]
  /\ evq' = [evq EXCEPT ![w] = Tail(@)]
  /\ UNCHANGED <<rootVars, requests, ptp, bcast, marker, command, phys, nonphys,
                 analysed>>

\* RingItemEventHandler dispatches the next item of the event.
DispatchItem(w) ==
  /\ main[w].items # <<>>
  /\ analysed' = [analysed EXCEPT ![w] = Append(@, Head(main[w].items))]
  /\ main' = [main EXCEPT ![w].items = Tail(@)]
  /\ UNCHANGED <<rootVars, requests, ptp, bcast, marker, command, phys, nonphys,
                 evq>>

\* The requests after an event of this kind has been handled
RequestAlways(w, kind) == [requests EXCEPT ![w] = @ + 1]  \* variant: s_targeted
                                                          \* not looked at
RequestNever(w, kind) == requests                         \* variant: forgotten
RequestNext(w, kind) ==
  IF kind = "targeted" THEN [requests EXCEPT ![w] = @ + 1] ELSE requests

\* RingItemEventHandler is done; after a block it sends the next request.
FinishEvent(w) ==
  /\ main[w].kind \in {"targeted", "broadcast"}
  /\ main[w].items = <<>>
  /\ requests' = RequestNext(w, main[w].kind)
  /\ main' = [main EXCEPT ![w] = Idle]
  /\ UNCHANGED <<rootVars, ptp, bcast, marker, command, phys, nonphys, evq,
                 analysed>>

\* The exit command: MpiExitHandler, stopRingItemPump.  The process handles no
\* event after it.
WorkerExit(w) ==
  /\ main[w].kind = "none"
  /\ evq[w] # <<>>
  /\ Head(evq[w]).kind = "exit"
  /\ main' = [main EXCEPT ![w] = Head(evq[w])]
  /\ evq' = [evq EXCEPT ![w] = Tail(@)]
  /\ marker' = marker \cup {w}
  /\ UNCHANGED <<rootVars, requests, ptp, bcast, command, phys, nonphys,
                 analysed>>

---------------------------------------------------------------------------
Init ==
  /\ source = <<>>
  /\ buffer = EmptyBuffer
  /\ \E n \in ChunkSizes : maxItems = ChunkLimit(n)
  /\ rootPc = "idle"
  /\ pending = NoItem
  /\ dest = NoWorker
  /\ sent = 0
  /\ stats = [analyzed |-> 0, thisRun |-> 0, runs |-> 0, run |-> 0,
              state |-> "Halted"]
  /\ decoderRun = 0
  /\ requests = [w \in Workers |-> 0]
  /\ ptp = [w \in Workers |-> <<>>]
  /\ bcast = [w \in Workers |-> <<>>]
  /\ marker = {}
  /\ command = [w \in Workers |-> "none"]
  /\ phys = [w \in Workers |-> [pc |-> "start", missing |-> 0]]
  /\ nonphys = [w \in Workers |-> [pc |-> "first", missing |-> 0]]
  /\ evq = [w \in Workers |-> <<>>]
  /\ main = [w \in Workers |-> Idle]
  /\ analysed = [w \in Workers |-> <<>>]

\* A step of the root on its way through a dispatch it has begun
RootContinues == GetDestination \/ TransmitChunk \/ BroadcastChunk

Root ==
  \/ SendRingItem
  \/ BroadcastRingItem
  \/ OnSourceAttach
  \/ RootExit
  \/ RootContinues

PhysicsThread(w) == RequestFirst(w) \/ ReceivePart(w) \/ ReceiveMarker(w)
MainThread(w) ==
  StartEvent(w) \/ DispatchItem(w) \/ FinishEvent(w) \/ WorkerExit(w)

Worker(w) ==
  \/ PhysicsThread(w)
  \/ ReceiveBroadcast(w)
  \/ ReceiveCommand(w)
  \/ MainThread(w)

Next == Root \/ \E w \in Workers : Worker(w)

Spec == Init /\ [][Next]_vars

\* Every thread of the root and of the workers that can run is run in the end;
\* nothing is assumed of the data source or of the user.
Fairness ==
  /\ WF_vars(RootContinues)
  /\ \A w \in Workers :
       /\ WF_vars(PhysicsThread(w))
       /\ WF_vars(ReceiveBroadcast(w))
       /\ WF_vars(ReceiveCommand(w))
       /\ WF_vars(MainThread(w))

FairSpec == Spec /\ Fairness

---------------------------------------------------------------------------
(* Properties *)

RootTypeOK ==
  /\ source \in Seq(Item)
  /\ buffer \in [items: Seq(Item), bytes: Nat]
  /\ maxItems \in Nat \ {0}
  /\ rootPc \in {"idle", "request", "send", "broadcast", "exited"}
  /\ pending \in Item
  /\ dest \in Workers \cup {NoWorker}
  /\ sent \in Nat
  /\ stats \in Statistics
  /\ decoderRun \in Nat

ChannelTypeOK ==
  /\ requests \in [Workers -> Nat]
  /\ ptp \in [Workers -> Seq(Part)]
  /\ bcast \in [Workers -> Seq(Part)]
  /\ marker \in SUBSET Workers
  /\ command \in [Workers -> {"none", "sent", "queued"}]

WorkerTypeOK ==
  /\ phys \in [Workers -> [pc: {"start", "first", "more", "done", "fatal"},
                           missing: Nat]]
  /\ nonphys \in [Workers -> [pc: {"first", "more", "done"}, missing: Nat]]
  /\ evq \in [Workers -> Seq(Event)]
  /\ main \in [Workers -> Event]
  /\ analysed \in [Workers -> Seq(Item)]

\* The variables of the root, the channels and the workers keep the types of
\* their C++ counterparts: m_maxItems is never zero, nothing is sent past the
\* end of a block and no more than the missing bytes are received.
TypeOK == RootTypeOK /\ ChannelTypeOK /\ WorkerTypeOK

\* Where the one unit of work of worker w can be.
Delivering(w) == dest = w \/ ptp[w] # <<>> \/ phys[w].pc = "more"
Queued(w) == \E k \in DOMAIN evq[w] : evq[w][k].kind = "targeted"
Handling(w) == main[w].kind = "targeted"

\* Each worker has at most one request or block outstanding: RingItemEventHandler
\* asks for more only after the last block (Issue #148), so that blocks go to
\* idle workers and never pile up in one event queue.
OneOutstanding(w) ==
  /\ requests[w] <= 1
  /\ (requests[w] = 1 \/ phys[w].pc = "start") =>
       ~Delivering(w) /\ ~Queued(w) /\ ~Handling(w)
  /\ (requests[w] = 1) => (phys[w].pc # "start")
  /\ Delivering(w) => ~Queued(w) /\ ~Handling(w)
  /\ Queued(w) => ~Handling(w)
  /\ \A j, k \in DOMAIN evq[w] :
       (evq[w][j].kind = "targeted" /\ evq[w][k].kind = "targeted") => (j = k)

FlowControl == \A w \in Workers : OneOutstanding(w)

\* The root sends a block or a broadcast only while bytes of it are left.
RootProgress ==
  /\ buffer.bytes > 0
  /\ (rootPc = "send") <=> (dest # NoWorker)
  /\ (rootPc = "send") => (sent < BlockSize)
  /\ (rootPc = "broadcast") => (sent < pending.bytes)

\* The parts on their way to w are consecutive pieces of one block.
PartsFit(w) ==
  \A k \in DOMAIN ptp[w] :
    LET part == ptp[w][k]
    IN  /\ part.bytes > 0
        /\ part.offset + part.bytes <= part.total
        /\ (k + 1 \in DOMAIN ptp[w]) =>
             /\ ptp[w][k + 1].offset = part.offset + part.bytes
             /\ ptp[w][k + 1].total = part.total

\* The first of them is what physicsThread waits for: the start of a block, or
\* the piece after the bytes it has.
FrontMatches(w) ==
  (ptp[w] # <<>>) =>
    LET part == Head(ptp[w])
    IN  /\ (phys[w].pc = "first") => (part.offset = 0)
        /\ (phys[w].pc = "more") => (part.total - part.offset = phys[w].missing)

\* What is missing after the last of them is what the root still has to send.
BackMatches(w) ==
  /\ (ptp[w] # <<>>) =>
       LET part == ptp[w][Len(ptp[w])]
       IN  IF dest = w
           THEN part.total = BlockSize /\ part.offset + part.bytes = sent
           ELSE part.offset + part.bytes = part.total
  /\ (ptp[w] = <<>> /\ dest = w) =>
       /\ (phys[w].pc = "first") => (sent = 0)
       /\ (phys[w].pc = "more") => (phys[w].missing = BlockSize - sent)
  /\ (ptp[w] = <<>> /\ dest # w) => (phys[w].pc # "more")
  /\ (phys[w].pc = "more") => (phys[w].missing > 0)

\* The parts of a block reach physicsThread from its first byte on and without
\* a gap: the uint32_t it takes for the block's size is the block's size, and
\* transmitChunks and assembleTargetedData agree on the bytes still to come.
Framing ==
  /\ RootProgress
  /\ \A w \in Workers : PartsFit(w) /\ FrontMatches(w) /\ BackMatches(w)

\* Physics items in a worker: being delivered, queued, being handled, analysed.
PhysicsIds(s) == {s[k].id : k \in {j \in DOMAIN s : IsPhysics(s[j])}}
IdsAt(w) ==
  [delivering |-> IF dest = w THEN {}
                  ELSE UNION {PhysicsIds(ptp[w][k].items) : k \in DOMAIN ptp[w]},
   queued |-> UNION {PhysicsIds(evq[w][k].items) : k \in DOMAIN evq[w]},
   handling |-> PhysicsIds(main[w].items),
   analysed |-> PhysicsIds(analysed[w])]

\* No physics item is lost or analysed twice, whatever the interleaving: each
\* is in exactly one place, the root's buffer or one stage of one worker.
Places == {"delivering", "queued", "handling", "analysed"}
ExactlyOnce ==
  /\ \A i \in PhysicsIds(source) :
       \/ /\ i \in PhysicsIds(buffer.items)
          /\ \A w \in Workers, p \in Places : i \notin IdsAt(w)[p]
       \/ /\ i \notin PhysicsIds(buffer.items)
          /\ \E w \in Workers, p \in Places :
               /\ i \in IdsAt(w)[p]
               /\ \A v \in Workers, q \in Places :
                    (i \in IdsAt(v)[q]) => (v = w /\ q = p)
  /\ \A w \in Workers : \A j, k \in DOMAIN analysed[w] :
       (analysed[w][j].id = analysed[w][k].id) => (j = k)

\* When the root is back in its event loop the statistics its GUI shows are
\* those of the items it has distributed: EventsAnalyzedThisRun counts the
\* physics items of the current run, RunsAnalyzed the begin runs, and the run
\* state is Active inside a run (Issue #131, countPhysicsItems, updateStatistics).
StatisticsExact ==
  (rootPc \in {"idle", "exited"}) =>
    /\ stats.analyzed = Cardinality(PhysicsIds(source))
    /\ stats.thisRun = Cardinality({i \in PhysicsIds(source) :
                                      source[i].run = CurrentRun})
    /\ stats.runs = CurrentRun
    /\ (stats.state = "Active") <=> RunActive

Exiting == \E w \in Workers : command[w] # "none"

\* The root never waits for ever for a request or a broadcast: it returns to its
\* event loop, because a worker that is not asking has a block to work on.
RootReturns == (rootPc # "idle") ~> (rootPc = "idle" \/ Exiting)

\* The workers never stay behind: every physics item that has left the root's
\* buffer is analysed by some worker and every other item by all of them.
CaughtUp ==
  /\ PhysicsIds(source) \ PhysicsIds(buffer.items)
       \subseteq UNION {PhysicsIds(analysed[w]) : w \in Workers}
  /\ \A w \in Workers : \A n \in DOMAIN source :
       Broadcast(source[n]) => \E k \in DOMAIN analysed[w] : analysed[w][k].id = n
WorkersCatchUp == ~CaughtUp ~> (CaughtUp \/ Exiting)

\* Once the user exits, the special messages stop both pump threads of every
\* worker, as MPI_Finalize needs.
PumpThreadsStop ==
  Exiting ~> \A w \in Workers : phys[w].pc = "done" /\ nonphys[w].pc = "done"
---------------------------------------------------------------------------
(* The pump implements WorkDistribution. *)

\* The physics items dealt to worker w and not yet analysed.
TargetedEvents(w) == {k \in DOMAIN evq[w] : evq[w][k].kind = "targeted"}
BlockOf(w) ==
  CASE dest = w -> buffer.items
    [] dest # w /\ ptp[w] # <<>> -> Head(ptp[w]).items
    [] dest # w /\ ptp[w] = <<>> /\ TargetedEvents(w) # {} ->
         evq[w][CHOOSE k \in TargetedEvents(w) : TRUE].items
    [] dest # w /\ ptp[w] = <<>> /\ Handling(w) -> main[w].items
    [] OTHER -> <<>>

WD == INSTANCE WorkDistribution WITH
        Items <- Item,
        offered <- source,
        waiting <- IF rootPc = "send" THEN <<>> ELSE buffer.items,
        block <- [w \in Workers |-> BlockOf(w)],
        log <- analysed

\* Whatever the order of requests, parts, broadcasts and events, a worker is
\* dealt a block only when it is idle, analyses each item of it once and in
\* order, and hears the other items in order and after the flush before them.
Distribution == WD!Spec
=============================================================================
