--------------------------- MODULE EventMessage ---------------------------
(***************************************************************************)
(* The parameter pump of mpiSpecTcl (Core/EventMessage.cpp): how the       *)
(* events the workers unpacked and the run state changes reach the event   *)
(* sink process, and how the pumps in that process are stopped by          *)
(* MpiExitHandler (Core/TclGrammerApp.cpp).                                *)
(*                                                                         *)
(* A worker gathers events in a batch (accumulatedSizes, accumulatedEvents,*)
(* vectorNames, vectorMappings).  A full batch is sent as five messages.   *)
(* The sink's EventPumpThread takes the first message of a batch from any  *)
(* rank and the other four from the same one, and queues the batch to the  *)
(* main thread, which rebuilds each event and gives it to the event sink   *)
(* pipeline.  State changes travel on a tag and a thread of their own.     *)
(***************************************************************************)
EXTENDS Integers, Sequences, FiniteSets, SequencesExt

CONSTANTS
  Workers,      \* worker ranks
  Root, Sink,   \* MPI_ROOT_RANK and MPI_EVENT_SINK_RANK
  Shapes,       \* the parameters and vectors of the events, in turn
  NumVectors,   \* CTreeParameterVector::numVectors(), the same in all processes
  BatchSize,    \* BATCH_SIZE, scaled down
  MaxEvents,    \* bound on the events the workers unpack
  MaxRuns,      \* bound on the runs that begin
  MayExit       \* TRUE if the user may exit the program

Processes == Workers \cup {Root, Sink}

ASSUME ProcessesAssumption ==
  Workers # {} /\ Root # Sink /\ Root \notin Workers /\ Sink \notin Workers
ASSUME DataAssumption ==
  /\ NumVectors \in Nat
  /\ Shapes # <<>>
  /\ Shapes \in Seq([params : Seq(Nat) \ {<<>>}, vectors : Seq(Seq(Nat))])
  /\ \A k \in DOMAIN Shapes : Len(Shapes[k].vectors) = NumVectors
ASSUME BoundsAssumption ==
  BatchSize \in Nat \ {0} /\ {MaxEvents, MaxRuns} \subseteq Nat /\ MayExit \in BOOLEAN

VARIABLES
  unpacked,   \* the events dealt to the workers, in that order (history)
  run,        \* number of the last run that began and whether it has ended
  todo,       \* items the ring item pump has dealt to each worker
  changes,    \* state change items each worker has still to handle
  batch,      \* the accumulated events of each process
  outbox,     \* the MPI_Sends the main thread of each process has to make
  events,     \* EVENT_TAG messages on their way from each process
  states,     \* MPI_STATE_CHANGE_TAG messages on their way from each process
  pumping,    \* the flag that keeps EventPumpThread running
  pump,       \* EventPumpThread
  statePump,  \* StateChangePump
  sinkq,      \* the Tcl event queue of the sink's main thread
  command,    \* the "exit" command in each process
  hist,       \* events the event sink pipeline was given (history)
  notified    \* its OnBegin and OnEnd calls (history)

dataVars == <<unpacked, run, todo, changes>>
sinkVars == <<pumping, pump, statePump, sinkq, hist, notified>>
vars == <<dataVars, batch, outbox, events, states, command, sinkVars>>

---------------------------------------------------------------------------
(* Messages *)

Total(s) ==
  LET sum[k \in 0 .. Len(s)] == IF k = 0 THEN 0 ELSE sum[k - 1] + s[k]
  IN  sum[Len(s)]

\* A state change: run number and s_isBegin.  StopRun is the run number
\* stopStateChangePump sends.
StopRun == -1
Change(r, begin) == [kind |-> "state", data |-> <<r, IF begin THEN 1 ELSE 0>>]

\* The five messages of a batch (SendEventToHistogramer fills the arrays,
\* flushEventsToHistogrammer sends them).  The value of a parameter is the
\* event's id: what the histogrammer does with it is not modelled.
Pairs(e) == [k \in DOMAIN e.params |-> [number |-> e.params[k], value |-> e.id]]
BatchMessages(b) ==
  << [kind |-> "count", data |-> <<Len(b)>>],
     [kind |-> "sizes", data |-> [k \in DOMAIN b |-> Len(b[k].params)]],
     [kind |-> "params", data |-> FlattenSeq([k \in DOMAIN b |-> Pairs(b[k])])],
     [kind |-> "names",
      data |-> FlattenSeq([k \in DOMAIN b |->
                 [v \in 1 .. NumVectors |-> Len(b[k].vectors[v])]])],
     [kind |-> "maps",
      data |-> FlattenSeq([k \in DOMAIN b |-> FlattenSeq(b[k].vectors)])] >>
NumMessages == 5

\* flushEventsToHistogrammer: nothing is sent of an empty batch.
FlushMessages(b) == IF b = <<>> THEN <<>> ELSE BatchMessages(b)

\* The elements the next MPI_Recv of a batch has room for, from the messages
\* received so far.
RoomFor(got) ==
  CASE Len(got) = 0 -> 1
    [] Len(got) = 1 -> got[1].data[1]
    [] Len(got) = 2 -> Total(got[2].data)
    [] Len(got) = 3 -> got[1].data[1] * NumVectors
    [] OTHER -> Total(got[4].data)

\* The n-th of consecutive pieces of s whose lengths are `sizes'.
PieceFromStart(s, sizes, n) == SubSeq(s, 1, sizes[n])  \* variant: index not kept
Piece(s, sizes, n) ==
  LET start == Total(SubSeq(sizes, 1, n - 1))
  IN  SubSeq(s, start + 1, start + sizes[n])

\* MPIReceiveEvent and reconstructVectors: the events of a received batch.
Reconstruct(got) ==
  [n \in 1 .. got[1].data[1] |->
     [params |-> Piece(got[3].data, got[2].data, n),
      vectors |-> [v \in 1 .. NumVectors |->
                     Piece(got[5].data, got[4].data, (n - 1) * NumVectors + v)]]]

---------------------------------------------------------------------------
(* Senders *)

\* flushEventsToHistogrammer clears what it has sent.
ClearForgotten(b) == b                                 \* variant: not cleared
Clear(b) == <<>>

BatchFullLate(b) == Len(b) > BatchSize                 \* variant: off by one
BatchFull(b) == Len(b) = BatchSize

\* SendEventToHistogramer
SendEvent(p, e) ==
  LET b == Append(batch[p], e)
  IN  IF BatchFull(b)
      THEN /\ outbox' = [outbox EXCEPT ![p] = FlushMessages(b)]
           /\ batch' = [batch EXCEPT ![p] = Clear(b)]
      ELSE /\ batch' = [batch EXCEPT ![p] = b]
           /\ UNCHANGED outbox

\* MPISendStateChange: flush the events accumulated in this process first.
SendStateChange(p, c) ==
  /\ outbox' = [outbox EXCEPT ![p] = FlushMessages(batch[p]) \o <<c>>]
  /\ batch' = [batch EXCEPT ![p] = Clear(batch[p])]

\* A main thread that is not inside a handler.
Ready(p) == outbox[p] = <<>> /\ command[p] # "done"

\* The next MPI_Send of a main thread.
SendMessage(p) ==
  /\ outbox[p] # <<>>
  /\ LET m == Head(outbox[p])
     IN  IF m.kind = "state"
         THEN states' = [states EXCEPT ![p] = Append(@, m)] /\ UNCHANGED events
         ELSE events' = [events EXCEPT ![p] = Append(@, m)] /\ UNCHANGED states
  /\ outbox' = [outbox EXCEPT ![p] = Tail(@)]
  /\ UNCHANGED <<dataVars, batch, command, sinkVars>>

\* dispatchEvent in the root: a BEGIN_RUN or END_RUN item is broadcast to the
\* workers and then sent to the sink.
RootStateChange ==
  /\ Ready(Root)
  /\ run.ended => run.number < MaxRuns
  /\ LET n == IF run.ended THEN run.number + 1 ELSE run.number
     IN  /\ run' = [number |-> n, ended |-> ~run.ended]
         /\ changes' = [w \in Workers |-> Append(changes[w], Change(n, run.ended))]
         /\ SendStateChange(Root, Change(n, run.ended))
  /\ UNCHANGED <<unpacked, todo, events, states, command, sinkVars>>

\* The ring item pump deals a physics item of the run to an idle worker.
Deal(w) ==
  /\ Ready(Root)
  /\ ~run.ended
  /\ Len(unpacked) < MaxEvents
  /\ todo[w] = <<>>
  /\ LET n == Len(unpacked)
         s == Shapes[(n % Len(Shapes)) + 1]
         e == [id |-> n + 1, run |-> run.number, worker |-> w,
               params |-> s.params, vectors |-> s.vectors]
     IN  /\ unpacked' = Append(unpacked, e)
         /\ todo' = [todo EXCEPT ![w] = <<e>>]
  /\ UNCHANGED <<run, changes, batch, outbox, events, states, command, sinkVars>>

\* A worker's main thread unpacks a physics item: MPIHistogramEvents.
HistogramEvents(w) ==
  /\ Ready(w)
  /\ todo[w] # <<>>
  /\ SendEvent(w, Head(todo[w]))
  /\ todo' = [todo EXCEPT ![w] = Tail(@)]
  /\ UNCHANGED <<unpacked, run, changes, events, states, command, sinkVars>>

\* dispatchEvent of a state change item in a worker, BeginRun or EndRun.  Nothing
\* orders it with the physics items, which another pump thread receives.
WorkerStateChange(w) ==
  /\ Ready(w)
  /\ changes[w] # <<>>
  /\ SendStateChange(w, Head(changes[w]))
  /\ changes' = [changes EXCEPT ![w] = Tail(@)]
  /\ UNCHANGED <<unpacked, run, todo, events, states, command, sinkVars>>

---------------------------------------------------------------------------
(* The sink *)

QueueAtHead(e) == <<e>> \o sinkq                       \* variant: TCL_QUEUE_HEAD
QueueEvent(e) == Append(sinkq, e)

\* EventPumpThread looks at the flag before each batch.
PumpTest ==
  /\ pump.pc = "test"
  /\ pump' = [pump EXCEPT !.pc = IF pumping THEN "receive" ELSE "done"]
  /\ UNCHANGED <<dataVars, batch, outbox, events, states, command, pumping,
                 statePump, sinkq, hist, notified>>

\* MPI_ANY_SOURCE for the first message of a batch, its sender for the others
AnySource(got) == Processes                            \* variant: for all of them
RootSource(got) == IF got = <<>> THEN {Root} ELSE {pump.from}
                                                       \* variant: from the root only
Sources(got) == IF got = <<>> THEN Processes ELSE {pump.from}

\* One MPI_Recv of MPIReceiveEvent.  A message with more elements than there is
\* room for is an MPI error, which aborts the program.
PumpReceive ==
  /\ pump.pc = "receive"
  /\ \E p \in Sources(pump.got) :
       /\ events[p] # <<>>
       /\ LET m == Head(events[p])
              got == Append(pump.got, m)
          IN  IF Len(m.data) > RoomFor(pump.got)
              THEN /\ pump' = [pump EXCEPT !.pc = "fatal"]
                   /\ UNCHANGED sinkq
              ELSE IF Len(got) < NumMessages
              THEN /\ pump' = [pc |-> "receive", from |-> p, got |-> got]
                   /\ UNCHANGED sinkq
              ELSE /\ pump' = [pc |-> "test", from |-> Sink, got |-> <<>>]
                   /\ sinkq' = QueueEvent([kind |-> "events", data |-> got])
       /\ events' = [events EXCEPT ![p] = Tail(@)]
  /\ UNCHANGED <<dataVars, batch, outbox, states, command, pumping, statePump,
                 hist, notified>>

\* Is this the message that stops StateChangePump?
NeverStop(m) == FALSE                                  \* variant: not looked at
IsStop(m) == m.data[1] = StopRun

\* StateChangePump receives from the root only.
StatePumpReceive ==
  /\ statePump = "running"
  /\ states[Root] # <<>>
  /\ LET m == Head(states[Root])
     IN  IF IsStop(m) THEN statePump' = "done" /\ UNCHANGED sinkq
                      ELSE sinkq' = QueueEvent(m) /\ UNCHANGED statePump
  /\ states' = [states EXCEPT ![Root] = Tail(@)]
  /\ UNCHANGED <<dataVars, batch, outbox, events, command, pumping, pump, hist,
                 notified>>

\* The command pump queues the exit command.
ReceiveExit ==
  /\ command[Sink] = "sent"
  /\ command' = [command EXCEPT ![Sink] = "queued"]
  /\ sinkq' = QueueEvent([kind |-> "exit", data |-> <<>>])
  /\ UNCHANGED <<dataVars, batch, outbox, events, states, pumping, pump,
                 statePump, hist, notified>>

\* stopHistogramPump: the event that makes EventPumpThread look at the flag again
FakeEvent == [id |-> 0, run |-> 0, worker |-> Sink, params |-> <<>>,
              vectors |-> [v \in 1 .. NumVectors |-> <<>>]]
StopMessagesBatched == <<>>                            \* variant: no flush
StopMessages == BatchMessages(<<FakeEvent>>)

\* The sink's main thread handles an event: EventEventHandler,
\* StateChangeEventHandler or MpiExitHandler.
HandleEvent ==
  /\ command[Sink] # "done"
  /\ sinkq # <<>>
  /\ LET e == Head(sinkq)
     IN  CASE e.kind = "events" ->
                /\ hist' = hist \o Reconstruct(e.data)
                /\ UNCHANGED <<notified, pumping, outbox, command>>
           [] e.kind = "state" ->
                /\ notified' = Append(notified, e)
                /\ UNCHANGED <<hist, pumping, outbox, command>>
           [] e.kind = "exit" ->
                /\ pumping' = FALSE
                /\ outbox' = [outbox EXCEPT ![Sink] = StopMessages]
                /\ command' = [command EXCEPT ![Sink] = "done"]
                /\ UNCHANGED <<hist, notified>>
  /\ sinkq' = Tail(sinkq)
  /\ UNCHANGED <<dataVars, batch, events, states, pump, statePump>>

---------------------------------------------------------------------------
(* Exit *)

\* MpiExitHandler in the root: broadcast the exit command, then
\* stopStateChangePump, a begin run with an impossible run number.
RootExit ==
  /\ MayExit
  /\ Ready(Root)
  /\ command' = [p \in Processes |-> IF p = Root THEN "done" ELSE "sent"]
  /\ SendStateChange(Root, Change(StopRun, TRUE))
  /\ UNCHANGED <<dataVars, events, states, sinkVars>>

\* A worker handles no event after the exit command.
WorkerExit(w) ==
  /\ command[w] = "sent"
  /\ Ready(w)
  /\ command' = [command EXCEPT ![w] = "done"]
  /\ UNCHANGED <<dataVars, batch, outbox, events, states, sinkVars>>

---------------------------------------------------------------------------
Init ==
  /\ unpacked = <<>>
  /\ run = [number |-> 0, ended |-> TRUE]
  /\ todo = [w \in Workers |-> <<>>]
  /\ changes = [w \in Workers |-> <<>>]
  /\ batch = [p \in Processes |-> <<>>]
  /\ outbox = [p \in Processes |-> <<>>]
  /\ events = [p \in Processes |-> <<>>]
  /\ states = [p \in Processes |-> <<>>]
  /\ pumping = TRUE
  /\ pump = [pc |-> "test", from |-> Sink, got |-> <<>>]
  /\ statePump = "running"
  /\ sinkq = <<>>
  /\ command = [p \in Processes |-> "none"]
  /\ hist = <<>>
  /\ notified = <<>>

WorkerMain(w) == HistogramEvents(w) \/ WorkerStateChange(w) \/ WorkerExit(w)
Pump == PumpTest \/ PumpReceive

Next ==
  \/ RootStateChange
  \/ RootExit
  \/ \E w \in Workers : Deal(w) \/ WorkerMain(w)
  \/ \E p \in Processes : SendMessage(p)
  \/ Pump
  \/ StatePumpReceive
  \/ ReceiveExit
  \/ HandleEvent

Spec == Init /\ [][Next]_vars

\* Every thread that can run is run in the end; nothing is assumed of the data
\* or of the user.
FairSpec ==
  /\ Spec
  /\ \A w \in Workers : WF_vars(WorkerMain(w))
  /\ \A p \in Processes : WF_vars(SendMessage(p))
  /\ WF_vars(Pump) /\ WF_vars(StatePumpReceive)
  /\ WF_vars(ReceiveExit) /\ WF_vars(HandleEvent)

---------------------------------------------------------------------------
(* Properties *)

Pc == {"test", "receive", "done", "fatal"}
BatchKinds == <<"count", "sizes", "params", "names", "maps">>

\* What EventPumpThread holds is the beginning of one batch of one rank, each
\* message as long as the MPI_Recv posted for it; MPI never has to abort.
BatchesWhole ==
  /\ pump.pc \in Pc \ {"fatal"}
  /\ Len(pump.got) < NumMessages
  /\ \A k \in DOMAIN pump.got :
       /\ pump.got[k].kind = BatchKinds[k]
       /\ Len(pump.got[k].data) = RoomFor(SubSeq(pump.got, 1, k - 1))
  /\ (pump.got # <<>> /\ events[pump.from] # <<>>) =>
       Head(events[pump.from]).kind = BatchKinds[Len(pump.got) + 1]

\* The ids of events whose parameters are in these messages
Carried(ms) ==
  UNION {{ms[k].data[j].value : j \in DOMAIN ms[k].data} :
           k \in {l \in DOMAIN ms : ms[l].kind = "params"}}
Ids(s) == {s[k].id : k \in DOMAIN s}
HistIds == [k \in DOMAIN hist |->
              IF hist[k].params = <<>> THEN 0 ELSE hist[k].params[1].value]

Places(w) ==
  [todo |-> Ids(todo[w]),
   batch |-> Ids(batch[w]),
   outbox |-> Carried(outbox[w]),
   events |-> Carried(events[w]),
   pump |-> IF pump.from = w THEN Carried(pump.got) ELSE {}]

\* No event is lost and none is histogrammed twice, whatever batches meet in the
\* pump: each is in one place of the worker it was dealt to, in one batch queued
\* in the sink or once among the events the event sink pipeline was given.
EventsKept ==
  \A i \in DOMAIN unpacked :
    LET where == {p \in Workers \X {"todo", "batch", "outbox", "events", "pump"} :
                    i \in Places(p[1])[p[2]]}
        queued == {k \in DOMAIN sinkq : sinkq[k].kind = "events" /\ i \in Carried(sinkq[k].data)}
        given == {k \in DOMAIN hist : HistIds[k] = i}
    IN  /\ Cardinality(where) + Cardinality(queued) + Cardinality(given) = 1
        /\ \A p \in where : p[1] = unpacked[i].worker

\* The pipeline is given the events the workers unpacked: every parameter and
\* every vector, none of another event.
EventsRebuilt ==
  \A k \in DOMAIN hist :
    (HistIds[k] # 0) =>
      LET e == unpacked[HistIds[k]]
      IN  hist[k] = [params |-> Pairs(e), vectors |-> e.vectors]

\* One worker's events are histogrammed in the order it unpacked them.
WorkerOrder ==
  \A j, k \in DOMAIN hist :
    LET i == HistIds[j]
        l == HistIds[k]
    IN  (j < k /\ i # 0 /\ l # 0 /\ unpacked[i].worker = unpacked[l].worker) => (i < l)

\* OnBegin and OnEnd are called for the runs the root has begun and ended, each
\* once and in order, and never for the message that stops the pump.
ChangesInOrder ==
  \A k \in DOMAIN notified :
    /\ notified[k] = Change((k + 1) \div 2, k % 2 = 1)
    /\ k <= 2 * run.number

\* The variables keep their types; batches hold fewer than BATCH_SIZE events and
\* only those of the workers hold any.
TypeOK ==
  /\ run.number \in 0 .. MaxRuns /\ run.ended \in BOOLEAN
  /\ \A w \in Workers : Len(todo[w]) <= 1 /\ Len(batch[w]) < BatchSize
  /\ batch[Root] = <<>> /\ batch[Sink] = <<>>
  /\ \A p \in Processes : Len(outbox[p]) <= NumMessages + 1
  /\ pumping \in BOOLEAN
  /\ pump.pc \in Pc /\ pump.from \in Processes
  /\ statePump \in {"running", "done"}
  /\ command \in [Processes -> {"none", "sent", "queued", "done"}]

Exiting == command[Root] = "done"

\* An event that has left its worker's batch is histogrammed in the end.
Flushed(i) == i \in DOMAIN unpacked /\ \A w \in Workers : i \notin Ids(todo[w]) \cup Ids(batch[w])
Histogrammed(i) == \E k \in DOMAIN hist : HistIds[k] = i
FlushedArrive == \A i \in 1 .. MaxEvents : Flushed(i) ~> (Histogrammed(i) \/ Exiting)

\* Once the user exits, both pump threads of the sink end: neither stays blocked
\* in MPI when MPI_Finalize is called, and Tcl_JoinThread returns.
SinkPumpsStop == Exiting ~> (pump.pc = "done" /\ statePump = "done")
=============================================================================
