------------------------------ MODULE Analyzer ------------------------------
(***************************************************************************)
(* The analysis of physics items: CAnalyzer::OnPhysics (Core/Analyzer.cpp  *)
(* and Analyzer.h) with its event list and event pool, CTclAnalyzer's      *)
(* OnEvent (Core/TCLAnalyzer.cpp), which runs the current pipeline of the  *)
(* pipeline manager (module PipelineManager), and HistogramEvents          *)
(* (Core/EventMessage.cpp), which hands the list to the event sinks.       *)
(*                                                                         *)
(* The processors of a pipeline are user code.  They may accept an event,  *)
(* reject it, or throw; they tell the analyzer the size of the event, and  *)
(* that an entity of the item holds more events (a super event).  Events   *)
(* are objects that travel between the list and the pool; what they hold   *)
(* is the number of the OnEvent call that filled them.                     *)
(***************************************************************************)
EXTENDS PipelineManager, FiniteSetsExt

CONSTANTS
  Threshold,    \* m_nEventThreshold, the user's EventListSize
  Sizes,        \* sizes of events
  Bodies,       \* sizes of the bodies of items
  MaxEntities,  \* bound on the entities of an item
  MaxItems,     \* bound on the number of items
  MaxParts      \* bound on the events that are not the last of their super event

ASSUME AnalyzerAssumption ==
  /\ Processors # {} /\ MaxLength > 0
  /\ Threshold \in Nat \ {0} /\ Sizes \subseteq Nat /\ Bodies \subseteq Nat
  /\ MaxEntities \in Nat \ {0} /\ MaxItems \in Nat /\ MaxParts \in Nat

VARIABLES
  mpi,         \* isMpiApp(): the list goes to the parameter pump, not to the sinks
  physics,     \* the locals of OnPhysics
  eventSize,   \* m_nEventSize, which the constructor does not set
  partial,     \* m_fPartialEntity
  list,        \* m_EventList: an event in each slot, or NoEvent
  pool,        \* m_EventPool
  live,        \* the events that are allocated
  content,     \* what an event holds
  fault,       \* what the program did to its memory, or "none"
  \* history
  items, parts, calls,  \* how many items, super event parts and OnEvent calls there were
  accepted,    \* the calls whose events were accepted, in order
  histogrammed, \* the events that went to the sinks, in order
  lost,        \* accepted events that left the list without being histogrammed
  leaked,      \* the event objects whose slot was taken by another
  cut          \* did an exception end an item that had events in the list?

analyzerVars == <<mpi, physics, eventSize, partial, list, pool, live, content, fault>>
counts == <<items, parts, calls>>
history == <<accepted, histogrammed, lost, leaked, cut>>
vars == <<managerVars, analyzerVars, counts, history>>

---------------------------------------------------------------------------
(* Helpers *)

NoEvent == 0
Slots == 1 .. Threshold
MaxCalls == MaxItems * MaxEntities + MaxParts
Idle == [pc |-> "idle", entities |-> 0, body |-> 0, offset |-> 0, number |-> 0, size |-> 0]

\* The events of a list, and those in front of its first empty slot, where
\* CHistogrammer stops.
Stored(l) == FlattenSeq([k \in DOMAIN l |-> IF l[k] = NoEvent THEN <<>> ELSE <<l[k]>>])
Leader(l) == SubSeq(l, 1, Cardinality({k \in DOMAIN l : NoEvent \notin ToSet(SubSeq(l, 1, k))}))
Contents(l) == [k \in DOMAIN l |-> content[l[k]]]

\* CreateEvent: the last event of the pool, or a new one at a free address
FreeAddress == CHOOSE e \in (1 .. Cardinality(live) + 1) \ live : TRUE
Created == IF pool = <<>> THEN FreeAddress ELSE Last(pool)
RestOfPool == IF pool = <<>> THEN pool ELSE Front(pool)

---------------------------------------------------------------------------
(* OnPhysics *)

\* A physics item, whose body size the decoder knows; nEventSize is not initialised.
OnPhysics(entities, body) ==
  /\ physics.pc = "idle" /\ items < MaxItems
  /\ items' = items + 1
  /\ \E size \in Sizes :
       physics' = [pc |-> "loop", entities |-> entities, body |-> body, offset |-> 0,
                   number |-> 0, size |-> size]
  /\ UNCHANGED <<managerVars, mpi, eventSize, partial, list, pool, live, content, fault,
                 parts, calls, history>>

\* m_fPartialEntity is reset for each event; entityNotDone sets it.
EntityNotDone(more) == partial' = more

\* CTclAnalyzer::OnEvent: the processors of the current pipeline run until one does not
\* accept the event.  They may leave the size as it is, or may not have come to set it.
OnEvent(size, more) ==
  /\ physics.pc = "loop" /\ physics.entities > 0 /\ physics.offset < physics.body
  /\ calls < MaxCalls /\ calls' = calls + 1
  /\ size \in Sizes \cup {eventSize} /\ eventSize' = size
  /\ more => parts < MaxParts
  /\ parts' = IF more THEN parts + 1 ELSE parts
  /\ Current = <<>> => size = eventSize /\ ~more
  /\ EntityNotDone(more)
  /\ UNCHANGED <<managerVars, mpi, items>>

\* variant: the list is flushed when it overflows
NextEventLate(number, size) ==
  physics' = [physics EXCEPT
    !.pc = IF number > Threshold THEN "flush" ELSE "loop",
    !.entities = IF partial' THEN @ ELSE @ - 1,
    !.offset = @ + size, !.size = size, !.number = number]
\* The end of the loop's body: a full list is flushed next.
NextEvent(number, size) ==
  physics' = [physics EXCEPT
    !.pc = IF number >= Threshold THEN "flush" ELSE "loop",
    !.entities = IF partial' THEN @ ELSE @ - 1,
    !.offset = @ + size, !.size = size, !.number = number]

\* An event of size zero that is no part of a super event is an error, and the event is
\* deleted although the list or the pool has it.
SizeChecked(number, size) ==
  IF size = 0 /\ ~partial'
  THEN fault' = "deleted" /\ physics' = Idle
  ELSE UNCHANGED fault /\ NextEvent(number, size)

\* All processors accept the event: it takes the next slot of the list.
AcceptEvent(size, more) ==
  LET slot == physics.number + 1
  IN /\ OnEvent(size, more)
     /\ list' = [list EXCEPT ![slot] = Created]
     /\ content' = [content EXCEPT ![Created] = calls']
     /\ lost' = lost \cup ToSet(Contents(Stored(<<list[slot]>>)))
     /\ leaked' = leaked \cup ToSet(Stored(<<list[slot]>>))
     /\ pool' = RestOfPool /\ live' = live \cup {Created}
     /\ accepted' = Append(accepted, calls')
     /\ SizeChecked(slot, size)
     /\ UNCHANGED <<histogrammed, cut>>

\* variant: the event is forgotten (bug 144)
RejectEventForgotten(size, more) ==
  /\ OnEvent(size, more) /\ Current # <<>>
  /\ content' = [content EXCEPT ![Created] = calls']
  /\ pool' = RestOfPool /\ live' = live \cup {Created}
  /\ SizeChecked(physics.number, size)
  /\ UNCHANGED <<list, history>>
\* A processor rejects the event or throws what OnEvent catches: AbortEvent, and the
\* event returns to the pool.
RejectEvent(size, more) ==
  /\ OnEvent(size, more) /\ Current # <<>>
  /\ content' = [content EXCEPT ![Created] = calls']
  /\ pool' = Append(RestOfPool, Created) /\ live' = live \cup {Created}
  /\ SizeChecked(physics.number, size)
  /\ UNCHANGED <<list, history>>

\* A processor throws a CEventFormatError that knows the size of the event: the event is
\* deleted and the loop goes on with the size of the event before.
FormatError(size, more) ==
  /\ OnEvent(size, more) /\ Current # <<>>
  /\ pool' = RestOfPool /\ live' = live \ {Created}
  /\ NextEvent(physics.number, physics.size)
  /\ UNCHANGED <<list, content, fault, history>>

\* Any other CException: the event is deleted and the item is left with the list as it is.
EventThrows(size, more) ==
  /\ OnEvent(size, more) /\ Current # <<>>
  /\ pool' = RestOfPool /\ live' = live \ {Created}
  /\ physics' = Idle
  /\ cut' = (cut \/ Stored(list) # <<>>)
  /\ UNCHANGED <<list, content, fault, accepted, histogrammed, lost, leaked>>

\* variant: the events stay in the list
ClearEventListForgotten == UNCHANGED <<list, pool>>
\* ClearEventList
ClearEventList ==
  /\ pool' = pool \o Stored(list)
  /\ list' = [k \in Slots |-> NoEvent]

\* HistogramEvents: each sink gets the events up to the first empty slot; a worker of
\* mpiSpecTcl takes every slot for an event.  A sink that throws makes OnPhysics delete its
\* last event, which the list or the pool has.
HistogramEvents(after) ==
  \/ /\ mpi /\ Stored(list) # list
     /\ fault' = "null" /\ physics' = Idle
     /\ UNCHANGED <<list, pool, histogrammed>>
  \/ /\ mpi => Stored(list) = list
     /\ histogrammed' = histogrammed \o Contents(Leader(list))
     /\ ClearEventList
     /\ physics' = after
     /\ UNCHANGED fault
  \/ /\ ~mpi
     /\ histogrammed' = histogrammed \o Contents(Leader(list))
     /\ fault' = "deleted" /\ physics' = Idle
     /\ UNCHANGED <<list, pool>>

Flush ==
  /\ physics.pc = "flush"
  /\ HistogramEvents([physics EXCEPT !.pc = "loop", !.number = 0])
  /\ UNCHANGED <<managerVars, mpi, eventSize, partial, live, content, counts, accepted, lost,
                 leaked, cut>>

\* The loop ends, or the offset is past the body: the rest of the list is flushed.  For an
\* empty body the list is cleared, with what an exception left in it.
OffTheEnd == physics.entities > 0 /\ physics.offset >= physics.body
NoBody == physics.body = 0 /\ physics.offset = 0
EndPhysics ==
  /\ physics.pc = "loop" /\ (physics.entities = 0 \/ OffTheEnd)
  /\ \/ /\ IF OffTheEnd THEN ~NoBody ELSE physics.number > 0
        /\ HistogramEvents(Idle)
        /\ UNCHANGED lost
     \/ /\ OffTheEnd /\ NoBody
        /\ lost' = lost \cup ToSet(Contents(Stored(list)))
        /\ ClearEventList /\ physics' = Idle /\ UNCHANGED <<histogrammed, fault>>
     \/ /\ ~OffTheEnd /\ physics.number = 0
        /\ physics' = Idle /\ UNCHANGED <<list, pool, histogrammed, fault, lost>>
  /\ UNCHANGED <<managerVars, mpi, eventSize, partial, live, content, counts, accepted,
                 leaked, cut>>

---------------------------------------------------------------------------
First == CHOOSE e \in Processors : TRUE
\* A program that starts has registered its processors and put one into its pipelines.
Init ==
  /\ processors = Processors /\ current = Default /\ commands = 0
  /\ stray = [e \in Processors |-> 0]
  /\ \E names \in {{Default}, PipelineNames} : pipelines = [p \in names |-> <<First>>]
  /\ attached = [e \in Processors |-> Occurrences(e, Current)]
  /\ mpi \in BOOLEAN /\ physics = Idle /\ eventSize \in Sizes /\ partial = FALSE
  /\ list = [k \in Slots |-> NoEvent] /\ pool = <<>> /\ live = {}
  /\ content = [k \in 1 .. MaxCalls |-> 0] /\ fault = "none"
  /\ items = 0 /\ parts = 0 /\ calls = 0
  /\ accepted = <<>> /\ histogrammed = <<>> /\ lost = {} /\ leaked = {}
  /\ cut = FALSE

\* Commands run in the event loop, which OnPhysics has returned to.
Manage ==
  /\ physics.pc = "idle" /\ ManagerNext
  /\ UNCHANGED <<analyzerVars, counts, history>>

PhysicsStep ==
  \/ \E size \in Sizes, more \in BOOLEAN :
       \/ AcceptEvent(size, more) \/ RejectEvent(size, more)
       \/ FormatError(size, more) \/ EventThrows(size, more)
  \/ Flush \/ EndPhysics

\* Nothing is said of a program that has spoilt its memory.
Next ==
  /\ fault = "none"
  /\ \/ \E entities \in 1 .. MaxEntities, body \in Bodies : OnPhysics(entities, body)
     \/ PhysicsStep
     \/ Manage

Spec == Init /\ [][Next]_vars

---------------------------------------------------------------------------
(* Properties *)

\* The values of the variables; while there are events to unpack the list has a free slot.
TypeOK ==
  /\ ManagerTypeOK
  /\ physics \in [pc : {"idle", "loop", "flush"}, entities : 0 .. MaxEntities, body : Bodies \cup {0},
                  offset : Nat, number : 0 .. Threshold, size : Sizes \cup {0}]
  /\ physics.number = Threshold <=> physics.pc = "flush"
  /\ eventSize \in Sizes /\ partial \in BOOLEAN /\ fault \in {"none", "deleted", "null"}
  /\ list \in [Slots -> {NoEvent} \cup 1 .. MaxCalls]
  /\ pool \in Seq(1 .. MaxCalls) /\ live \subseteq 1 .. MaxCalls
  /\ ToSet(accepted) \subseteq 1 .. calls /\ ToSet(histogrammed) \subseteq 1 .. calls

\* An allocated event is in the list or in the pool, once, or its slot was taken by another
\* event after an exception; the list and the pool hold no event that was deleted.
Held == Stored(list) \o pool
EventsOwned ==
  fault = "none" =>
    /\ IsInjective(Held) /\ ToSet(Held) \cap leaked = {}
    /\ live = ToSet(Held) \cup leaked

\* Each accepted event goes to the sinks once: it was histogrammed, is in the list or was
\* lost by an exception.  Without exceptions the order is kept and the list is empty
\* between items.
HistogrammedOnce ==
  fault = "none" =>
    /\ IsInjective(histogrammed \o Contents(Stored(list)))
    /\ ToSet(accepted) = ToSet(histogrammed) \cup ToSet(Contents(Stored(list))) \cup lost
    /\ (ToSet(histogrammed) \cup ToSet(Contents(Stored(list)))) \cap lost = {}
    /\ ~cut => /\ IsPrefix(histogrammed, accepted) /\ lost = {}
               /\ physics.pc = "idle" => histogrammed = accepted
=============================================================================
