---------------------------- MODULE GatesProofs ----------------------------
(***************************************************************************)
(* The gate dictionaries agree when all that was sent has been handled, for *)
(* any number of workers, gates, commands and drawn gates.                  *)
(***************************************************************************)
EXTENDS Gates, FiniteSetTheorems, SequenceTheorems, TLAPS

---------------------------------------------------------------------------
(* What waits in a queue, and the commands among it                         *)

Elements(s) == {s[k] : k \in DOMAIN s}
Commands(s) == {e \in Elements(s) : e.kind = "command"}
CommandAlone(s) ==
  \A j, k \in DOMAIN s : (s[j].kind = "command" /\ s[k].kind = "command") => (j = k)

LEMMA AppendEvent ==
  ASSUME NEW S, NEW s \in Seq(S), NEW e \in S
  PROVE  /\ Append(s, e) \in Seq(S)
         /\ Elements(Append(s, e)) = Elements(s) \cup {e}
         /\ (e.kind # "command") =>
              /\ Commands(Append(s, e)) = Commands(s)
              /\ CommandAlone(s) => CommandAlone(Append(s, e))
         /\ (e.kind = "command") =>
              /\ Commands(Append(s, e)) = Commands(s) \cup {e}
              /\ (Commands(s) = {}) => CommandAlone(Append(s, e))
<1> DEFINE t == Append(s, e)
<1>1. /\ t \in Seq(S) /\ DOMAIN t = DOMAIN s \cup {Len(s) + 1}
      /\ Len(s) + 1 \notin DOMAIN s
      /\ \A k \in DOMAIN s : t[k] = s[k]
      /\ t[Len(s) + 1] = e
  OBVIOUS
<1> HIDE DEF t
<1>2. Elements(t) = Elements(s) \cup {e}
  BY <1>1 DEF Elements
<1>3. /\ (e.kind # "command") => (Commands(t) = Commands(s))
      /\ (e.kind = "command") => (Commands(t) = Commands(s) \cup {e})
  BY <1>2 DEF Commands
<1>4. ((e.kind # "command") /\ CommandAlone(s)) => CommandAlone(t)
  BY <1>1 DEF CommandAlone
<1>5. (Commands(s) = {}) => CommandAlone(t)
  <2> SUFFICES ASSUME Commands(s) = {}
               PROVE  CommandAlone(t)
    OBVIOUS
  <2>1. \A k \in DOMAIN s : s[k].kind # "command"
    BY DEF Commands, Elements
  <2> QED
    BY <1>1, <2>1 DEF CommandAlone
<1> QED
  BY <1>1, <1>2, <1>3, <1>4, <1>5 DEF t

LEMMA TailEvents ==
  ASSUME NEW S, NEW s \in Seq(S), s # <<>>
  PROVE  /\ Head(s) \in S /\ Tail(s) \in Seq(S) /\ Head(s) \in Elements(s)
         /\ Elements(Tail(s)) \subseteq Elements(s)
         /\ Elements(s) \subseteq Elements(Tail(s)) \cup {Head(s)}
         /\ CommandAlone(s) => CommandAlone(Tail(s))
         /\ (CommandAlone(s) /\ Head(s).kind = "command") => (Commands(Tail(s)) = {})
         /\ (Head(s).kind # "command") => (Commands(Tail(s)) = Commands(s))
<1> DEFINE t == Tail(s)
<1>1. /\ t \in Seq(S) /\ Head(s) = s[1] /\ 1 \in DOMAIN s /\ s[1] \in S
      /\ \A k \in DOMAIN t : k + 1 \in DOMAIN s /\ t[k] = s[k + 1] /\ k + 1 # 1
      /\ \A k \in DOMAIN s : k # 1 => (k - 1 \in DOMAIN t /\ t[k - 1] = s[k])
  OBVIOUS
<1>2. \A j, k \in DOMAIN t : (j + 1 = k + 1) => (j = k)
  <2>1. DOMAIN t \subseteq Int
    BY <1>1
  <2> QED
    BY <2>1
<1> HIDE DEF t
<1>3. /\ Elements(t) \subseteq Elements(s) /\ Head(s) \in Elements(s)
      /\ Elements(s) \subseteq Elements(t) \cup {Head(s)}
  <2>1. Elements(t) \subseteq Elements(s)
    BY <1>1 DEF Elements
  <2>2. Head(s) \in Elements(s)
    BY <1>1 DEF Elements
  <2>3. ASSUME NEW k \in DOMAIN s
        PROVE  s[k] \in Elements(t) \cup {Head(s)}
    <3>1. CASE k = 1
      BY <1>1, <3>1
    <3>2. CASE k # 1
      BY <1>1, <3>2 DEF Elements
    <3> QED
      BY <3>1, <3>2
  <2>4. Elements(s) \subseteq Elements(t) \cup {Head(s)}
    BY <2>3 DEF Elements
  <2> QED
    BY <2>1, <2>2, <2>4
<1>4. CommandAlone(s) => CommandAlone(t)
  BY <1>1, <1>2, SMTT(30) DEF CommandAlone
<1>5. (CommandAlone(s) /\ Head(s).kind = "command") => (Commands(t) = {})
  BY <1>1 DEF CommandAlone, Commands, Elements
<1>6. (Head(s).kind # "command") => (Commands(t) = Commands(s))
  BY <1>3 DEF Commands
<1> QED
  BY <1>1, <1>3, <1>4, <1>5, <1>6 DEF t

LEMMA OneElement ==
  ASSUME NEW S, NEW s \in Seq(S), s # <<>>, Len(s) <= 1
  PROVE  Tail(s) = <<>> /\ Elements(s) = {Head(s)}
<1>1. Len(s) = 1 /\ DOMAIN s = {1} /\ Head(s) = s[1]
  <2>1. Len(s) \in Nat /\ Len(s) # 0 /\ DOMAIN s = 1 .. Len(s) /\ Head(s) = s[1]
    OBVIOUS
  <2> QED
    BY <2>1
<1>2. Elements(s) = {Head(s)}
  BY <1>1 DEF Elements
<1>3. Tail(s) \in Seq(S) /\ Len(Tail(s)) = 0
  BY <1>1
<1> QED
  BY <1>2, <1>3

---------------------------------------------------------------------------
(* Types.  The bounds of the model are the bounds of its definitions.       *)

Gate == Definitions \cup {Absent, FalseGate}
CommandEvents == [kind : {"command"}, name : Names, gate : Definitions \cup {FalseGate}]
DrawnEvents == [kind : {"gate"}, name : Names, gate : Definitions]
Traces == [type : {"add", "change"}, name : Names]
TraceEvents == [kind : {"trace"}, trace : Traces]
QueuedEvents == CommandEvents \cup DrawnEvents \cup TraceEvents

Typed ==
  /\ dict \in [Processes -> [Names -> Gate]]
  /\ calls \in [Processes -> Seq(CommandEvents)]
  /\ gates \in [Receivers -> Seq(DrawnEvents)]
  /\ relay \in Seq(Traces)
  /\ queue \in [Processes -> Seq(QueuedEvents)]
  /\ waiting \subseteq Processes \ {Root}
  /\ failed \in {"none", "broadcast", "duplicate"}
  /\ commands \in 0 .. MaxCommands /\ drawn \in 0 .. MaxDrawn
  /\ users \in [Names -> SUBSET {"command", "delete", "Xamine"}]

LEMMA ProcessesDiffer ==
  /\ Root \in Processes /\ Sink \in Processes /\ Root \in Receivers
  /\ Receivers \subseteq Processes /\ Sink \notin Receivers /\ Root # Sink
  /\ \A p \in Processes : p = Sink \/ p \in Receivers
BY GatesAssumption DEF Processes, Receivers

LEMMA DefinitionNew ==
  ASSUME Typed
  PROVE  /\ (commands < MaxCommands \/ drawn < MaxDrawn) => NextDefinition \in Definitions
         /\ Absent \notin Definitions /\ FalseGate \notin Definitions
         /\ Absent # FalseGate /\ Definitions \subseteq Gate /\ FalseGate \in Gate
BY GatesAssumption DEF Typed, NextDefinition, Definitions, Absent, FalseGate, Gate

\* What applying a command does
LEMMA ApplyTyped ==
  ASSUME Typed, NEW p \in Processes, NEW n \in Names,
         NEW g \in Definitions \cup {FalseGate}, NEW c, c.name = n, c.gate = g, Apply(p, c)
  PROVE  /\ dict' \in [Processes -> [Names -> Gate]] /\ relay' \in Seq(Traces)
         /\ dict'[p][n] = IF g # FalseGate \/ dict[p][n] # Absent THEN g ELSE dict[p][n]
         /\ \A q \in Processes, m \in Names :
              (q # p \/ m # n) => (dict'[q][m] = dict[q][m])
<1>1. /\ dict \in [Processes -> [Names -> Gate]] /\ relay \in Seq(Traces) /\ g \in Gate
  BY DefinitionNew DEF Typed
<1>2. Trace(n) \in Traces
  BY DEF Trace, Traces
<1>3. relay' \in Seq(Traces)
  BY <1>1, <1>2 DEF Apply, ForwardTrace
<1>4. CASE g # FalseGate \/ dict[p][n] # Absent
  <2>1. dict' = [dict EXCEPT ![p][n] = g]
    BY <1>4 DEF Apply, Applies, Exists
  <2> QED
    BY <1>1, <1>3, <1>4, <2>1
<1>5. CASE ~(g # FalseGate \/ dict[p][n] # Absent)
  BY <1>1, <1>3, <1>5 DEF Apply, Applies, Exists
<1> QED
  BY <1>4, <1>5

\* Queueing an event and taking the first one
LEMMA QueueStep ==
  ASSUME Typed, NEW p \in Processes
  PROVE  /\ \A e \in QueuedEvents : QueueEvent(p, e) =>
              /\ queue' \in [Processes -> Seq(QueuedEvents)]
              /\ queue'[p] = Append(queue[p], e)
         /\ (queue[p] # <<>> /\ queue' = [queue EXCEPT ![p] = Tail(@)]) =>
              /\ queue' \in [Processes -> Seq(QueuedEvents)]
              /\ queue'[p] = Tail(queue[p]) /\ Head(queue[p]) \in QueuedEvents
<1>1. queue \in [Processes -> Seq(QueuedEvents)] /\ queue[p] \in Seq(QueuedEvents)
  BY DEF Typed
<1>2. ASSUME NEW e \in QueuedEvents, QueueEvent(p, e)
      PROVE  /\ queue' \in [Processes -> Seq(QueuedEvents)]
             /\ queue'[p] = Append(queue[p], e)
  <2>1. Append(queue[p], e) \in Seq(QueuedEvents)
    BY <1>1
  <2> QED
    BY <1>1, <1>2, <2>1 DEF QueueEvent
<1>3. ASSUME queue[p] # <<>>, queue' = [queue EXCEPT ![p] = Tail(@)]
      PROVE  /\ queue' \in [Processes -> Seq(QueuedEvents)]
             /\ queue'[p] = Tail(queue[p]) /\ Head(queue[p]) \in QueuedEvents
  <2>1. Tail(queue[p]) \in Seq(QueuedEvents) /\ Head(queue[p]) \in QueuedEvents
    BY <1>1, <1>3
  <2> QED
    BY <1>1, <1>3, <2>1
<1> QED
  BY <1>2, <1>3

LEMMA TypedByCommand ==
  ASSUME Typed, NEW n \in Names, NEW g, GateCommand(n, g),
         g = NextDefinition \/ g = FalseGate
  PROVE  Typed' /\ g \in Definitions \cup {FalseGate}
<1> DEFINE c == Event("command", n, g)
<1>1. /\ commands < MaxCommands /\ commands' = commands + 1 /\ Apply(Root, c)
      /\ calls' = [p \in Processes |-> IF p = Root THEN <<>> ELSE <<c>>]
      /\ waiting' = RepliesFrom
      /\ users' = [users EXCEPT ![n] = @ \cup {User(g)}]
      /\ UNCHANGED <<gates, queue, failed, drawn, traced>>
  BY DEF GateCommand
<1>2. /\ g \in Definitions \cup {FalseGate} /\ c \in CommandEvents
      /\ c.name = n /\ c.gate = g
  BY <1>1, DefinitionNew DEF CommandEvents, Event
<1> HIDE DEF c
<1>3. dict' \in [Processes -> [Names -> Gate]] /\ relay' \in Seq(Traces)
  BY <1>1, <1>2, ApplyTyped, ProcessesDiffer
<1>4. calls' \in [Processes -> Seq(CommandEvents)]
  <2>1. <<>> \in Seq(CommandEvents) /\ <<c>> \in Seq(CommandEvents)
    BY <1>2
  <2> QED
    BY <1>1, <2>1
<1>5. waiting' \subseteq Processes \ {Root}
  BY <1>1 DEF RepliesFrom
<1>6. commands' \in 0 .. MaxCommands /\ users' \in [Names -> SUBSET {"command", "delete", "Xamine"}]
  BY <1>1, GatesAssumption DEF Typed, User
<1> QED
  BY <1>1, <1>2, <1>3, <1>4, <1>5, <1>6 DEF Typed

LEMMA TypedByDrawing ==
  ASSUME Typed, NEW n \in Names, OnGate(n)
  PROVE  /\ Typed' /\ NextDefinition \in Definitions
         /\ dict'[Sink][n] = NextDefinition
         /\ \A q \in Processes, m \in Names :
              (q # Sink \/ m # n) => (dict'[q][m] = dict[q][m])
<1> DEFINE g == Event("gate", n, NextDefinition)
<1>1. /\ drawn < MaxDrawn /\ drawn' = drawn + 1
      /\ dict' = [dict EXCEPT ![Sink][n] = NextDefinition]
      /\ relay' = Append(relay, Trace(n))
      /\ users' = [users EXCEPT ![n] = @ \cup {"Xamine"}]
      /\ \/ gates' = [p \in Receivers |-> Append(gates[p], g)] /\ UNCHANGED failed
         \/ failed' = "broadcast" /\ UNCHANGED gates
      /\ UNCHANGED <<calls, queue, waiting, commands>>
  BY DEF OnGate, ForwardTrace, BroadcastGate
<1>2. NextDefinition \in Definitions /\ NextDefinition \in Gate
  BY <1>1, DefinitionNew
<1>3. dict' \in [Processes -> [Names -> Gate]] /\ dict'[Sink][n] = NextDefinition
  BY <1>1, <1>2, ProcessesDiffer DEF Typed
<1>4. g \in DrawnEvents
  BY <1>2 DEF DrawnEvents, Event
<1> HIDE DEF g
<1>5. gates' \in [Receivers -> Seq(DrawnEvents)]
  <2>1. gates \in [Receivers -> Seq(DrawnEvents)]
    BY DEF Typed
  <2>2. \A p \in Receivers : Append(gates[p], g) \in Seq(DrawnEvents)
    BY <1>4, <2>1
  <2> QED
    BY <1>1, <2>1, <2>2
<1>6. relay' \in Seq(Traces)
  <2>1. Trace(n) \in Traces /\ relay \in Seq(Traces)
    BY DEF Trace, Traces, Typed
  <2> QED
    BY <1>1, <2>1
<1>7. drawn' \in 0 .. MaxDrawn /\ users' \in [Names -> SUBSET {"command", "delete", "Xamine"}]
  BY <1>1, GatesAssumption DEF Typed
<1>8. \A q \in Processes, m \in Names :
        (q # Sink \/ m # n) => (dict'[q][m] = dict[q][m])
  BY <1>1, ProcessesDiffer DEF Typed
<1>9. failed' \in {"none", "broadcast", "duplicate"}
  BY <1>1 DEF Typed
<1> QED
  BY <1>1, <1>2, <1>3, <1>5, <1>6, <1>7, <1>8, <1>9 DEF Typed

LEMMA TypedByThreads ==
  ASSUME Typed, NEW p \in Processes, Pump(p) \/ ReceiveTrace
  PROVE  Typed'
<1>1. CASE ReceiveCommand(p)
  <2>1. /\ calls[p] # <<>> /\ QueueEvent(p, Head(calls[p]))
        /\ calls' = [calls EXCEPT ![p] = Tail(@)]
        /\ UNCHANGED <<dict, gates, relay, waiting, failed, commands, drawn, users>>
    BY <1>1 DEF ReceiveCommand, history
  <2>2. Head(calls[p]) \in CommandEvents /\ Tail(calls[p]) \in Seq(CommandEvents)
    BY <2>1, TailEvents DEF Typed
  <2>3. queue' \in [Processes -> Seq(QueuedEvents)]
    BY <2>1, <2>2, QueueStep DEF QueuedEvents
  <2>4. calls' \in [Processes -> Seq(CommandEvents)]
    BY <2>1, <2>2 DEF Typed
  <2> QED
    BY <2>1, <2>3, <2>4 DEF Typed
<1>2. CASE p \in Receivers /\ ReceiveGate(p)
  <2>1. /\ gates[p] # <<>> /\ QueueEvent(p, Head(gates[p]))
        /\ gates' = [gates EXCEPT ![p] = Tail(@)]
        /\ UNCHANGED <<dict, calls, relay, waiting, failed, commands, drawn, users>>
    BY <1>2 DEF ReceiveGate, history
  <2>2. Head(gates[p]) \in DrawnEvents /\ Tail(gates[p]) \in Seq(DrawnEvents)
    BY <1>2, <2>1, TailEvents DEF Typed
  <2>3. queue' \in [Processes -> Seq(QueuedEvents)]
    BY <2>1, <2>2, QueueStep DEF QueuedEvents
  <2>4. gates' \in [Receivers -> Seq(DrawnEvents)]
    BY <1>2, <2>1, <2>2 DEF Typed
  <2> QED
    BY <2>1, <2>3, <2>4 DEF Typed
<1>3. CASE ReceiveTrace
  <2> DEFINE e == [kind |-> "trace", trace |-> Head(relay)]
  <2>1. /\ relay # <<>> /\ QueueEvent(Root, e) /\ relay' = Tail(relay)
        /\ UNCHANGED <<dict, calls, gates, waiting, failed, commands, drawn, users>>
    BY <1>3 DEF ReceiveTrace, history
  <2>2. e \in TraceEvents /\ relay' \in Seq(Traces)
    BY <2>1 DEF Typed, TraceEvents
  <2> HIDE DEF e
  <2>3. queue' \in [Processes -> Seq(QueuedEvents)]
    BY <2>1, <2>2, QueueStep, ProcessesDiffer DEF QueuedEvents
  <2> QED
    BY <2>1, <2>2, <2>3 DEF Typed
<1> QED
  BY <1>1, <1>2, <1>3 DEF Pump

\* The main thread handles the first event of its queue.
LEMMA TypedByEvent ==
  ASSUME Typed, NEW p \in Processes, HandleEvent(p)
  PROVE  Typed'
<1>1. /\ queue[p] # <<>> /\ queue' = [queue EXCEPT ![p] = Tail(@)]
      /\ UNCHANGED <<calls, gates, commands, drawn, users>>
      /\ \/ ExecuteCommand(p, Head(queue[p]))
         \/ GateEventHandler(p, Head(queue[p]))
         \/ TraceRelayEventHandler(p, Head(queue[p]))
  BY DEF HandleEvent
<1>2. queue' \in [Processes -> Seq(QueuedEvents)] /\ Head(queue[p]) \in QueuedEvents
  BY <1>1, QueueStep
<1>3. /\ dict' \in [Processes -> [Names -> Gate]] /\ relay' \in Seq(Traces)
      /\ waiting' \subseteq Processes \ {Root}
      /\ failed' \in {"none", "broadcast", "duplicate"}
  <2> DEFINE e == Head(queue[p])
  <2> HIDE DEF e
  <2>1. CASE ExecuteCommand(p, e)
    <3>1. e \in CommandEvents /\ Apply(p, e) /\ waiting' = waiting \ {p} /\ UNCHANGED failed
      BY <1>2, <2>1 DEF ExecuteCommand, QueuedEvents, DrawnEvents, TraceEvents, e
    <3>2. e.name \in Names /\ e.gate \in Definitions \cup {FalseGate}
      BY <3>1 DEF CommandEvents
    <3>3. dict' \in [Processes -> [Names -> Gate]] /\ relay' \in Seq(Traces)
      BY <3>1, <3>2, ApplyTyped
    <3> QED
      BY <3>1, <3>3 DEF Typed
  <2>2. CASE GateEventHandler(p, e)
    <3>1. e \in DrawnEvents
      BY <1>2, <2>2 DEF GateEventHandler, QueuedEvents, CommandEvents, TraceEvents, e
    <3>2. e.name \in Names /\ e.gate \in Gate
      BY <3>1, DefinitionNew DEF DrawnEvents
    <3>3. dict' = dict \/ dict' = [dict EXCEPT ![p][e.name] = e.gate]
      BY <2>2 DEF GateEventHandler
    <3>4. dict \in [Processes -> [Names -> Gate]]
      BY DEF Typed
    <3>5. dict' \in [Processes -> [Names -> Gate]]
      BY <3>2, <3>3, <3>4
    <3> QED
      BY <2>2, <3>5 DEF GateEventHandler, Typed
  <2>3. CASE TraceRelayEventHandler(p, e)
    BY <2>3 DEF TraceRelayEventHandler, Typed
  <2> QED
    BY <1>1, <2>1, <2>2, <2>3 DEF e
<1> QED
  BY <1>1, <1>2, <1>3 DEF Typed

---------------------------------------------------------------------------
(* At most one command is executed at a time, and a process the root waits *)
(* for has it still to execute.                                             *)

OneCommand(p) ==
  /\ Len(calls[p]) <= 1
  /\ (calls[p] # <<>>) => (p \in waiting /\ Commands(queue[p]) = {})
  /\ CommandAlone(queue[p])
  /\ (Commands(queue[p]) # {}) => p \in waiting
  /\ p \in waiting => (calls[p] # <<>> \/ Commands(queue[p]) # {})

\* Only the root traces, and Xamine's process needs no gate from itself.
QueueFits(p) ==
  \A e \in Elements(queue[p]) :
    /\ (e.kind = "trace") => (p = Root)
    /\ (e.kind = "gate") => p \in Receivers

GatesCounted == \A p \in Receivers : Len(gates[p]) <= drawn

FlowInv == GatesCounted /\ \A p \in Processes : OneCommand(p) /\ QueueFits(p)

\* The command and the drawn gates on their way to process p
Pending(p) == Elements(calls[p]) \cup Commands(queue[p])
Drawings(p) == {e \in Elements(queue[p]) : e.kind = "gate"} \cup Elements(gates[p])

LEMMA NothingPending ==
  ASSUME Typed, NEW p \in Processes, OneCommand(p)
  PROVE  p \notin waiting => (Pending(p) = {} /\ calls[p] = <<>>)
<1>1. (p \notin waiting) => (calls[p] = <<>> /\ Commands(queue[p]) = {})
  BY DEF OneCommand
<1>2. Elements(<<>>) = {}
  BY DEF Elements
<1> QED
  BY <1>1, <1>2 DEF Pending

LEMMA PendingTyped ==
  ASSUME Typed
  PROVE  /\ \A p \in Processes : Pending(p) \subseteq CommandEvents
         /\ \A p \in Receivers : Drawings(p) \subseteq DrawnEvents
<1>1. ASSUME NEW S, NEW s \in Seq(S)
      PROVE  Elements(s) \subseteq S
  BY DEF Elements
<1>2. \A e \in QueuedEvents : /\ (e.kind = "command") => e \in CommandEvents
                              /\ (e.kind = "gate") => e \in DrawnEvents
  BY DEF QueuedEvents, CommandEvents, DrawnEvents, TraceEvents
<1>3. ASSUME NEW p \in Processes
      PROVE  /\ Elements(calls[p]) \subseteq CommandEvents
             /\ Elements(queue[p]) \subseteq QueuedEvents
  BY <1>1 DEF Typed
<1>4. ASSUME NEW p \in Receivers
      PROVE  Elements(gates[p]) \subseteq DrawnEvents
  BY <1>1 DEF Typed
<1> QED
  BY <1>2, <1>3, <1>4, ProcessesDiffer DEF Pending, Drawings, Commands

LEMMA FlowOfOthers ==
  ASSUME NEW p \in Processes, OneCommand(p), QueueFits(p),
         UNCHANGED <<calls[p], queue[p]>>, (p \in waiting)' <=> p \in waiting
  PROVE  OneCommand(p)' /\ QueueFits(p)' /\ Pending(p)' = Pending(p)
BY DEF OneCommand, QueueFits, Pending

LEMMA FlowByCommand ==
  ASSUME Typed, FlowInv, NEW n \in Names, NEW g, GateCommand(n, g),
         g = NextDefinition \/ g = FalseGate
  PROVE  /\ FlowInv'
         /\ \A p \in Processes :
              /\ Pending(p) = {}
              /\ Pending(p)' = IF p = Root THEN {} ELSE {Event("command", n, g)}
<1> DEFINE c == Event("command", n, g)
<1>1. /\ waiting = {} /\ UNCHANGED <<queue, gates, drawn>>
      /\ calls' = [p \in Processes |-> IF p = Root THEN <<>> ELSE <<c>>]
      /\ waiting' = Processes \ {Root}
  BY DEF GateCommand, RepliesFrom
<1> HIDE DEF c
<1>2. ASSUME NEW p \in Processes
      PROVE  /\ OneCommand(p)' /\ QueueFits(p)' /\ Pending(p) = {}
             /\ Pending(p)' = IF p = Root THEN {} ELSE {c}
  <2>1. Commands(queue[p]) = {} /\ CommandAlone(queue[p]) /\ Pending(p) = {}
    BY <1>1, NothingPending DEF FlowInv, OneCommand
  <2>2. /\ calls'[p] = (IF p = Root THEN <<>> ELSE <<c>>)
        /\ queue'[p] = queue[p] /\ (p \in waiting' <=> p # Root)
    BY <1>1
  <2>3. /\ Elements(<<>>) = {} /\ Elements(<<c>>) = {c}
        /\ Len(<<>>) = 0 /\ Len(<<c>>) = 1 /\ <<c>> # <<>>
    <3>1. DOMAIN <<c>> = {1} /\ <<c>>[1] = c
      OBVIOUS
    <3> QED
      BY <3>1 DEF Elements
  <2>4. OneCommand(p)'
    BY <2>1, <2>2, <2>3 DEF OneCommand
  <2>5. QueueFits(p)'
    BY <2>2 DEF FlowInv, QueueFits
  <2>6. Pending(p)' = IF p = Root THEN {} ELSE {c}
    BY <2>1, <2>2, <2>3 DEF Pending
  <2> QED
    BY <2>1, <2>4, <2>5, <2>6
<1>3. GatesCounted'
  BY <1>1 DEF FlowInv, GatesCounted
<1> QED
  BY <1>2, <1>3 DEF FlowInv, c

LEMMA FlowByDrawing ==
  ASSUME Typed, FlowInv, NEW n \in Names, OnGate(n)
  PROVE  /\ FlowInv'
         /\ \A p \in Processes : Pending(p)' = Pending(p)
         /\ \A p \in Receivers :
              /\ Drawings(p) \subseteq Drawings(p)'
              /\ Drawings(p)' \subseteq Drawings(p) \cup {Event("gate", n, NextDefinition)}
         /\ Running' => \A p \in Receivers : Event("gate", n, NextDefinition) \in Drawings(p)'
<1> DEFINE g == Event("gate", n, NextDefinition)
<1>1. /\ drawn' = drawn + 1 /\ UNCHANGED <<calls, queue, waiting>>
      /\ \/ gates' = [p \in Receivers |-> Append(gates[p], g)]
         \/ failed' = "broadcast" /\ UNCHANGED gates
  BY DEF OnGate, BroadcastGate
<1>2. g \in DrawnEvents
  BY TypedByDrawing DEF DrawnEvents, Event
<1> HIDE DEF g
<1>3. \A p \in Processes : OneCommand(p)' /\ QueueFits(p)' /\ Pending(p)' = Pending(p)
  BY <1>1, FlowOfOthers DEF FlowInv
<1>4. ASSUME NEW p \in Receivers
      PROVE  /\ Len(gates'[p]) <= drawn'
             /\ \/ Elements(gates'[p]) = Elements(gates[p]) \cup {g}
                \/ failed' = "broadcast" /\ Elements(gates'[p]) = Elements(gates[p])
  <2>1. gates[p] \in Seq(DrawnEvents) /\ Len(gates[p]) <= drawn /\ drawn \in Nat
    BY GatesAssumption DEF Typed, FlowInv, GatesCounted
  <2>2. Len(Append(gates[p], g)) = Len(gates[p]) + 1 /\ Len(gates[p]) \in Nat
    BY <1>2, <2>1
  <2>3. Elements(Append(gates[p], g)) = Elements(gates[p]) \cup {g}
    BY <1>2, <2>1, AppendEvent
  <2>4. CASE gates' = [q \in Receivers |-> Append(gates[q], g)]
    <3>1. gates'[p] = Append(gates[p], g)
      BY <2>4
    <3> QED
      BY <1>1, <2>1, <2>2, <2>3, <3>1
  <2>5. CASE failed' = "broadcast" /\ UNCHANGED gates
    BY <1>1, <2>1, <2>2, <2>5
  <2> QED
    BY <1>1, <2>4, <2>5
<1>5. GatesCounted'
  BY <1>4 DEF GatesCounted
<1>6. \A p \in Receivers : \/ Drawings(p)' = Drawings(p) \cup {g}
                           \/ failed' = "broadcast" /\ Drawings(p)' = Drawings(p)
  BY <1>1, <1>4 DEF Drawings
<1>7. Running' => failed' # "broadcast"
  BY DEF Running
<1> QED
  BY <1>3, <1>5, <1>6, <1>7 DEF FlowInv, g

\* The pump threads move what is on its way into the queue.
LEMMA FlowByThreads ==
  ASSUME Typed, FlowInv, NEW p \in Processes, Pump(p) \/ ReceiveTrace
  PROVE  /\ FlowInv' /\ UNCHANGED <<dict, users, failed>>
         /\ \A q \in Processes : Pending(q)' = Pending(q)
         /\ \A q \in Receivers : Drawings(q)' = Drawings(q)
<1>1. UNCHANGED <<dict, users, failed, drawn, waiting>>
  BY DEF Pump, ReceiveCommand, ReceiveGate, ReceiveTrace, history
<1>2. CASE ReceiveCommand(p)
  <2> DEFINE e == Head(calls[p])
  <2>1. /\ calls[p] # <<>> /\ QueueEvent(p, e)
        /\ calls' = [calls EXCEPT ![p] = Tail(@)] /\ UNCHANGED gates
    BY <1>2 DEF ReceiveCommand
  <2>2. calls[p] \in Seq(CommandEvents) /\ queue[p] \in Seq(QueuedEvents)
    BY DEF Typed
  <2>3. Len(calls[p]) <= 1
    BY DEF FlowInv, OneCommand
  <2>4. Tail(calls[p]) = <<>> /\ Elements(calls[p]) = {e}
    BY <2>1, <2>2, <2>3, OneElement
  <2>5. e \in CommandEvents
    BY <2>1, <2>2
  <2> HIDE DEF e
  <2>6. e \in QueuedEvents /\ e.kind = "command"
    BY <2>5 DEF QueuedEvents, CommandEvents
  <2>7. queue'[p] = Append(queue[p], e) /\ calls'[p] = <<>>
    BY <2>1, <2>4, <2>6, QueueStep DEF Typed
  <2>8. Commands(queue[p]) = {} /\ p \in waiting
    BY <2>1 DEF FlowInv, OneCommand
  <2>9. /\ Elements(queue'[p]) = Elements(queue[p]) \cup {e}
        /\ Commands(queue'[p]) = {e} /\ CommandAlone(queue'[p])
    BY <2>2, <2>6, <2>7, <2>8, AppendEvent
  <2>10. Elements(<<>>) = {} /\ Len(<<>>) = 0
    BY DEF Elements
  <2>11. OneCommand(p)'
    BY <1>1, <2>7, <2>8, <2>9, <2>10 DEF OneCommand
  <2>12. QueueFits(p)'
    BY <2>6, <2>9 DEF FlowInv, QueueFits
  <2>13. Pending(p)' = Pending(p)
    BY <2>4, <2>7, <2>8, <2>9, <2>10 DEF Pending
  <2>14. \A q \in Receivers : Drawings(q)' = Drawings(q)
    <3>1. \A q \in Processes : (q # p) => (queue'[q] = queue[q])
      BY <2>1 DEF QueueEvent, Typed
    <3>2. \A q \in Receivers : {x \in Elements(queue'[q]) : x.kind = "gate"}
                                  = {x \in Elements(queue[q]) : x.kind = "gate"}
      BY <2>6, <2>9, <3>1, ProcessesDiffer
    <3> QED
      BY <2>1, <3>2 DEF Drawings
  <2>15. ASSUME NEW q \in Processes, q # p
         PROVE  OneCommand(q)' /\ QueueFits(q)' /\ Pending(q)' = Pending(q)
    <3>1. UNCHANGED <<calls[q], queue[q]>>
      BY <2>1, <2>15 DEF QueueEvent, Typed
    <3> QED
      BY <1>1, <3>1, FlowOfOthers DEF FlowInv
  <2>16. GatesCounted'
    BY <1>1, <2>1 DEF FlowInv, GatesCounted
  <2> QED
    BY <1>1, <2>11, <2>12, <2>13, <2>14, <2>15, <2>16 DEF FlowInv
<1>3. ASSUME NEW r \in Processes, NEW e \in QueuedEvents, QueueEvent(r, e), e.kind # "command",
             (e.kind = "trace") => (r = Root), (e.kind = "gate") => r \in Receivers,
             UNCHANGED calls
      PROVE  /\ \A q \in Processes :
                  OneCommand(q)' /\ QueueFits(q)' /\ Pending(q)' = Pending(q)
             /\ \A q \in Processes : Elements(queue'[q]) =
                  IF q = r THEN Elements(queue[q]) \cup {e} ELSE Elements(queue[q])
  <2>1. queue[r] \in Seq(QueuedEvents) /\ queue'[r] = Append(queue[r], e)
    BY <1>3, QueueStep DEF Typed
  <2>2. \A q \in Processes : (q # r) => (queue'[q] = queue[q])
    BY <1>3 DEF QueueEvent, Typed
  <2>3. /\ Elements(queue'[r]) = Elements(queue[r]) \cup {e}
        /\ Commands(queue'[r]) = Commands(queue[r])
        /\ CommandAlone(queue[r]) => CommandAlone(queue'[r])
    BY <1>3, <2>1, AppendEvent
  <2>4. OneCommand(r)' /\ Pending(r)' = Pending(r)
    BY <1>1, <1>3, <2>3 DEF FlowInv, OneCommand, Pending
  <2>5. QueueFits(r)'
    BY <1>3, <2>3 DEF FlowInv, QueueFits
  <2>6. ASSUME NEW q \in Processes, q # r
        PROVE  OneCommand(q)' /\ QueueFits(q)' /\ Pending(q)' = Pending(q)
    BY <1>1, <1>3, <2>2, <2>6, FlowOfOthers DEF FlowInv
  <2> QED
    BY <2>2, <2>3, <2>4, <2>5, <2>6
<1>4. CASE p \in Receivers /\ ReceiveGate(p)
  <2> DEFINE e == Head(gates[p])
  <2>1. /\ gates[p] # <<>> /\ QueueEvent(p, e)
        /\ gates' = [gates EXCEPT ![p] = Tail(@)] /\ UNCHANGED calls
    BY <1>4 DEF ReceiveGate
  <2>2. gates \in [Receivers -> Seq(DrawnEvents)] /\ gates[p] \in Seq(DrawnEvents)
    BY <1>4 DEF Typed
  <2>3. /\ e \in DrawnEvents /\ e \in Elements(gates[p])
        /\ Elements(Tail(gates[p])) \subseteq Elements(gates[p])
        /\ Elements(gates[p]) \subseteq Elements(Tail(gates[p])) \cup {e}
    BY <2>1, <2>2, TailEvents
  <2>4. /\ gates'[p] = Tail(gates[p]) /\ Len(gates'[p]) <= Len(gates[p])
        /\ \A q \in Receivers : (q # p) => (gates'[q] = gates[q])
    BY <1>4, <2>1, <2>2
  <2> HIDE DEF e
  <2>5. e \in QueuedEvents /\ e.kind = "gate"
    BY <2>3 DEF QueuedEvents, DrawnEvents
  <2>6. /\ \A q \in Processes :
             OneCommand(q)' /\ QueueFits(q)' /\ Pending(q)' = Pending(q)
        /\ \A q \in Processes : Elements(queue'[q]) =
             IF q = p THEN Elements(queue[q]) \cup {e} ELSE Elements(queue[q])
    BY <1>3, <1>4, <2>1, <2>5
  <2>7. GatesCounted'
    <3>1. ASSUME NEW q \in Receivers
          PROVE  Len(gates'[q]) <= drawn'
      <4>1. gates[q] \in Seq(DrawnEvents) /\ gates'[q] \in Seq(DrawnEvents)
        BY <2>2, TypedByThreads DEF Typed
      <4>2. /\ Len(gates[q]) \in Nat /\ Len(gates'[q]) \in Nat /\ drawn \in Int
            /\ Len(gates[q]) <= drawn
        BY <4>1 DEF FlowInv, GatesCounted, Typed
      <4>3. Len(gates'[q]) <= Len(gates[q])
        <5>1. CASE q = p
          BY <2>4, <5>1
        <5>2. CASE q # p
          BY <2>4, <4>2, <5>2
        <5> QED
          BY <5>1, <5>2
      <4> QED
        BY <1>1, <4>2, <4>3
    <3> QED
      BY <3>1 DEF GatesCounted
  <2>8. ASSUME NEW q \in Receivers
        PROVE  Drawings(q)' = Drawings(q)
    <3>1. CASE q = p
      <4>1. {x \in Elements(queue'[p]) : x.kind = "gate"}
              = {x \in Elements(queue[p]) : x.kind = "gate"} \cup {e}
        BY <2>5, <2>6
      <4> QED
        BY <2>3, <2>4, <3>1, <4>1 DEF Drawings
    <3>2. CASE q # p
      BY <2>4, <2>6, <3>2, ProcessesDiffer DEF Drawings
    <3> QED
      BY <3>1, <3>2
  <2> QED
    BY <1>1, <2>6, <2>7, <2>8 DEF FlowInv
<1>5. CASE ReceiveTrace
  <2> DEFINE e == [kind |-> "trace", trace |-> Head(relay)]
  <2>1. relay # <<>> /\ QueueEvent(Root, e) /\ UNCHANGED <<calls, gates>>
    BY <1>5 DEF ReceiveTrace
  <2>2. e \in TraceEvents
    BY <2>1 DEF Typed, TraceEvents
  <2> HIDE DEF e
  <2>3. e \in QueuedEvents /\ e.kind = "trace"
    BY <2>2 DEF QueuedEvents, TraceEvents
  <2>4. /\ \A q \in Processes :
             OneCommand(q)' /\ QueueFits(q)' /\ Pending(q)' = Pending(q)
        /\ \A q \in Processes : Elements(queue'[q]) =
             IF q = Root THEN Elements(queue[q]) \cup {e} ELSE Elements(queue[q])
    BY <1>3, <2>1, <2>3, ProcessesDiffer
  <2>5. \A q \in Receivers : Drawings(q)' = Drawings(q)
    BY <2>1, <2>3, <2>4, ProcessesDiffer DEF Drawings
  <2>6. GatesCounted'
    BY <1>1, <2>1 DEF FlowInv, GatesCounted
  <2> QED
    BY <1>1, <2>4, <2>5, <2>6 DEF FlowInv
<1> QED
  BY <1>2, <1>4, <1>5 DEF Pump

\* The main thread takes the first event of its queue.
LEMMA FlowByEvent ==
  ASSUME Typed, FlowInv, NEW p \in Processes, HandleEvent(p)
  PROVE  LET e == Head(queue[p])
         IN  /\ FlowInv'
             /\ \A q \in Processes : (q # p) => (Pending(q)' = Pending(q))
             /\ \A q \in Receivers : (q # p) => (Drawings(q)' = Drawings(q))
             /\ (e.kind = "command") => (Pending(p) = {e} /\ Pending(p)' = {} /\ p # Root)
             /\ (e.kind # "command") => (Pending(p)' = Pending(p))
             /\ (p \in Receivers /\ e.kind # "gate") => (Drawings(p)' = Drawings(p))
             /\ (e.kind = "gate") =>
                  /\ p \in Receivers /\ e \in Drawings(p)
                  /\ Drawings(p)' \subseteq Drawings(p)
                  /\ Drawings(p) \subseteq Drawings(p)' \cup {e}
<1> DEFINE e == Head(queue[p])
<1>1. /\ queue[p] # <<>> /\ queue' = [queue EXCEPT ![p] = Tail(@)]
      /\ UNCHANGED <<calls, gates, drawn>>
      /\ waiting' = IF e.kind = "command" THEN waiting \ {p} ELSE waiting
  BY DEF HandleEvent, ExecuteCommand, GateEventHandler, TraceRelayEventHandler
<1>2. queue[p] \in Seq(QueuedEvents) /\ queue'[p] = Tail(queue[p])
  BY <1>1, QueueStep DEF Typed
<1>3. \A q \in Processes : (q # p) => (queue'[q] = queue[q])
  BY <1>1 DEF Typed
<1>4. CommandAlone(queue[p]) /\ OneCommand(p) /\ QueueFits(p)
  BY DEF FlowInv, OneCommand
<1>5. /\ e \in QueuedEvents /\ e \in Elements(queue[p])
      /\ Elements(queue'[p]) \subseteq Elements(queue[p])
      /\ Elements(queue[p]) \subseteq Elements(queue'[p]) \cup {e}
      /\ CommandAlone(queue'[p])
      /\ (e.kind = "command") => (Commands(queue'[p]) = {})
      /\ (e.kind # "command") => (Commands(queue'[p]) = Commands(queue[p]))
  BY <1>1, <1>2, <1>4, TailEvents
<1> HIDE DEF e
<1>6. ASSUME e.kind = "command"
      PROVE  Pending(p) = {e} /\ Pending(p)' = {} /\ p # Root /\ OneCommand(p)'
  <2>1. Commands(queue[p]) = {e} /\ e \in Commands(queue[p])
    BY <1>5, <1>6 DEF Commands
  <2>2. p \in waiting /\ calls[p] = <<>>
    BY <1>4, <2>1 DEF OneCommand
  <2>3. Elements(<<>>) = {} /\ Len(<<>>) = 0
    BY DEF Elements
  <2>4. p # Root
    BY <2>2 DEF Typed
  <2>5. OneCommand(p)'
    BY <1>1, <1>5, <1>6, <2>2, <2>3 DEF OneCommand
  <2>6. Pending(p)' = {}
    BY <1>1, <1>5, <1>6, <2>2, <2>3 DEF Pending
  <2> QED
    BY <2>1, <2>2, <2>3, <2>4, <2>5, <2>6 DEF Pending
<1>7. ASSUME e.kind # "command"
      PROVE  Pending(p)' = Pending(p) /\ OneCommand(p)'
  BY <1>1, <1>4, <1>5, <1>7 DEF OneCommand, Pending
<1>8. QueueFits(p)'
  BY <1>4, <1>5 DEF QueueFits
<1>9. ASSUME NEW q \in Processes, q # p
      PROVE  OneCommand(q)' /\ QueueFits(q)' /\ Pending(q)' = Pending(q)
  <2>1. (q \in waiting)' <=> q \in waiting
    BY <1>1, <1>9
  <2> QED
    BY <1>1, <1>3, <1>9, <2>1, FlowOfOthers DEF FlowInv
<1>10. GatesCounted'
  BY <1>1 DEF FlowInv, GatesCounted
<1>11. \A q \in Receivers : (q # p) => (Drawings(q)' = Drawings(q))
  BY <1>1, <1>3, ProcessesDiffer DEF Drawings
<1>12. ASSUME p \in Receivers, e.kind # "gate"
       PROVE  Drawings(p)' = Drawings(p)
  BY <1>1, <1>5, <1>12 DEF Drawings
<1>13. ASSUME e.kind = "gate"
       PROVE  /\ p \in Receivers /\ e \in Drawings(p)
              /\ Drawings(p)' \subseteq Drawings(p)
              /\ Drawings(p) \subseteq Drawings(p)' \cup {e}
  BY <1>1, <1>4, <1>5, <1>13 DEF Drawings, QueueFits
<1>14. FlowInv'
  BY <1>6, <1>7, <1>8, <1>9, <1>10 DEF FlowInv
<1> QED
  BY <1>6, <1>7, <1>9, <1>11, <1>12, <1>13, <1>14 DEF e

---------------------------------------------------------------------------
(* What is on its way makes the dictionaries agree.  A gate that Xamine    *)
(* has not drawn is the root's, or will be when the command on its way has *)
(* been executed.  A gate that was drawn and never deleted is the sink's   *)
(* until the root has its drawing, and the root's from then on, or the     *)
(* drawing that makes it so is on its way.  A drawing on its way to a      *)
(* process that has the gate ends that process: nothing agrees then, but   *)
(* nothing is quiet before it has been handled.                            *)

\* What is on its way for the gate n
Waits(p, n) == \E e \in Pending(p) : e.name = n
Drawn(p, n) == \E e \in Drawings(p) : e.name = n
Brings(p, n, g) == \E e \in Drawings(p) : e.name = n /\ e.gate = g
Doomed(n) == \E p \in Receivers : Exists(p, n) /\ Drawn(p, n)

Known ==
  /\ \A p \in Processes : \A e \in Pending(p) : User(e.gate) \in users[e.name]
  /\ \A p \in Receivers : \A e \in Drawings(p) : "Xamine" \in users[e.name]
  /\ \A n \in Names : ("Xamine" \in users[n]) =>
                        Exists(Sink, n) /\ (Exists(Root, n) \/ Drawn(Root, n))

Result(old, g) == IF g # FalseGate \/ old # Absent THEN g ELSE old

CommandFollows(p, n) ==
  /\ ~Waits(p, n) => (dict[p][n] = dict[Root][n])
  /\ \A e \in Pending(p) : (e.name = n) => (Result(dict[p][n], e.gate) = dict[Root][n])

DrawingFollows(p, n) == dict[p][n] = dict[Sink][n] \/ Brings(p, n, dict[Sink][n])

RootFollows(p, n) ==
  /\ \A e \in Pending(p) : (e.name = n) => (e.gate = dict[Root][n])
  /\ \/ Waits(p, n) \/ dict[p][n] = dict[Root][n]
     \/ p \in Receivers /\ Brings(p, n, dict[Root][n])

Settles(n) ==
  \/ Doomed(n)
  \/ /\ Drawn(Root, n) /\ \A p \in Processes : ~Waits(p, n)
     /\ \A p \in Receivers : DrawingFollows(p, n)
  \/ ~Drawn(Root, n) /\ \A p \in Processes : RootFollows(p, n)

AgreeInv ==
  /\ Known
  /\ \A n \in Names :
       /\ ("Xamine" \notin users[n]) => \A p \in Processes : CommandFollows(p, n)
       /\ ("Xamine" \in users[n] /\ "delete" \notin users[n]) => Settles(n)

GatesInv == Typed /\ FlowInv /\ (Running => AgreeInv)

\* What was drawn and not deleted is defined by each command on its way.
LEMMA WaitingDefines ==
  ASSUME Typed, AgreeInv, NEW n \in Names, "delete" \notin users[n], NEW p \in Processes,
         NEW e \in Pending(p), e.name = n
  PROVE  e.gate \in Definitions /\ e.gate # Absent /\ e.gate # FalseGate
<1>1. e.gate \in Definitions \cup {FalseGate} /\ User(e.gate) # "delete"
  BY PendingTyped DEF CommandEvents, AgreeInv, Known
<1> QED
  BY <1>1, DefinitionNew DEF User

\* A step that leaves all about a gate as it is.
LEMMA SettlesUnchanged ==
  ASSUME NEW n \in Names, Settles(n),
         \A p \in Processes : dict'[p][n] = dict[p][n],
         \A p \in Processes : Waits(p, n)' <=> Waits(p, n),
         \A p \in Processes : \A e \in Pending(p)' : (e.name = n) => e \in Pending(p),
         \A p \in Receivers : Drawn(p, n)' <=> Drawn(p, n),
         \A p \in Receivers : \A e \in Drawings(p) : (e.name = n) => e \in Drawings(p)'
  PROVE  Settles(n)'
<1>1. \A p \in Receivers : \A g : Brings(p, n, g) => (\E e \in Drawings(p)' : e.name = n /\ e.gate = g)
  BY DEF Brings
<1>2. \A p \in Receivers : /\ Brings(p, n, dict[Sink][n]) => Brings(p, n, dict[Sink][n])'
                           /\ Brings(p, n, dict[Root][n]) => Brings(p, n, dict[Root][n])'
  BY <1>1, ProcessesDiffer DEF Brings
<1>3. CASE Doomed(n)
  BY <1>3, ProcessesDiffer DEF Settles, Doomed, Exists
<1>4. CASE /\ Drawn(Root, n) /\ \A p \in Processes : ~Waits(p, n)
           /\ \A p \in Receivers : DrawingFollows(p, n)
  <2>1. \A p \in Receivers : DrawingFollows(p, n)'
    BY <1>2, <1>4, ProcessesDiffer DEF DrawingFollows
  <2>2. Drawn(Root, n)' /\ \A p \in Processes : ~Waits(p, n)'
    BY <1>4, ProcessesDiffer
  <2> QED
    BY <2>1, <2>2 DEF Settles
<1>5. CASE ~Drawn(Root, n) /\ \A p \in Processes : RootFollows(p, n)
  <2>1. \A p \in Processes : RootFollows(p, n)'
    BY <1>2, <1>5, ProcessesDiffer DEF RootFollows
  <2>2. ~Drawn(Root, n)'
    BY <1>5, ProcessesDiffer
  <2> QED
    BY <2>1, <2>2 DEF Settles
<1> QED
  BY <1>3, <1>4, <1>5 DEF Settles

LEMMA AgreeByCommand ==
  ASSUME Typed, FlowInv, AgreeInv, NEW n \in Names, NEW g, GateCommand(n, g),
         g = NextDefinition \/ g = FalseGate
  PROVE  AgreeInv'
<1> DEFINE c == Event("command", n, g)
<1>1. /\ Apply(Root, c) /\ users' = [users EXCEPT ![n] = @ \cup {User(g)}]
      /\ UNCHANGED <<queue, gates>>
  BY DEF GateCommand
<1>2. c.name = n /\ c.gate = g /\ g \in Definitions \cup {FalseGate}
  BY TypedByCommand DEF Event
<1> HIDE DEF c
<1>3. /\ dict'[Root][n] = Result(dict[Root][n], g)
      /\ \A q \in Processes, m \in Names :
           (q # Root \/ m # n) => (dict'[q][m] = dict[q][m])
  BY <1>1, <1>2, ApplyTyped, ProcessesDiffer DEF Result
<1>4. /\ \A p \in Processes : Pending(p) = {}
                              /\ Pending(p)' = IF p = Root THEN {} ELSE {c}
      /\ \A p \in Receivers : Drawings(p)' = Drawings(p)
  BY <1>1, FlowByCommand DEF Drawings, c
<1>5. /\ \A m \in Names : users[m] \subseteq users'[m]
      /\ User(g) \in users'[n] /\ User(g) # "Xamine"
      /\ \A m \in Names : ("Xamine" \in users'[m]) <=> ("Xamine" \in users[m])
      /\ \A m \in Names : (m # n) => (users'[m] = users[m])
  BY <1>1 DEF Typed, User
<1>6. /\ \A p \in Processes, m \in Names : Waits(p, m)' <=> (m = n /\ p # Root)
      /\ \A p \in Processes, m \in Names : ~Waits(p, m)
      /\ \A p \in Receivers, m \in Names : Drawn(p, m)' <=> Drawn(p, m)
  BY <1>2, <1>4 DEF Waits, Drawn
<1>7. \A q \in Processes, m \in Names : Exists(q, m) => Exists(q, m)'
  BY <1>2, <1>3, DefinitionNew DEF Exists, Result
<1>8. Known'
  <2>1. \A p \in Processes : \A e \in Pending(p)' : User(e.gate) \in users'[e.name]
    BY <1>2, <1>4, <1>5
  <2>2. \A p \in Receivers : \A e \in Drawings(p)' : "Xamine" \in users'[e.name]
    <3>1. ASSUME NEW p \in Receivers, NEW e \in Drawings(p)
          PROVE  e.name \in Names
      BY <3>1, PendingTyped DEF DrawnEvents
    <3> QED
      BY <1>4, <1>5, <3>1 DEF AgreeInv, Known
  <2>3. \A m \in Names : ("Xamine" \in users'[m]) =>
                           Exists(Sink, m)' /\ (Exists(Root, m)' \/ Drawn(Root, m)')
    BY <1>5, <1>6, <1>7, ProcessesDiffer DEF AgreeInv, Known
  <2> QED
    BY <2>1, <2>2, <2>3 DEF Known
<1>9. ASSUME NEW m \in Names, "Xamine" \notin users'[m], NEW p \in Processes
      PROVE  CommandFollows(p, m)'
  <2>1. dict[p][m] = dict[Root][m]
    BY <1>5, <1>6, <1>9 DEF AgreeInv, CommandFollows
  <2>2. CASE m = n
    BY <1>2, <1>3, <1>4, <1>6, <2>1, <2>2 DEF CommandFollows
  <2>3. CASE m # n
    BY <1>2, <1>3, <1>4, <1>6, <2>1, <2>3, ProcessesDiffer DEF CommandFollows
  <2> QED
    BY <2>2, <2>3
<1>10. ASSUME NEW m \in Names, "Xamine" \in users'[m], "delete" \notin users'[m]
       PROVE  Settles(m)'
  <2>1. Settles(m)
    BY <1>5, <1>10 DEF AgreeInv
  <2>2. CASE m # n
    <3>1. \A p \in Processes : dict'[p][m] = dict[p][m]
      BY <1>3, <2>2
    <3>2. \A p \in Processes : Waits(p, m)' <=> Waits(p, m)
      BY <1>6, <2>2
    <3>3. \A p \in Processes : \A e \in Pending(p)' : (e.name = m) => e \in Pending(p)
      BY <1>2, <1>4, <2>2
    <3> QED
      BY <1>4, <1>6, <2>1, <3>1, <3>2, <3>3, SettlesUnchanged
  <2>3. CASE m = n
    <3>1. g \in Definitions /\ dict'[Root][n] = g /\ g # Absent
      BY <1>2, <1>3, <1>5, <1>10, <2>3, DefinitionNew DEF User, Result
    <3>2. CASE Drawn(Root, n)
      BY <1>6, <2>3, <3>1, <3>2, ProcessesDiffer DEF Settles, Doomed, Exists
    <3>3. CASE ~Drawn(Root, n)
      <4>1. \A p \in Processes : RootFollows(p, n)'
        BY <1>2, <1>4, <1>6, <3>1 DEF RootFollows
      <4> QED
        BY <1>6, <2>3, <3>3, <4>1, ProcessesDiffer DEF Settles
    <3> QED
      BY <3>2, <3>3
  <2> QED
    BY <2>2, <2>3
<1> QED
  BY <1>8, <1>9, <1>10 DEF AgreeInv

LEMMA AgreeByDrawing ==
  ASSUME Typed, FlowInv, AgreeInv, NEW n \in Names, OnGate(n), Running'
  PROVE  AgreeInv'
<1> DEFINE g == Event("gate", n, NextDefinition)
<1>1. users' = [users EXCEPT ![n] = @ \cup {"Xamine"}]
  BY DEF OnGate
<1>2. g.name = n /\ g.gate = NextDefinition
  BY DEF Event
<1> HIDE DEF g
<1>3. /\ dict'[Sink][n] = NextDefinition /\ NextDefinition # Absent
      /\ \A q \in Processes, m \in Names :
           (q # Sink \/ m # n) => (dict'[q][m] = dict[q][m])
  BY TypedByDrawing, DefinitionNew
<1>4. /\ \A p \in Processes : Pending(p)' = Pending(p)
      /\ \A p \in Receivers : /\ Drawings(p) \subseteq Drawings(p)'
                              /\ Drawings(p)' \subseteq Drawings(p) \cup {g}
                              /\ g \in Drawings(p)'
  BY FlowByDrawing DEF g
<1>5. /\ \A m \in Names : users[m] \subseteq users'[m]
      /\ "Xamine" \in users'[n]
      /\ \A m \in Names : ("delete" \in users'[m]) <=> ("delete" \in users[m])
      /\ \A m \in Names : (m # n) => (users'[m] = users[m])
  BY <1>1 DEF Typed
<1>6. /\ \A p \in Processes, m \in Names : Waits(p, m)' <=> Waits(p, m)
      /\ \A p \in Receivers, m \in Names : Drawn(p, m)' <=> (Drawn(p, m) \/ m = n)
  BY <1>2, <1>4 DEF Waits, Drawn
<1>7. \A q \in Processes, m \in Names : Exists(q, m) => Exists(q, m)'
  BY <1>3 DEF Exists
<1>8. Known'
  <2>1. /\ \A p \in Processes : \A e \in Pending(p) : e.name \in Names
        /\ \A p \in Receivers : \A e \in Drawings(p) : e.name \in Names
    BY PendingTyped DEF CommandEvents, DrawnEvents
  <2>2. \A p \in Processes : \A e \in Pending(p)' : User(e.gate) \in users'[e.name]
    BY <1>4, <1>5, <2>1 DEF AgreeInv, Known
  <2>3. \A p \in Receivers : \A e \in Drawings(p)' : "Xamine" \in users'[e.name]
    BY <1>2, <1>4, <1>5, <2>1 DEF AgreeInv, Known
  <2>4. \A m \in Names : ("Xamine" \in users'[m]) =>
                           Exists(Sink, m)' /\ (Exists(Root, m)' \/ Drawn(Root, m)')
    BY <1>3, <1>5, <1>6, <1>7, ProcessesDiffer DEF AgreeInv, Known, Exists
  <2> QED
    BY <2>2, <2>3, <2>4 DEF Known
<1>9. ASSUME NEW m \in Names, "Xamine" \notin users'[m], NEW p \in Processes
      PROVE  CommandFollows(p, m)'
  <2>1. m # n /\ CommandFollows(p, m)
    BY <1>5, <1>9 DEF AgreeInv
  <2> QED
    BY <1>3, <1>4, <1>6, <2>1, ProcessesDiffer DEF CommandFollows
<1>10. ASSUME NEW m \in Names, "Xamine" \in users'[m], "delete" \notin users'[m]
       PROVE  Settles(m)'
  <2>1. CASE m # n
    <3>1. Settles(m)
      BY <1>5, <1>10, <2>1 DEF AgreeInv
    <3>2. \A p \in Processes : dict'[p][m] = dict[p][m]
      BY <1>3, <2>1
    <3>3. \A p \in Receivers : Drawn(p, m)' <=> Drawn(p, m)
      BY <1>6, <2>1
    <3> QED
      BY <1>4, <1>6, <3>1, <3>2, <3>3, SettlesUnchanged
  <2>2. CASE m = n
    <3>1. "delete" \notin users[n]
      BY <1>5, <1>10, <2>2
    <3>2. \A p \in Receivers : Drawn(p, n)'
      BY <1>6
    <3>3. CASE \E p \in Receivers : Exists(p, n)
      BY <1>7, <2>2, <3>2, <3>3, ProcessesDiffer DEF Settles, Doomed
    <3>4. CASE \A p \in Receivers : ~Exists(p, n)
      <4>1. dict[Root][n] = Absent /\ ~Doomed(n)
        BY <3>4, ProcessesDiffer DEF Exists, Doomed
      <4>2. ASSUME NEW p \in Processes, NEW e \in Pending(p), e.name = n
            PROVE  FALSE
        <5>1. e.gate # Absent /\ e.gate # FalseGate
          BY <3>1, <4>2, WaitingDefines
        <5>2. Waits(p, n)
          BY <4>2 DEF Waits
        <5>3. CASE "Xamine" \in users[n]
          <6>1. Settles(n)
            BY <3>1, <5>3 DEF AgreeInv
          <6>2. RootFollows(p, n)
            BY <4>1, <5>2, <6>1 DEF Settles
          <6> QED
            BY <4>1, <4>2, <5>1, <6>2 DEF RootFollows
        <5>4. CASE "Xamine" \notin users[n]
          <6>1. CommandFollows(p, n)
            BY <5>4 DEF AgreeInv
          <6> QED
            BY <4>1, <4>2, <5>1, <6>1 DEF CommandFollows, Result
        <5> QED
          BY <5>3, <5>4
      <4>3. \A p \in Processes : ~Waits(p, n)'
        BY <1>6, <4>2 DEF Waits
      <4>4. \A p \in Receivers : DrawingFollows(p, n)'
        BY <1>2, <1>3, <1>4 DEF DrawingFollows, Brings
      <4> QED
        BY <2>2, <3>2, <4>3, <4>4, ProcessesDiffer DEF Settles
    <3> QED
      BY <3>3, <3>4
  <2> QED
    BY <2>1, <2>2
<1> QED
  BY <1>8, <1>9, <1>10 DEF AgreeInv

LEMMA AgreeByThreads ==
  ASSUME Typed, FlowInv, AgreeInv, NEW p \in Processes, Pump(p) \/ ReceiveTrace
  PROVE  AgreeInv'
<1>1. /\ UNCHANGED <<dict, users>>
      /\ \A q \in Processes : Pending(q)' = Pending(q)
      /\ \A q \in Receivers : Drawings(q)' = Drawings(q)
  BY FlowByThreads
<1>2. /\ \A q \in Processes, n \in Names : Waits(q, n)' <=> Waits(q, n)
      /\ \A q \in Receivers, n \in Names : Drawn(q, n)' <=> Drawn(q, n)
  BY <1>1 DEF Waits, Drawn
<1>3. Known'
  BY <1>1, <1>2, ProcessesDiffer DEF AgreeInv, Known, Exists
<1>4. \A n \in Names, q \in Processes : CommandFollows(q, n) => CommandFollows(q, n)'
  BY <1>1, <1>2 DEF CommandFollows
<1>5. \A n \in Names : Settles(n) => Settles(n)'
  BY <1>1, <1>2, SettlesUnchanged
<1> QED
  BY <1>1, <1>3, <1>4, <1>5 DEF AgreeInv

\* A process executes the command that waited for it.
LEMMA AgreeByExecution ==
  ASSUME Typed, AgreeInv, NEW p \in Processes, NEW e, e.kind = "command",
         p # Root, Pending(p) = {e}, Pending(p)' = {}, Apply(p, e),
         \A q \in Processes : (q # p) => (Pending(q)' = Pending(q)),
         \A q \in Receivers : Drawings(q)' = Drawings(q), UNCHANGED users
  PROVE  AgreeInv'
<1> DEFINE n == e.name
<1>1. n \in Names /\ e.gate \in Definitions \cup {FalseGate} /\ e.gate # Absent
  BY PendingTyped, DefinitionNew DEF CommandEvents
<1>2. /\ dict'[p][n] = Result(dict[p][n], e.gate)
      /\ \A q \in Processes, m \in Names :
           (q # p \/ m # n) => (dict'[q][m] = dict[q][m])
  BY <1>1, ApplyTyped DEF Result
<1>3. User(e.gate) \in users[n] /\ \A m : Waits(p, m) <=> m = n
  BY DEF AgreeInv, Known, Waits
<1> HIDE DEF n
<1>4. /\ \A q \in Processes, m \in Names : Waits(q, m)' <=> (Waits(q, m) /\ q # p)
      /\ \A q \in Receivers, m \in Names : Drawn(q, m)' <=> Drawn(q, m)
  BY DEF Waits, Drawn
<1>5. \A q \in Processes, m \in Names : Exists(q, m) => Exists(q, m)'
  BY <1>1, <1>2 DEF Exists, Result
<1>6. Known'
  BY <1>4, <1>5, ProcessesDiffer DEF AgreeInv, Known
<1>7. ASSUME NEW m \in Names, "Xamine" \notin users[m], NEW q \in Processes
      PROVE  CommandFollows(q, m)'
  <2>1. CommandFollows(q, m) /\ dict'[Root][m] = dict[Root][m]
    BY <1>2, <1>7, ProcessesDiffer DEF AgreeInv
  <2>2. CASE q = p /\ m = n
    <3>1. Result(dict[p][n], e.gate) = dict[Root][n]
      BY <2>1, <2>2 DEF CommandFollows, n
    <3> QED
      BY <1>2, <2>1, <2>2, <3>1 DEF CommandFollows
  <2>3. CASE q = p /\ m # n
    <3>1. dict'[p][m] = dict[Root][m]
      BY <1>2, <1>3, <2>1, <2>3 DEF CommandFollows
    <3> QED
      BY <2>1, <2>3, <3>1 DEF CommandFollows
  <2>4. CASE q # p
    BY <1>2, <1>4, <2>1, <2>4 DEF CommandFollows
  <2> QED
    BY <2>2, <2>3, <2>4
<1>8. ASSUME NEW m \in Names, "Xamine" \in users[m], "delete" \notin users[m]
      PROVE  Settles(m)'
  <2>1. Settles(m)
    BY <1>8 DEF AgreeInv
  <2>2. CASE m # n
    <3>1. \A q \in Processes : dict'[q][m] = dict[q][m]
      BY <1>2, <2>2
    <3>2. \A q \in Processes : Waits(q, m)' <=> Waits(q, m)
      BY <1>3, <1>4, <2>2
    <3>3. \A q \in Processes : \A x \in Pending(q)' : (x.name = m) => x \in Pending(q)
      OBVIOUS
    <3> QED
      BY <1>4, <2>1, <3>1, <3>2, <3>3, SettlesUnchanged
  <2>3. CASE m = n
    <3>1. CASE Doomed(n)
      BY <1>4, <1>5, <2>3, <3>1, ProcessesDiffer DEF Settles, Doomed
    <3>2. CASE ~Doomed(n)
      <4>1. ~Drawn(Root, n) /\ \A q \in Processes : RootFollows(q, n)
        BY <1>3, <2>1, <2>3, <3>2 DEF Settles
      <4>2. dict'[p][n] = dict[Root][n] /\ dict'[Root][n] = dict[Root][n]
        <5>1. e.gate = dict[Root][n]
          BY <4>1 DEF RootFollows, n
        <5>2. e.gate # FalseGate
          BY <1>3, <1>8, <2>3 DEF User
        <5> QED
          BY <1>1, <1>2, <5>1, <5>2, ProcessesDiffer DEF Result
      <4>3. ASSUME NEW q \in Processes, q # p
            PROVE  RootFollows(q, n)'
        <5>1. RootFollows(q, n) /\ dict'[q][n] = dict[q][n]
          BY <1>1, <1>2, <4>1, <4>3
        <5>2. Brings(q, n, dict[Root][n]) /\ q \in Receivers => Brings(q, n, dict[Root][n])'
          BY <4>2 DEF Brings
        <5> QED
          BY <1>1, <1>4, <4>2, <4>3, <5>1, <5>2 DEF RootFollows
      <4>4. RootFollows(p, n)'
        BY <4>2 DEF RootFollows
      <4> QED
        BY <1>1, <1>4, <2>3, <4>1, <4>3, <4>4, ProcessesDiffer DEF Settles
    <3> QED
      BY <3>1, <3>2
  <2> QED
    BY <2>2, <2>3
<1> QED
  BY <1>6, <1>7, <1>8 DEF AgreeInv

\* A process enters a gate that was drawn and that it does not have.
LEMMA AgreeByEntry ==
  ASSUME Typed, AgreeInv, NEW p \in Receivers, NEW e \in Drawings(p), ~Exists(p, e.name),
         dict' = [dict EXCEPT ![p][e.name] = e.gate],
         Drawings(p)' \subseteq Drawings(p), Drawings(p) \subseteq Drawings(p)' \cup {e},
         \A q \in Receivers : (q # p) => (Drawings(q)' = Drawings(q)),
         \A q \in Processes : Pending(q)' = Pending(q), UNCHANGED users
  PROVE  AgreeInv'
<1> DEFINE n == e.name
<1>1. /\ n \in Names /\ e.gate \in Definitions /\ e.gate # Absent
      /\ "Xamine" \in users[n] /\ Exists(Sink, n) /\ Drawn(p, n)
  BY PendingTyped, DefinitionNew DEF AgreeInv, Known, DrawnEvents, Drawn
<1>2. /\ dict'[p][n] = e.gate
      /\ \A q \in Processes, m \in Names :
           (q # p \/ m # n) => (dict'[q][m] = dict[q][m])
  BY <1>1, ProcessesDiffer DEF Typed
<1> HIDE DEF n
<1>3. /\ \A q \in Processes, m \in Names : Waits(q, m)' <=> Waits(q, m)
      /\ \A q \in Receivers, m \in Names : (q # p \/ m # n) => (Drawn(q, m)' <=> Drawn(q, m))
  <2>1. \A m \in Names : m # n => (Drawn(p, m)' <=> Drawn(p, m))
    BY DEF Drawn, n
  <2> QED
    BY <2>1 DEF Waits, Drawn
<1>4. /\ \A q \in Processes, m \in Names : Exists(q, m) => Exists(q, m)'
      /\ Exists(p, n)' /\ ~Exists(p, n) /\ p \in Processes /\ p # Sink
  BY <1>1, <1>2, ProcessesDiffer DEF Exists, n
<1>5. Known'
  <2>1. \A m \in Names : (Exists(Root, m) \/ Drawn(Root, m)) => (Exists(Root, m)' \/ Drawn(Root, m)')
    <3> SUFFICES ASSUME NEW m \in Names, Drawn(Root, m), ~Exists(Root, m)
                 PROVE  Exists(Root, m)' \/ Drawn(Root, m)'
      BY <1>4, ProcessesDiffer
    <3>1. CASE Root = p /\ m = n
      BY <1>4, <3>1
    <3>2. CASE ~(Root = p /\ m = n)
      BY <1>3, <3>2, ProcessesDiffer
    <3> QED
      BY <3>1, <3>2
  <2>2. \A q \in Receivers : \A x \in Drawings(q)' : "Xamine" \in users'[x.name]
    BY DEF AgreeInv, Known
  <2> QED
    BY <1>4, <2>1, <2>2, ProcessesDiffer DEF AgreeInv, Known
<1>6. ASSUME NEW m \in Names, "Xamine" \notin users[m], NEW q \in Processes
      PROVE  CommandFollows(q, m)'
  <2>1. CommandFollows(q, m) /\ m # n
    BY <1>1, <1>6 DEF AgreeInv
  <2> QED
    BY <1>2, <1>3, <2>1, ProcessesDiffer DEF CommandFollows
<1>7. ASSUME NEW m \in Names, "Xamine" \in users[m], "delete" \notin users[m]
      PROVE  Settles(m)'
  <2>1. Settles(m)
    BY <1>7 DEF AgreeInv
  <2>2. CASE m # n
    <3>1. \A q \in Processes : dict'[q][m] = dict[q][m]
      BY <1>2, <2>2
    <3>2. \A q \in Receivers : Drawn(q, m)' <=> Drawn(q, m)
      BY <1>3, <2>2
    <3>3. \A q \in Receivers : \A x \in Drawings(q) : (x.name = m) => x \in Drawings(q)'
      BY <2>2 DEF n
    <3> QED
      BY <1>3, <2>1, <3>1, <3>2, <3>3, SettlesUnchanged
  <2>3. CASE m = n /\ Doomed(n)
    <3>1. PICK q \in Receivers : Exists(q, n) /\ Drawn(q, n)
      BY <2>3 DEF Doomed
    <3>2. q # p
      BY <1>4, <3>1
    <3>3. Exists(q, n)' /\ Drawn(q, n)'
      BY <1>1, <1>3, <1>4, <3>1, <3>2, ProcessesDiffer
    <3> QED
      BY <2>3, <3>3 DEF Settles, Doomed
  <2>4. CASE m = n /\ Drawn(p, n)'
    BY <1>4, <2>4 DEF Settles, Doomed
  <2>5. CASE m = n /\ ~Doomed(n) /\ ~Drawn(p, n)'
    <3>1. \A g : Brings(p, n, g) => (dict'[p][n] = g)
      <4> SUFFICES ASSUME NEW g, NEW x \in Drawings(p), x.name = n, x.gate = g
                   PROVE  dict'[p][n] = g
        BY DEF Brings
      <4>1. x = e
        BY <2>5 DEF Drawn
      <4> QED
        BY <1>2, <4>1
    <3>2. ASSUME NEW q \in Processes, q # p
          PROVE  /\ dict'[q][n] = dict[q][n]
                 /\ q \in Receivers => Drawings(q)' = Drawings(q)
      BY <1>1, <1>2, <3>2
    <3>3. CASE Drawn(Root, n)
      <4>1. /\ \A q \in Processes : ~Waits(q, n)
            /\ \A q \in Receivers : DrawingFollows(q, n)
        BY <2>1, <2>5, <3>3 DEF Settles
      <4>2. dict'[p][n] = dict[Sink][n] /\ dict'[Sink][n] = dict[Sink][n]
        <5>1. dict[p][n] # dict[Sink][n]
          BY <1>1, <1>4 DEF Exists
        <5> QED
          BY <1>4, <3>1, <3>2, <4>1, <5>1, ProcessesDiffer DEF DrawingFollows
      <4>3. CASE p = Root
        <5>1. \A q \in Processes : RootFollows(q, n)'
          <6> SUFFICES ASSUME NEW q \in Processes
                       PROVE  RootFollows(q, n)'
            OBVIOUS
          <6>1. \A x \in Pending(q)' : x.name # n
            BY <4>1 DEF Waits
          <6>2. CASE q = p
            BY <4>3, <6>1, <6>2 DEF RootFollows
          <6>3. CASE q = Sink
            BY <4>2, <4>3, <6>1, <6>3 DEF RootFollows
          <6>4. CASE q \in Receivers /\ q # p
            <7>1. DrawingFollows(q, n) /\ dict'[q][n] = dict[q][n] /\ Drawings(q)' = Drawings(q)
              BY <3>2, <4>1, <6>4
            <7>2. dict'[Root][n] = dict[Sink][n]
              BY <4>2, <4>3
            <7>3. Brings(q, n, dict[Sink][n]) => Brings(q, n, dict[Root][n])'
              BY <7>1, <7>2 DEF Brings
            <7> QED
              BY <6>1, <6>4, <7>1, <7>2, <7>3 DEF RootFollows, DrawingFollows
          <6> QED
            BY <6>2, <6>3, <6>4, ProcessesDiffer
        <5> QED
          BY <2>5, <4>3, <5>1 DEF Settles
      <4>4. CASE p # Root
        <5>1. Drawn(Root, n)' /\ \A q \in Processes : ~Waits(q, n)'
          BY <1>1, <1>3, <3>3, <4>1, <4>4, ProcessesDiffer
        <5>2. ASSUME NEW q \in Receivers
              PROVE  DrawingFollows(q, n)'
          <6>1. CASE q = p
            BY <4>2, <6>1 DEF DrawingFollows
          <6>2. CASE q # p
            <7>1. DrawingFollows(q, n) /\ dict'[q][n] = dict[q][n] /\ Drawings(q)' = Drawings(q)
              BY <3>2, <4>1, <6>2, ProcessesDiffer
            <7>2. Brings(q, n, dict[Sink][n]) => Brings(q, n, dict[Sink][n])'
              BY <4>2, <7>1 DEF Brings
            <7> QED
              BY <4>2, <7>1, <7>2 DEF DrawingFollows
          <6> QED
            BY <6>1, <6>2
        <5> QED
          BY <2>5, <5>1, <5>2 DEF Settles
      <4> QED
        BY <4>3, <4>4
    <3>4. CASE ~Drawn(Root, n)
      <4>1. /\ \A q \in Processes : RootFollows(q, n)
            /\ p # Root /\ Exists(Root, n)
        BY <1>1, <1>7, <2>1, <2>5, <3>4 DEF Settles, AgreeInv, Known
      <4>2. dict'[Root][n] = dict[Root][n] /\ dict[Root][n] # dict[p][n]
        BY <1>4, <3>2, <4>1, ProcessesDiffer DEF Exists
      <4>3. RootFollows(p, n)'
        <5>1. Waits(p, n) \/ dict'[p][n] = dict[Root][n]
          BY <1>4, <3>1, <4>1, <4>2 DEF RootFollows
        <5>2. \A x \in Pending(p)' : x.name = n => x.gate = dict'[Root][n]
          BY <1>4, <4>1, <4>2 DEF RootFollows
        <5> QED
          BY <1>1, <1>3, <1>4, <4>2, <5>1, <5>2 DEF RootFollows
      <4>4. ASSUME NEW q \in Processes, q # p
            PROVE  RootFollows(q, n)'
        <5>1. RootFollows(q, n) /\ dict'[q][n] = dict[q][n] /\ Pending(q)' = Pending(q)
          BY <3>2, <4>1, <4>4
        <5>2. q \in Receivers /\ Brings(q, n, dict[Root][n]) => Brings(q, n, dict[Root][n])'
          BY <3>2, <4>2, <4>4 DEF Brings
        <5> QED
          BY <1>1, <1>3, <4>2, <5>1, <5>2 DEF RootFollows
      <4>5. ~Drawn(Root, n)'
        BY <1>1, <1>3, <3>4, <4>1, ProcessesDiffer
      <4> QED
        BY <2>5, <4>3, <4>4, <4>5 DEF Settles
    <3> QED
      BY <3>3, <3>4
  <2> QED
    BY <2>2, <2>3, <2>4, <2>5
<1> QED
  BY <1>5, <1>6, <1>7 DEF AgreeInv

LEMMA AgreeByEvent ==
  ASSUME Typed, FlowInv, AgreeInv, NEW p \in Processes, HandleEvent(p), Running'
  PROVE  AgreeInv'
<1> DEFINE e == Head(queue[p])
<1>1. /\ UNCHANGED users
      /\ ExecuteCommand(p, e) \/ GateEventHandler(p, e) \/ TraceRelayEventHandler(p, e)
  BY DEF HandleEvent
<1>2. /\ \A q \in Processes : (q # p) => (Pending(q)' = Pending(q))
      /\ \A q \in Receivers : (q # p) => (Drawings(q)' = Drawings(q))
      /\ (e.kind = "command") => (Pending(p) = {e} /\ Pending(p)' = {} /\ p # Root)
      /\ (e.kind # "command") => (Pending(p)' = Pending(p))
      /\ (p \in Receivers /\ e.kind # "gate") => (Drawings(p)' = Drawings(p))
      /\ (e.kind = "gate") =>
           /\ p \in Receivers /\ e \in Drawings(p)
           /\ Drawings(p)' \subseteq Drawings(p)
           /\ Drawings(p) \subseteq Drawings(p)' \cup {e}
  BY FlowByEvent
<1> HIDE DEF e
<1>3. CASE ExecuteCommand(p, e)
  <2>1. e.kind = "command" /\ Apply(p, e)
    BY <1>3 DEF ExecuteCommand
  <2>2. \A q \in Receivers : Drawings(q)' = Drawings(q)
    BY <1>2, <2>1
  <2> QED
    BY <1>1, <1>2, <2>1, <2>2, AgreeByExecution
<1>4. CASE GateEventHandler(p, e)
  <2>1. /\ e.kind = "gate" /\ ~Exists(p, e.name) /\ dict' = [dict EXCEPT ![p][e.name] = e.gate]
    BY <1>4 DEF GateEventHandler, Running
  <2>2. \A q \in Processes : Pending(q)' = Pending(q)
    BY <1>2, <2>1
  <2> QED
    BY <1>1, <1>2, <2>1, <2>2, AgreeByEntry
<1>5. CASE TraceRelayEventHandler(p, e)
  <2>1. /\ UNCHANGED dict
        /\ \A q \in Processes : Pending(q)' = Pending(q)
        /\ \A q \in Receivers : Drawings(q)' = Drawings(q)
    BY <1>2, <1>5 DEF TraceRelayEventHandler
  <2>2. /\ \A q \in Processes, n \in Names : Waits(q, n)' <=> Waits(q, n)
        /\ \A q \in Receivers, n \in Names : Drawn(q, n)' <=> Drawn(q, n)
    BY <2>1 DEF Waits, Drawn
  <2>3. Known'
    BY <1>1, <2>1, <2>2, ProcessesDiffer DEF AgreeInv, Known, Exists
  <2>4. \A n \in Names, q \in Processes : CommandFollows(q, n) => CommandFollows(q, n)'
    BY <2>1, <2>2 DEF CommandFollows
  <2>5. \A n \in Names : Settles(n) => Settles(n)'
    BY <2>1, <2>2, SettlesUnchanged
  <2> QED
    BY <1>1, <2>3, <2>4, <2>5 DEF AgreeInv
<1> QED
  BY <1>1, <1>3, <1>4, <1>5

---------------------------------------------------------------------------
(* The theorems                                                             *)

LEMMA GatesInit ==
  ASSUME Init
  PROVE  GatesInv
<1>1. Elements(<<>>) = {} /\ Len(<<>>) = 0 /\ CommandAlone(<<>>)
  BY DEF Elements, CommandAlone
<1>2. Typed
  BY GatesAssumption DEF Init, Typed, Gate, Absent
<1>3. \A p \in Processes : queue[p] = <<>> /\ calls[p] = <<>> /\ Commands(queue[p]) = {}
  BY <1>1 DEF Init, Commands
<1>4. \A p \in Processes : OneCommand(p) /\ QueueFits(p) /\ Pending(p) = {}
  BY <1>1, <1>3 DEF Init, OneCommand, QueueFits, Pending
<1>5. \A p \in Receivers : Drawings(p) = {} /\ Len(gates[p]) <= drawn
  BY <1>1, <1>3, ProcessesDiffer DEF Init, Drawings
<1>6. /\ \A n \in Names : users[n] = {}
      /\ \A p \in Processes, n \in Names : dict[p][n] = Absent
  BY DEF Init
<1>7. AgreeInv
  BY <1>4, <1>5, <1>6, ProcessesDiffer DEF AgreeInv, Known, CommandFollows
<1> QED
  BY <1>2, <1>4, <1>5, <1>7 DEF GatesInv, FlowInv, GatesCounted

LEMMA GatesInvariant == Spec => []GatesInv
<1>1. Init => GatesInv
  BY GatesInit
<1>2. GatesInv /\ [Next]_vars => GatesInv'
  <2> SUFFICES ASSUME GatesInv, [Next]_vars
               PROVE  GatesInv'
    OBVIOUS
  <2>1. Typed /\ FlowInv
    BY DEF GatesInv
  <2>2. CASE UNCHANGED vars
    <3>1. UNCHANGED <<dict, calls, gates, relay, queue, waiting, failed, commands, drawn, users>>
      BY <2>2 DEF vars, threadVars, history
    <3>2. Typed'
      BY <2>1, <3>1 DEF Typed
    <3>3. FlowInv'
      BY <2>1, <3>1 DEF FlowInv, GatesCounted, OneCommand, QueueFits
    <3>4. AgreeInv' <=> AgreeInv
      BY <3>1 DEF AgreeInv, Known, CommandFollows, Settles, Doomed, Waits, Brings, Drawn,
                  DrawingFollows, RootFollows, Pending, Drawings, Exists
    <3>5. Running' <=> Running
      BY <3>1 DEF Running
    <3> QED
      BY <3>2, <3>3, <3>4, <3>5 DEF GatesInv
  <2>3. CASE Next
    <3>1. AgreeInv
      BY <2>3 DEF Next, GatesInv
    <3>2. ASSUME NEW n \in Names, OnGate(n)
          PROVE  GatesInv'
      BY <2>1, <3>1, <3>2, TypedByDrawing, FlowByDrawing, AgreeByDrawing DEF GatesInv
    <3>3. ASSUME NEW n \in Names, NEW g, GateCommand(n, g),
                 g = NextDefinition \/ g = FalseGate
          PROVE  GatesInv'
      BY <2>1, <3>1, <3>3, TypedByCommand, FlowByCommand, AgreeByCommand DEF GatesInv
    <3>4. ASSUME NEW p \in Processes, Pump(p) \/ ReceiveTrace
          PROVE  GatesInv'
      BY <2>1, <3>1, <3>4, TypedByThreads, FlowByThreads, AgreeByThreads DEF GatesInv
    <3>5. ASSUME NEW p \in Processes, HandleEvent(p)
          PROVE  GatesInv'
      BY <2>1, <3>1, <3>5, TypedByEvent, FlowByEvent, AgreeByEvent DEF GatesInv
    <3> QED
      BY <2>3, <3>2, <3>3, <3>4, <3>5, ProcessesDiffer DEF Next
  <2> QED
    BY <2>2, <2>3
<1> QED
  BY <1>1, <1>2, PTL DEF Spec

\* At most one gate command is executed at a time: a process has one on its way
\* or in its queue exactly if the root waits for it, and only the root has
\* traces to run (constructMpiTclStatus, CommandPumpThread, gateThread).
THEOREM CommandsOneByOne == Spec => []TypeOK
<1>1. GatesInv => TypeOK
  <2> SUFFICES ASSUME GatesInv
               PROVE  TypeOK
    OBVIOUS
  <2>1. Typed /\ FlowInv
    BY DEF GatesInv
  <2>2. ASSUME NEW p \in Processes
        PROVE  Len(calls[p]) + Cardinality({k \in DOMAIN queue[p] : queue[p][k].kind = "command"})
                 = IF p \in waiting THEN 1 ELSE 0
    <3> DEFINE C == {k \in DOMAIN queue[p] : queue[p][k].kind = "command"}
    <3>1. OneCommand(p)
      BY <2>1 DEF FlowInv
    <3>2. (Commands(queue[p]) = {}) <=> (C = {})
      BY DEF Commands, Elements
    <3>3. \A j, k \in C : j = k
      BY <3>1 DEF OneCommand, CommandAlone
    <3>4. Cardinality(C) = IF C = {} THEN 0 ELSE 1
      <4>1. CASE C = {}
        BY <4>1, FS_EmptySet
      <4>2. CASE C # {}
        <5>1. PICK k \in C : C = {k}
          BY <3>3, <4>2
        <5> HIDE DEF C
        <5> QED
          BY <4>2, <5>1, FS_Singleton
      <4> QED
        BY <4>1, <4>2
    <3> HIDE DEF C
    <3>5. Len(calls[p]) = IF calls[p] = <<>> THEN 0 ELSE 1
      <4> DEFINE l == Len(calls[p])
      <4>1. calls[p] \in Seq(CommandEvents)
        BY <2>1 DEF Typed
      <4>2. l \in Nat /\ ((calls[p] = <<>>) <=> (l = 0))
        BY <4>1, EmptySeq
      <4>3. l <= 1
        BY <3>1 DEF OneCommand
      <4> HIDE DEF l
      <4>4. l = 0 \/ l = 1
        BY <4>2, <4>3
      <4> QED
        BY <4>2, <4>4 DEF l
    <3>6. Len(calls[p]) + Cardinality(C) = IF p \in waiting THEN 1 ELSE 0
      <4>1. CASE calls[p] # <<>>
        <5>1. p \in waiting /\ C = {}
          BY <3>1, <3>2, <4>1 DEF OneCommand
        <5>2. Len(calls[p]) = 1
          BY <3>5, <4>1
        <5>3. Cardinality(C) = 0
          BY <3>4, <5>1
        <5> QED
          BY <5>1, <5>2, <5>3
      <4>2. CASE calls[p] = <<>>
        <5>1. (p \in waiting) <=> (C # {})
          BY <3>1, <3>2, <4>2 DEF OneCommand
        <5>2. Len(calls[p]) = 0
          BY <3>5, <4>2
        <5> QED
          BY <3>4, <5>1, <5>2
      <4> QED
        BY <4>1, <4>2
    <3> QED
      BY <3>6 DEF C
  <2>3. \A p \in Processes : \A k \in DOMAIN queue[p] :
          queue[p][k].kind = "trace" => p = Root
    BY <2>1 DEF FlowInv, QueueFits, Elements
  <2> QED
    BY <2>1, <2>2, <2>3 DEF TypeOK, Typed, Gate, FlowInv, GatesCounted
<1> QED
  BY <1>1, GatesInvariant, PTL

\* Once everything that was sent has been handled, and no process has failed,
\* all dictionaries hold the same gates, but for those that were both drawn and
\* deleted: AddGate and DeleteGates in every process, broadcastGate and
\* gateEventHandler.
THEOREM DictionariesAgree == Spec => []GatesAgree
<1>1. GatesInv => GatesAgree
  <2> SUFFICES ASSUME GatesInv, Quiet, Running, NEW n \in Names,
                      ~({"delete", "Xamine"} \subseteq users[n]), NEW p \in Receivers
               PROVE  dict[p][n] = dict[Sink][n]
    BY DEF GatesAgree
  <2>1. Typed /\ FlowInv /\ AgreeInv
    BY DEF GatesInv
  <2>2. \A q \in Processes, m \in Names : Pending(q) = {} /\ ~Waits(q, m)
    BY <2>1, NothingPending DEF Quiet, FlowInv, Waits
  <2>3. \A q \in Receivers : Drawings(q) = {}
    BY ProcessesDiffer DEF Quiet, Drawings, Elements
  <2>4. CASE "Xamine" \notin users[n]
    BY <2>1, <2>2, <2>4, ProcessesDiffer DEF AgreeInv, CommandFollows
  <2>5. CASE "Xamine" \in users[n]
    <3>1. Settles(n)
      BY <2>1, <2>5 DEF AgreeInv
    <3>2. ~Doomed(n) /\ ~Drawn(Root, n)
      BY <2>3, ProcessesDiffer DEF Doomed, Drawn
    <3>3. \A q \in Processes : RootFollows(q, n)
      BY <3>1, <3>2 DEF Settles
    <3>4. \A q \in Processes : dict[q][n] = dict[Root][n]
      BY <2>2, <2>3, <3>3 DEF RootFollows, Brings
    <3> QED
      BY <3>4, ProcessesDiffer
  <2> QED
    BY <2>4, <2>5
<1> QED
  BY <1>1, GatesInvariant, PTL
=============================================================================
