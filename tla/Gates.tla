-------------------------------- MODULE Gates -------------------------------
(***************************************************************************)
(* The gate dictionaries of mpiSpecTcl.  Each process keeps its own.  The  *)
(* gate command of the root (Core/GateCommand.cpp, GatePackage.cpp) is     *)
(* executed in all of them by the Tcl pump, as module RemoteCommand says.  *)
(* Gates drawn in Xamine enter the dictionary of the event sink process    *)
(* (Core/XamineEventHandler.cpp), which broadcasts them to the gate pumps  *)
(* of the others (Core/GatePump.cpp).  The histogrammer of the event sink  *)
(* process relays each change it makes to the trace pump of the root,      *)
(* which runs the user's gate traces (Core/Histogrammer.cpp).              *)
(*                                                                         *)
(* Every pump is a thread that queues Tcl events for the main thread.      *)
(***************************************************************************)
EXTENDS Integers, Sequences, FiniteSets, SequencesExt

CONSTANTS
  Root, Sink, Workers,   \* the processes
  Names,                 \* of gates
  MaxCommands,           \* bound on the gate commands
  MaxDrawn               \* bound on the gates drawn in Xamine

ASSUME GatesAssumption ==
  /\ Root # Sink /\ {Root, Sink} \cap Workers = {}
  /\ MaxCommands \in Nat /\ MaxDrawn \in Nat

Processes == {Root, Sink} \cup Workers
Receivers == Processes \ {Sink}

VARIABLES
  dict,      \* each process's gate dictionary
  calls,     \* the command on its way to each process
  gates,     \* gates broadcast and not yet received by each receiver's gateThread
  relay,     \* trace messages on their way to the root
  queue,     \* the Tcl event queue of each main thread
  waiting,   \* the processes whose replies the root's command waits for
  failed,    \* the exception nobody caught that ended a process, or "none"
  \* history
  commands, drawn,   \* how many commands and drawn gates there were
  users,     \* what changed each gate: "command", "delete" (also of the gate command), "Xamine"
  changed,   \* the traces the sink's histogrammer fired, in order
  traced     \* the traces the root's scripts were run for, by the trace pump

threadVars == <<calls, gates, relay, queue, waiting>>
history == <<commands, drawn, users, changed, traced>>
vars == <<dict, threadVars, failed, history>>

---------------------------------------------------------------------------
(* Helpers *)

Absent == 0
FalseGate == -1     \* what a deleted gate is replaced by
Definitions == 1 .. MaxCommands + MaxDrawn
Running == failed = "none"
NextDefinition == commands + drawn + 1
Exists(p, n) == dict[p][n] # Absent

Event(kind, name, gate) == [kind |-> kind, name |-> name, gate |-> gate]
\* variant: new events go in front
QueueAtHead(p, e) == queue' = [queue EXCEPT ![p] = <<e>> \o @]
\* Tcl_ThreadQueueEvent(TCL_QUEUE_TAIL)
QueueEvent(p, e) == queue' = [queue EXCEPT ![p] = Append(@, e)]

\* CHistogrammerGateTraceRelay: onAdd for a new name, onChange for any other
Trace(n) == [type |-> IF Exists(Sink, n) THEN "change" ELSE "add", name |-> n]
ForwardTrace(n) ==
  /\ relay' = Append(relay, Trace(n))
  /\ changed' = Append(changed, Trace(n))

---------------------------------------------------------------------------
(* The gate command *)

\* CGatePackage::AddGate replaces the gate or else adds it.  DeleteGates replaces it by
\* a gate that is always false; a name that does not exist is an error.
Applies(p, c) == c.gate # FalseGate \/ Exists(p, c.name)
Apply(p, c) ==
  IF Applies(p, c)
  THEN /\ dict' = [dict EXCEPT ![p][c.name] = c.gate]
       /\ IF p = Sink THEN ForwardTrace(c.name) ELSE UNCHANGED <<relay, changed>>
  ELSE UNCHANGED <<dict, relay, changed>>

\* variant: the event sink's reply is not collected
RepliesFromWorkers == Workers
\* constructMpiTclStatus waits for all but the root
RepliesFrom == Processes \ {Root}

User(gate) == IF gate = FalseGate THEN "delete" ELSE "command"
\* The root executes the command itself and, whether that fails or not, sends it to all others; its event loop
\* stands still until they have replied.
GateCommand(n, gate) ==
  /\ waiting = {} /\ commands < MaxCommands /\ commands' = commands + 1
  /\ Apply(Root, Event("command", n, gate))
  /\ calls' = [p \in Processes |-> IF p = Root THEN <<>> ELSE <<Event("command", n, gate)>>]
  /\ waiting' = RepliesFrom
  /\ users' = [users EXCEPT ![n] = @ \cup {User(gate)}]
  /\ UNCHANGED <<gates, queue, failed, drawn, traced>>

\* CommandPumpThread
ReceiveCommand(p) ==
  /\ calls[p] # <<>>
  /\ QueueEvent(p, Head(calls[p]))
  /\ calls' = [calls EXCEPT ![p] = Tail(@)]
  /\ UNCHANGED <<dict, gates, relay, waiting, failed, history>>

ExecuteCommand(p, c) ==
  /\ c.kind = "command"
  /\ Apply(p, c)
  /\ waiting' = waiting \ {p}
  /\ UNCHANGED <<failed, traced>>

---------------------------------------------------------------------------
(* Gates drawn in Xamine *)

\* variant: the root is left out
BroadcastToWorkers(g) ==
  gates' = [p \in Receivers |-> IF p = Root THEN gates[p] ELSE Append(gates[p], g)]
\* broadcastGate for a gate that can be broadcast
BroadcastGate(g) == gates' = [p \in Receivers |-> Append(gates[p], g)]

\* OnGate enters or replaces the gate and sprays it.  broadcastGate throws for gates
\* made of gates before it sends anything (gateType) and for gamma gates when it has sent
\* the name (gateParameters); OnGate catches neither and the process ends.
OnGate(n) ==
  /\ drawn < MaxDrawn /\ drawn' = drawn + 1
  /\ dict' = [dict EXCEPT ![Sink][n] = NextDefinition]
  /\ ForwardTrace(n)
  /\ users' = [users EXCEPT ![n] = @ \cup {"Xamine"}]
  /\ \/ BroadcastGate(Event("gate", n, NextDefinition)) /\ UNCHANGED failed
     \/ failed' = "broadcast" /\ UNCHANGED gates
  /\ UNCHANGED <<calls, queue, waiting, commands, traced>>

\* receiveGate, the whole of its messages, and gateThread
ReceiveGate(p) ==
  /\ gates[p] # <<>>
  /\ QueueEvent(p, Head(gates[p]))
  /\ gates' = [gates EXCEPT ![p] = Tail(@)]
  /\ UNCHANGED <<dict, calls, relay, waiting, failed, history>>

\* gateEventHandler adds the gate; AddGate throws for a name that exists, which nobody
\* catches.
GateEventHandler(p, g) ==
  /\ g.kind = "gate"
  /\ IF Exists(p, g.name)
     THEN failed' = "duplicate" /\ UNCHANGED dict
     ELSE dict' = [dict EXCEPT ![p][g.name] = g.gate] /\ UNCHANGED failed
  /\ UNCHANGED <<relay, waiting, changed, traced>>

---------------------------------------------------------------------------
(* The trace pump of the root *)

\* mpiTraceRelayCatchThread
ReceiveTrace ==
  /\ relay # <<>>
  /\ QueueEvent(Root, [kind |-> "trace", trace |-> Head(relay)])
  /\ relay' = Tail(relay)
  /\ UNCHANGED <<dict, calls, gates, waiting, failed, history>>

\* traceRelayEventHandler
TraceRelayEventHandler(p, t) ==
  /\ t.kind = "trace"
  /\ traced' = Append(traced, t.trace)
  /\ UNCHANGED <<dict, relay, waiting, failed, changed>>

\* The event loop of a main thread; the root's stands still while a command is executed.
HandleEvent(p) ==
  /\ queue[p] # <<>> /\ (p = Root => waiting = {})
  /\ \/ ExecuteCommand(p, Head(queue[p]))
     \/ GateEventHandler(p, Head(queue[p]))
     \/ TraceRelayEventHandler(p, Head(queue[p]))
  /\ queue' = [queue EXCEPT ![p] = Tail(@)]
  /\ UNCHANGED <<calls, gates, commands, drawn, users>>

---------------------------------------------------------------------------
Init ==
  /\ dict = [p \in Processes |-> [n \in Names |-> Absent]]
  /\ calls = [p \in Processes |-> <<>>] /\ gates = [p \in Receivers |-> <<>>]
  /\ relay = <<>> /\ queue = [p \in Processes |-> <<>>]
  /\ waiting = {} /\ failed = "none"
  /\ commands = 0 /\ drawn = 0 /\ users = [n \in Names |-> {}]
  /\ changed = <<>> /\ traced = <<>>

Pump(p) == ReceiveCommand(p) \/ (p \in Receivers /\ ReceiveGate(p))

Next ==
  /\ Running
  /\ \/ \E n \in Names : OnGate(n) \/ GateCommand(n, NextDefinition) \/ GateCommand(n, FalseGate)
     \/ \E p \in Processes : Pump(p) \/ HandleEvent(p)
     \/ ReceiveTrace

Spec == Init /\ [][Next]_vars

\* Threads and event loops run; the user need not do anything.
FairSpec ==
  /\ Spec
  /\ \A p \in Processes : /\ WF_vars(Running /\ ReceiveCommand(p))
                          /\ WF_vars(Running /\ HandleEvent(p))
  /\ \A p \in Receivers : WF_vars(Running /\ ReceiveGate(p))
  /\ WF_vars(Running /\ ReceiveTrace)

---------------------------------------------------------------------------
(* Properties *)

\* The values of the variables; at most one command is executed at a time.
TypeOK ==
  /\ dict \in [Processes -> [Names -> Definitions \cup {Absent, FalseGate}]]
  /\ waiting \subseteq Processes \ {Root} /\ failed \in {"none", "broadcast", "duplicate"}
  /\ \A p \in Processes :
       Len(calls[p]) + Cardinality({k \in DOMAIN queue[p] : queue[p][k].kind = "command"})
         = IF p \in waiting THEN 1 ELSE 0
  /\ \A p \in Processes : \A k \in DOMAIN queue[p] :
       queue[p][k].kind = "trace" => p = Root
  /\ \A p \in Receivers : Len(gates[p]) <= drawn

\* When all that was sent has been handled, every process has the same gates
\* ("distribute these gate definitions to the rest of the application"), whatever the order
\* in which the gate command and Xamine define a gate.  Excepted are those that are drawn and
\* deleted: a gate deleted while its drawing is on its way to the root, which cannot delete
\* it yet and enters it afterwards, is deleted everywhere else.
Quiet ==
  /\ waiting = {} /\ relay = <<>>
  /\ \A p \in Processes : queue[p] = <<>>
  /\ \A p \in Receivers : gates[p] = <<>>
GatesAgree ==
  Quiet /\ Running =>
    \A n \in Names : ~({"delete", "Xamine"} \subseteq users[n]) =>
      \A p \in Receivers : dict[p][n] = dict[Sink][n]

\* Each change the histogrammer makes to the gates runs the root's trace scripts once, in
\* order (forwardTrace, mpiTraceRelayCatchThread).
TracesFollow ==
  /\ []IsPrefix(traced, changed)
  /\ \A k \in 1 .. MaxCommands + MaxDrawn :
       Len(changed) >= k ~> Len(traced) >= k \/ ~Running

\* A gate of a name that exists replaces it ("Duplicate gate names will overwrite existing
\* gates"): no process fails for it.
Overwrites == failed # "duplicate"
=============================================================================
