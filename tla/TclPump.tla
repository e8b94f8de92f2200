------------------------------ MODULE TclPump ------------------------------
(***************************************************************************)
(* The Tcl pump of mpiSpecTcl (mpi/TclPump.cpp) and the command wrappers   *)
(* that use it: the interpreter of rank 0 has a command executed by all    *)
(* other ranks and returns when all of them have answered.                 *)
(*                                                                         *)
(* Commands and results are longer than a message.  A command is broadcast *)
(* in chunks, which the CommandPumpThread of each rank puts together and   *)
(* queues to the main thread.  Each rank sends its result in chunks; the   *)
(* root takes those of all ranks as they come, keeping for each rank what  *)
(* it still expects.  No message says which command it belongs to.         *)
(***************************************************************************)
EXTENDS Integers, Sequences, FiniteSets

CONSTANTS
  NumRanks,      \* MPI_Comm_size - 1: the ranks but the root are 1 .. NumRanks
  ChunkSize,     \* MAX_TCL_CHUNKSIZE, scaled down
  CommandSizes,  \* sizes of commands with their final NUL
  ResultSizes,   \* sizes of results
  MaxCalls       \* bound on the commands the user enters

Ranks == 1 .. NumRanks

ASSUME SizesAssumption ==
  /\ NumRanks \in Nat \ {0} /\ ChunkSize \in Nat \ {0}
  /\ CommandSizes \subseteq Nat \ {0} /\ ResultSizes \subseteq Nat
  /\ MaxCalls \in Nat

VARIABLES
  root,       \* [pc, number, text, local]: the command of the root's main thread
  sent,       \* bytes of the command broadcast so far
  replies,    \* vector of ProcessResult
  bcast,      \* chunks on their way to each rank
  event,      \* the command each CommandPumpThread is assembling
  pump,       \* is each CommandPumpThread running?
  queue,      \* commands in the Tcl event queue of each rank
  main,       \* has the main thread of each rank exited?
  reply,      \* [status, text, left]: the result each main thread is sending
  results,    \* result messages on their way from each rank
  executed,   \* what each rank executed of the root's last command (history)
  result      \* the result and status of the root's interpreter

rootVars == <<root, sent, replies, result>>
rankVars == <<event, pump, queue, main, reply, executed>>
vars == <<rootVars, bcast, rankVars, results>>

---------------------------------------------------------------------------
(* Messages *)

\* Texts: byte k of the n-th command, and of what rank r (0 the root) answers to
\* the n-th command.
CommandText(n, size) == [k \in 1 .. size |-> <<"command", n, k>>]
AnswerText(r, n, size) == [k \in 1 .. size |-> <<"answer", r, n, k>>]
Exit == <<<<"exit", 1>>>>
Pad == <<"pad">>

Minimum(a, b) == IF a < b THEN a ELSE b

\* The message that carries the bytes of a text after the first `offset'; what
\* is beyond the end of the text has no meaning.
Chunk(text, offset) ==
  [k \in 1 .. ChunkSize |->
     IF offset + k <= Len(text) THEN text[offset + k] ELSE Pad]

\* stopCommandPump's message: a length of 0
StopChunkLong == [length |-> ChunkSize + 1, chunk |-> Chunk(<<>>, 0)]  \* variant
StopChunk == [length |-> 0, chunk |-> Chunk(<<>>, 0)]

Broadcast(m) == bcast' = [r \in Ranks |-> Append(bcast[r], m)]

---------------------------------------------------------------------------
(* The root *)

\* What a command gives: any status and a result of any of the sizes
Outcomes(r, n) ==
  {[status |-> s, text |-> AnswerText(r, n, size)] :
     s \in {"ok", "error"}, size \in ResultSizes}

NoReply == -1   \* std::string::npos in remainingResult

\* operator() of the wrappers: CMPITclCommand executes the command elsewhere only
\* (local is empty), CMPITclCommandAll in the root first.
Call ==
  /\ root.pc = "idle"
  /\ root.number < MaxCalls
  /\ \E size \in CommandSizes :
     \E local \in {<<>>} \cup {<<o>> : o \in Outcomes(0, root.number + 1)} :
       root' = [pc |-> "sending", number |-> root.number + 1,
                text |-> CommandText(root.number + 1, size), local |-> local]
  /\ sent' = 0
  /\ executed' = [r \in Ranks |-> <<>>]
  /\ UNCHANGED <<replies, result, bcast, event, pump, queue, main, reply, results>>

\* MPIExecCommand broadcasts a chunk; after the last, constructMpiTclStatus sets
\* up the replies.
SendChunk ==
  /\ root.pc = "sending"
  /\ Broadcast([length |-> Len(root.text), chunk |-> Chunk(root.text, sent)])
  /\ LET n == Minimum(Len(root.text) - sent, ChunkSize)
     IN  /\ sent' = sent + n
         /\ IF sent + n = Len(root.text)
            THEN /\ root' = [root EXCEPT !.pc = "gathering"]
                 /\ replies' = [r \in Ranks |->
                      [status |-> "none", remaining |-> NoReply, text |-> <<>>]]
            ELSE UNCHANGED <<root, replies>>
  /\ UNCHANGED <<result, rankVars, results>>

AllRepliesInEarly == \A r \in Ranks : replies[r].remaining <= 0  \* variant: signed
AllRepliesIn == \A r \in Ranks : replies[r].remaining = 0

\* fillResponse
FilledByChunk(p, m) ==                                 \* variant: not the last
  LET expected == IF p.remaining = NoReply THEN m.size ELSE p.remaining
  IN  [status |-> m.status, remaining |-> expected - ChunkSize, text |-> p.text \o m.chunk]
FilledWhole(p, m) ==                                   \* variant: chunk not cut
  LET expected == IF p.remaining = NoReply THEN m.size ELSE p.remaining
  IN  [status |-> m.status,
       remaining |-> expected - Minimum(expected, ChunkSize),
       text |-> p.text \o m.chunk]
Filled(p, m) ==
  LET expected == IF p.remaining = NoReply THEN m.size ELSE p.remaining
      n == Minimum(expected, ChunkSize)
  IN  [status |-> m.status,
       remaining |-> expected - n,
       text |-> p.text \o SubSeq(m.chunk, 1, n)]

\* One MPI_Recv of constructMpiTclStatus, from any rank
Gather ==
  /\ root.pc = "gathering"
  /\ ~AllRepliesIn
  /\ \E r \in Ranks :
       /\ results[r] # <<>>
       /\ replies' = [replies EXCEPT ![r] = Filled(@, Head(results[r]))]
       /\ results' = [results EXCEPT ![r] = Tail(@)]
  /\ UNCHANGED <<root, sent, result, bcast, rankVars>>

\* getStatusFrom: the first reply that is not TCL_OK, or else the first of the longest.
StatusFrom ==
  LET failed == {r \in Ranks : replies[r].status # "ok"}
      longest == {r \in Ranks : \A q \in Ranks :
                    Len(replies[q].text) <= Len(replies[r].text)}
      First(S) == CHOOSE r \in S : \A q \in S : r <= q
      rank == First(IF failed # {} THEN failed ELSE longest)
  IN  [status |-> replies[rank].status, text |-> replies[rank].text]

\* CMPITclCommandAll sorts out the local and the remote status and result.
Merged(remote, local) ==
  IF remote.status # "ok" \/ local = <<>> THEN remote
  ELSE IF local[1].status # "ok" \/ Len(local[1].text) > Len(remote.text)
       THEN local[1]
       ELSE remote

Return ==
  /\ root.pc = "gathering"
  /\ AllRepliesIn
  /\ result' = Merged(StatusFrom, root.local)
  /\ root' = [root EXCEPT !.pc = "idle"]
  /\ UNCHANGED <<sent, replies, bcast, rankVars, results>>

\* MpiExitHandler broadcasts the exit command, which nobody answers ...
BroadcastExit ==
  /\ root.pc = "idle"
  /\ Broadcast([length |-> Len(Exit), chunk |-> Chunk(Exit, 0)])
  /\ root' = [root EXCEPT !.pc = "exiting"]
  /\ UNCHANGED <<sent, replies, result, rankVars, results>>

\* ... and then stopCommandPump.
StopCommandPump ==
  /\ root.pc = "exiting"
  /\ Broadcast(StopChunk)
  /\ root' = [root EXCEPT !.pc = "exited"]
  /\ UNCHANGED <<sent, replies, result, rankVars, results>>

---------------------------------------------------------------------------
(* The other ranks *)

\* appendCommandChunk
AppendedWhole(text, m) == text \o m.chunk              \* variant: chunk not cut
Appended(text, m) ==
  text \o SubSeq(m.chunk, 1, Minimum(m.length - Len(text), ChunkSize))

\* CommandPumpThread starts a new event once it has queued one.
NewEventKept(text) == text                             \* variant: not reset
NewEvent(text) == <<>>

\* One MPI_Bcast of CommandPumpThread
ReceiveChunk(r) ==
  /\ pump[r]
  /\ bcast[r] # <<>>
  /\ LET m == Head(bcast[r])
         text == Appended(event[r], m)
     IN  IF m.length = 0
         THEN pump' = [pump EXCEPT ![r] = FALSE] /\ UNCHANGED <<event, queue>>
         ELSE /\ IF Len(text) = m.length
                 THEN /\ queue' = [queue EXCEPT ![r] = Append(@, text)]
                      /\ event' = [event EXCEPT ![r] = NewEvent(text)]
                 ELSE /\ event' = [event EXCEPT ![r] = text]
                      /\ UNCHANGED queue
              /\ UNCHANGED pump
  /\ bcast' = [bcast EXCEPT ![r] = Tail(@)]
  /\ UNCHANGED <<rootVars, main, reply, executed, results>>

NoResult == [status |-> "none", text |-> <<>>, left |-> NoReply]

\* commandEventHandler evaluates the command and calls sendCommandResult.  The
\* command that exits never comes back from GlobalEval.
Evaluate(r) ==
  /\ main[r] = "running"
  /\ reply[r] = NoResult
  /\ queue[r] # <<>>
  /\ queue' = [queue EXCEPT ![r] = Tail(@)]
  /\ LET text == Head(queue[r])
     IN  IF text = Exit
         THEN main' = [main EXCEPT ![r] = "exited"] /\ UNCHANGED <<reply, executed>>
         ELSE /\ \E o \in Outcomes(r, root.number) :
                   /\ reply' = [reply EXCEPT ![r] =
                        [status |-> o.status, text |-> o.text, left |-> Len(o.text)]]
                   /\ executed' = [executed EXCEPT ![r] =
                        Append(@, [command |-> text, status |-> o.status, text |-> o.text])]
              /\ UNCHANGED main
  /\ UNCHANGED <<rootVars, bcast, event, pump, results>>

\* Has the do-while loop of sendCommandResult more to send?
MoreNever(left) == FALSE                               \* variant: no loop
More(left) == left > 0

\* One turn of it: a result without bytes takes one message too.
SendResult(r) ==
  /\ reply[r] # NoResult
  /\ LET p == reply[r]
         left == p.left - Minimum(p.left, ChunkSize)
     IN  /\ results' = [results EXCEPT ![r] =
              Append(@, [status |-> p.status, size |-> Len(p.text),
                         chunk |-> Chunk(p.text, Len(p.text) - p.left)])]
         /\ reply' = [reply EXCEPT ![r] =
              IF More(left) THEN [p EXCEPT !.left = left] ELSE NoResult]
  /\ UNCHANGED <<rootVars, bcast, event, pump, queue, main, executed>>

---------------------------------------------------------------------------
Init ==
  /\ root = [pc |-> "idle", number |-> 0, text |-> <<>>, local |-> <<>>]
  /\ sent = 0
  /\ replies = [r \in Ranks |-> [status |-> "ok", remaining |-> 0, text |-> <<>>]]
  /\ bcast = [r \in Ranks |-> <<>>]
  /\ event = [r \in Ranks |-> <<>>]
  /\ pump = [r \in Ranks |-> TRUE]
  /\ queue = [r \in Ranks |-> <<>>]
  /\ main = [r \in Ranks |-> "running"]
  /\ reply = [r \in Ranks |-> NoResult]
  /\ results = [r \in Ranks |-> <<>>]
  /\ executed = [r \in Ranks |-> <<>>]
  /\ result = [status |-> "ok", text |-> <<>>]

Main(r) == Evaluate(r) \/ SendResult(r)

Next ==
  \/ Call \/ SendChunk \/ Gather \/ Return \/ BroadcastExit \/ StopCommandPump
  \/ \E r \in Ranks : ReceiveChunk(r) \/ Main(r)

Spec == Init /\ [][Next]_vars

\* Threads that can run are run in the end, the root's main thread when it is in
\* a call or exiting; the user need not do anything.
FairSpec ==
  /\ Spec
  /\ WF_vars(SendChunk \/ Gather \/ Return \/ StopCommandPump)
  /\ \A r \in Ranks : WF_vars(ReceiveChunk(r)) /\ WF_vars(Main(r))

---------------------------------------------------------------------------
(* Properties *)

InCall == root.pc \in {"sending", "gathering"}

\* The variables keep their types; a reply never holds more than its size and
\* the root's loop never expects less than nothing.
TypeOK ==
  /\ root.pc \in {"idle", "sending", "gathering", "exiting", "exited"}
  /\ root.number \in 0 .. MaxCalls
  /\ sent \in 0 .. Len(root.text)
  /\ \A r \in Ranks :
       /\ replies[r].remaining >= NoReply
       /\ Len(event[r]) < Len(root.text) \/ event[r] = <<>>
       /\ pump[r] \in BOOLEAN /\ main[r] \in {"running", "exited"}
       /\ Len(queue[r]) <= 1
  /\ result.status \in {"ok", "error"}

\* Replies are matched to commands by their order alone, so when a command
\* returns nothing of it is left: no chunk, queued command or reply that the next
\* command would take for its own.
NothingLeft ==
  (root.pc = "idle") =>
    \A r \in Ranks :
      /\ bcast[r] = <<>> /\ event[r] = <<>> /\ queue[r] = <<>>
      /\ reply[r] = NoResult /\ results[r] = <<>>

\* A command returns (ExecCommand does not block the root for ever), however the
\* chunks of the ranks' results meet.
CallReturns == InCall ~> (root.pc = "idle")

\* When the root exits every rank exits and its CommandPumpThread ends.
AllExit ==
  (root.pc = "exited") ~> \A r \in Ranks : main[r] = "exited" /\ ~pump[r]

Remote ==
  INSTANCE RemoteCommand
  WITH command <- IF InCall THEN <<[text |-> root.text, local |-> root.local]>> ELSE <<>>,
       answers <- executed

\* The pump implements the remote execution of commands: each rank executes each
\* command once, unaltered, and what returns is the status and result that the
\* answers to this command call for, whole.
Calls == Remote!Spec
=============================================================================
