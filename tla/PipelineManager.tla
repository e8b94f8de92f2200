--------------------------- MODULE PipelineManager --------------------------
(***************************************************************************)
(* The event processing pipelines of SpecTcl: Core/CPipelineManager.cpp    *)
(* with the pman command (Core/CPipelineCommand.cpp), the part of the API  *)
(* it calls (Core/SpecTcl.cpp) and CTclAnalyzer::OnInitialize, which       *)
(* removes processors that fail.                                           *)
(*                                                                         *)
(* A pipeline is a sequence of processors, in which one may occur more     *)
(* than once; one pipeline is current.  The manager tells a processor      *)
(* when it becomes part of the current pipeline (OnAttach) and when it     *)
(* leaves it (OnDetach).                                                   *)
(***************************************************************************)
EXTENDS Integers, Sequences, FiniteSets, SequencesExt

CONSTANTS
  Processors,     \* event processors, each with its name
  PipelineNames,
  Default,        \* the pipeline the constructor makes
  MaxLength,      \* bound on the length of a pipeline
  MaxCommands     \* bound on the number of commands

ASSUME PipelineAssumption ==
  Default \in PipelineNames /\ MaxLength \in Nat /\ MaxCommands \in Nat

VARIABLES
  processors,  \* m_processors: the registered ones
  pipelines,   \* m_pipelines
  current,     \* m_currentPipelineName
  attached,    \* OnAttach calls less OnDetach calls of each processor
  stray,       \* history: OnDetach calls of each processor for a pipeline that was not current
  commands     \* history: how many commands were executed

managerVars == <<processors, pipelines, current, attached, stray, commands>>

---------------------------------------------------------------------------
(* Helpers *)

Exists(p) == p \in DOMAIN pipelines
Occurrences(e, s) == Cardinality({k \in DOMAIN s : s[k] = e})
Current == pipelines[current]
Command == commands < MaxCommands /\ commands' = commands + 1

\* attachIfCurrent
AttachIfCurrent(p, e) ==
  attached' = IF p = current THEN [attached EXCEPT ![e] = @ + 1] ELSE attached
\* detachIfCurrent calls OnDetach whatever the pipeline: its test is the assignment
\* `pPipe = m_pCurrentPipeline'.  `detached' are the processors removed from p.
DetachIfCurrent(p, detached) ==
  /\ attached' = [e \in Processors |-> attached[e] - Occurrences(e, detached)]
  /\ stray' = IF p = current THEN stray
              ELSE [e \in Processors |-> stray[e] + Occurrences(e, detached)]

---------------------------------------------------------------------------
(* Commands and API calls *)

\* registerEventProcessor throws for a name that is registered.
RegisterEventProcessor(e) ==
  /\ Command /\ e \notin processors
  /\ processors' = processors \cup {e}
  /\ UNCHANGED <<pipelines, current, attached, stray>>

\* variant: only the current pipeline is asked
UsedInCurrent(e) == e \in ToSet(Current)
\* pipelinesUsing
Used(e) == \E p \in DOMAIN pipelines : e \in ToSet(pipelines[p])
\* pman rmevp
RmEvp(e) ==
  /\ Command /\ e \in processors /\ ~Used(e)
  /\ processors' = processors \ {e}
  /\ UNCHANGED <<pipelines, current, attached, stray>>

\* A new entry of m_pipelines
WithPipeline(p, s) == [q \in DOMAIN pipelines \cup {p} |-> IF q = p THEN s ELSE pipelines[q]]
CreatePipeline(p) ==
  /\ Command /\ ~Exists(p)
  /\ pipelines' = WithPipeline(p, <<>>)
  /\ UNCHANGED <<processors, current, attached, stray>>

\* insertEventProcessor in front of the k-th element; appendEventProcessor for the end.
InsertEventProcessor(p, e, k) ==
  /\ Command /\ Exists(p) /\ e \in processors
  /\ Len(pipelines[p]) < MaxLength /\ k \in 1 .. Len(pipelines[p]) + 1
  /\ pipelines' = [pipelines EXCEPT ![p] = InsertAt(@, k, e)]
  /\ AttachIfCurrent(p, e)
  /\ UNCHANGED <<processors, current, stray>>

\* removeEventProcessor: the first element that is e
RemoveEventProcessor(p, e) ==
  /\ Command /\ Exists(p) /\ e \in processors
  /\ \E k \in DOMAIN pipelines[p] :
       /\ pipelines[p][k] = e /\ \A j \in 1 .. k - 1 : pipelines[p][j] # e
       /\ pipelines' = [pipelines EXCEPT ![p] = RemoveAt(@, k)]
  /\ DetachIfCurrent(p, <<e>>)
  /\ UNCHANGED <<processors, current>>

\* ClearPipeline removes the elements by their names, one after the other; the exception
\* for a name that is not registered leaves the rest.
Leading(s) == SubSeq(s, 1, Cardinality({k \in DOMAIN s : ToSet(SubSeq(s, 1, k)) \subseteq processors}))
ClearPipeline(p) ==
  /\ Command /\ Exists(p)
  /\ LET removed == Leading(pipelines[p])
     IN /\ DetachIfCurrent(p, removed)
        /\ pipelines' = [pipelines EXCEPT ![p] = SubSeq(@, Len(removed) + 1, Len(@))]
  /\ UNCHANGED <<processors, current>>

\* variant: attachAll before the switch
SwitchLate(p) == attached
\* detachAll on the current pipeline, attachAll on the one that becomes current
Switch(p) ==
  [e \in Processors |-> attached[e] - Occurrences(e, Current) + Occurrences(e, pipelines[p])]
SetCurrentPipeline(p) ==
  /\ Command /\ Exists(p)
  /\ attached' = Switch(p)
  /\ current' = p
  /\ UNCHANGED <<processors, pipelines, stray>>

\* clonePipeline: createPipeline throws for a name that exists.
ClonePipeline(from, to) ==
  /\ Command /\ Exists(from) /\ ~Exists(to)
  /\ pipelines' = WithPipeline(to, pipelines[from])
  /\ UNCHANGED <<processors, current, attached, stray>>

\* CTclAnalyzer::OnInitialize: for each element of the current pipeline that fails,
\* the first element of its name is removed.
FirstOfEach(gone, failed) ==
  /\ \A e \in Processors :
       Cardinality({k \in gone : Current[k] = e}) = Cardinality({k \in failed : Current[k] = e})
  /\ \A k \in gone : \A j \in 1 .. k : Current[j] = Current[k] => j \in gone
InOrder(f) == \A i, j \in DOMAIN f : i < j => f[i] < f[j]
OnInitialize(failed) ==
  /\ Command /\ failed # {} /\ failed \subseteq DOMAIN Current
  /\ DetachIfCurrent(current, [k \in failed |-> Current[k]])
  /\ \E gone \in SUBSET DOMAIN Current : LET left == DOMAIN Current \ gone IN
       /\ FirstOfEach(gone, failed)
       /\ \E f \in [1 .. Cardinality(left) -> left] :
            /\ InOrder(f)
            /\ pipelines' = [pipelines EXCEPT ![current] = [k \in DOMAIN f |-> Current[f[k]]]]
  /\ UNCHANGED <<processors, current>>

---------------------------------------------------------------------------
ManagerInit ==
  /\ processors = {} /\ pipelines = [p \in {Default} |-> <<>>] /\ current = Default
  /\ attached = [e \in Processors |-> 0]
  /\ stray = [e \in Processors |-> 0] /\ commands = 0

ManagerNext ==
  \/ \E e \in Processors : RegisterEventProcessor(e) \/ RmEvp(e)
  \/ \E p \in PipelineNames :
       \/ CreatePipeline(p) \/ ClearPipeline(p) \/ SetCurrentPipeline(p)
       \/ \E e \in Processors :
            \/ RemoveEventProcessor(p, e)
            \/ \E k \in 1 .. MaxLength : InsertEventProcessor(p, e, k)
       \/ \E q \in PipelineNames : ClonePipeline(p, q)
  \/ \E failed \in SUBSET (1 .. MaxLength) : OnInitialize(failed)

ManagerSpec == ManagerInit /\ [][ManagerNext]_managerVars

---------------------------------------------------------------------------
(* Properties *)

\* The values of the manager's variables.
ManagerTypeOK ==
  /\ processors \subseteq Processors /\ stray \in [Processors -> Nat]
  /\ DOMAIN pipelines \subseteq PipelineNames /\ current \in DOMAIN pipelines
  /\ \A p \in DOMAIN pipelines :
       pipelines[p] \in Seq(Processors) /\ Len(pipelines[p]) <= MaxLength
  /\ attached \in [Processors -> Int]
  /\ commands \in 0 .. MaxCommands

\* OnAttach and OnDetach calls of a processor account for its occurrences in the current
\* pipeline (attachIfCurrent, detachIfCurrent, detachAll, attachAll): nothing is missing but
\* the calls of OnDetach for pipelines that were not current.
AttachedIfCurrent ==
  \A e \in Processors : attached[e] + stray[e] = Occurrences(e, Current)

\* Whatever is in a pipeline is registered (rmEvp: "The processor must first be removed
\* from all piplines it belongs to"), so that clearing a pipeline never stops half way.
UsedRegistered ==
  \A p \in DOMAIN pipelines : ToSet(pipelines[p]) \subseteq processors
=============================================================================
