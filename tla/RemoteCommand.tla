--------------------------- MODULE RemoteCommand ---------------------------
(***************************************************************************)
(* What the Tcl pump of mpiSpecTcl promises to the interpreter of the      *)
(* root: a command is executed once by every other rank, its result is an  *)
(* error if one of them failed, and it returns only when all have answered.*)
(***************************************************************************)
EXTENDS Naturals, Sequences

CONSTANTS
  Ranks    \* the ranks that execute commands, numbered from 1

VARIABLES
  command,   \* what the root asked for: a sequence of at most one [text, local]
  answers,   \* what each rank made of it: a sequence of at most one
             \* [command, status, text]
  result     \* [status, text] the root's last command returned

vars == <<command, answers, result>>

Init ==
  /\ command = <<>>
  /\ answers = [r \in Ranks |-> <<>>]
  /\ result = [status |-> "ok", text |-> <<>>]

Failed(s) == s.status # "ok"

\* The result of the ranks: the failure of the lowest rank that failed, or else a
\* longest text.
Remote(s) ==
  \E r \in Ranks :
    LET a == answers[r][1]
    IN  /\ s = [status |-> a.status, text |-> a.text]
        /\ \/ Failed(a) /\ \A q \in Ranks : q < r => ~Failed(answers[q][1])
           \/ \A q \in Ranks : /\ ~Failed(answers[q][1])
                               /\ Len(answers[q][1].text) <= Len(a.text)

\* local is the root's own answer, a sequence of at most one: it counts when no
\* rank failed and it failed or is longer than what the ranks answered.
IsResult(s, local) ==
  \/ Remote(s) /\ (Failed(s) \/ local = <<>> \/
                   (~Failed(local[1]) /\ Len(local[1].text) <= Len(s.text)))
  \/ /\ \A r \in Ranks : ~Failed(answers[r][1])
     /\ local = <<s>>
     /\ Failed(s) \/ \A r \in Ranks : Len(answers[r][1].text) < Len(s.text)

Call ==
  /\ command = <<>>
  /\ command' # <<>>
  /\ answers' = [r \in Ranks |-> <<>>]
  /\ UNCHANGED result

\* A rank executes the command; what it answers is its own affair.
Execute(r) ==
  /\ command # <<>>
  /\ answers[r] = <<>>
  /\ Len(answers'[r]) = 1
  /\ answers'[r][1].command = command[1].text
  /\ \A q \in Ranks \ {r} : answers'[q] = answers[q]
  /\ UNCHANGED <<command, result>>

Return ==
  /\ command # <<>>
  /\ \A r \in Ranks : answers[r] # <<>>
  /\ IsResult(result', command[1].local)
  /\ command' = <<>>
  /\ UNCHANGED answers

Next == Call \/ (\E r \in Ranks : Execute(r)) \/ Return

Spec == Init /\ [][Next]_vars
=============================================================================
