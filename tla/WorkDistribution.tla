------------------------- MODULE WorkDistribution -------------------------
(***************************************************************************)
(* What the ring item pump promises: data arrive at the root as a sequence *)
(* of items.  Physics items are dealt in their order to workers that have  *)
(* nothing left to do and each is analysed once; every other item is heard *)
(* by every worker, in order, after all physics items before it have been  *)
(* dealt.  Nothing is promised about the order in which one worker analyses*)
(* a block and hears an item.                                              *)
(***************************************************************************)
EXTENDS Naturals, Sequences

CONSTANTS Workers, Items, IsPhysics(_)

VARIABLES
  offered,    \* the items that have arrived
  waiting,    \* physics items that have not been dealt
  block,      \* physics items dealt to each worker and not yet analysed
  log         \* items each worker has analysed or heard

vars == <<offered, waiting, block, log>>

Members(s) == {s[k] : k \in DOMAIN s}

Init ==
  /\ offered = <<>>
  /\ waiting = <<>>
  /\ block = [w \in Workers |-> <<>>]
  /\ log = [w \in Workers |-> <<>>]

\* The next item arrives.  None arrives twice.
Offer ==
  /\ Len(offered') = Len(offered) + 1
  /\ LET i == offered'[Len(offered')]
     IN  /\ i \in Items \ Members(offered)
         /\ offered' = Append(offered, i)
         /\ waiting' = IF IsPhysics(i) THEN Append(waiting, i) ELSE waiting
  /\ UNCHANGED <<block, log>>

\* All that waits is dealt to an idle worker.
Deal(w) ==
  /\ waiting # <<>>
  /\ block[w] = <<>>
  /\ block' = [block EXCEPT ![w] = waiting]
  /\ waiting' = <<>>
  /\ UNCHANGED <<offered, log>>

\* Worker w analyses the next physics item of its block.
Analyse(w) ==
  /\ block[w] # <<>>
  /\ log' = [log EXCEPT ![w] = Append(@, Head(block[w]))]
  /\ block' = [block EXCEPT ![w] = Tail(@)]
  /\ UNCHANGED <<offered, waiting>>

\* Worker w hears the next item that is not a physics item.
Hear(w) ==
  /\ \E k \in DOMAIN offered :
       /\ ~IsPhysics(offered[k]) /\ offered[k] \notin Members(log[w])
       /\ \A j \in 1 .. k - 1 : IF IsPhysics(offered[j]) THEN offered[j] \notin Members(waiting)
                                ELSE offered[j] \in Members(log[w])
       /\ log' = [log EXCEPT ![w] = Append(@, offered[k])]
  /\ UNCHANGED <<offered, waiting, block>>

Next == Offer \/ \E w \in Workers : Deal(w) \/ Analyse(w) \/ Hear(w)

Spec == Init /\ [][Next]_vars
=============================================================================
