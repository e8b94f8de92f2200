-------------------------- MODULE MCEventMessage --------------------------
(***************************************************************************)
(* EventMessage on small instances with two tree parameter vectors.        *)
(***************************************************************************)
EXTENDS EventMessage, TLC

\* Events with one parameter and an empty vector, and with two of them, in turn
TwoShapes ==
  << [params |-> <<1>>, vectors |-> << <<1>>, <<>> >>],
     [params |-> <<2, 1>>, vectors |-> << <<>>, <<2, 1>> >>] >>

\* Workers are interchangeable.
WorkerSymmetry == Permutations(Workers)
=============================================================================
