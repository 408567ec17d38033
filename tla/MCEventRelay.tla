---------------------------- MODULE MCEventRelay ----------------------------
(***************************************************************************)
(* Small instances of EventRelay for TLC.                                  *)
(***************************************************************************)
EXTENDS EventRelay, TLC

\* The first two events belong to one project.
MCProjectOf == [e \in Events |-> IF e < 3 THEN 1 ELSE 2]

WorkerSymmetry == Permutations(Workers)
=============================================================================
