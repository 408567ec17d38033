--------------------------- MODULE MCConsoleData ---------------------------
(* A small instance of ConsoleData for TLC. *)
EXTENDS ConsoleData

CONSTANTS alice, bob, p1, p2, t1, t2

\* alice works in both projects, bob in the second only.
MCProjectsOf == [a \in People |-> IF a = alice THEN Projects ELSE {p2}]

\* One task changes, then another, then the first is archived.
MCHistory ==
    [p \in Projects |->
        <<[task |-> t1, archived |-> FALSE],
          [task |-> t2, archived |-> FALSE],
          [task |-> t1, archived |-> TRUE]>>]
=============================================================================
