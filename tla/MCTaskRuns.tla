----------------------------- MODULE MCTaskRuns -----------------------------
(***************************************************************************)
(* Small instances of TaskRuns for TLC.                                    *)
(***************************************************************************)
EXTENDS TaskRuns, TLC

CONSTANTS alice, bob, s1, s2, codex, cursor

\* alice delegates s1 and bob s2, each through an adapter of its own.
MCDelegator == [s \in Sessions |-> IF s = s1 THEN alice ELSE bob]
MCAgentOf == [s \in Sessions |-> IF s = s1 THEN codex ELSE cursor]
MCInitRoles ==
  [h \in Humans |-> IF h = alice THEN RoleNames ELSE {"MEMBER"}]
MCRoleChoices == {{}, RoleNames}

\* Sound where a run checks no liveness: no definition of TaskRuns tells two
\* tasks apart.
TaskSymmetry == Permutations(Tasks)
=============================================================================
