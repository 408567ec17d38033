---------------------------- MODULE MCToolGateway ----------------------------
(***************************************************************************)
(* Small instances of ToolGateway for TLC.                                 *)
(***************************************************************************)
EXTENDS ToolGateway, TLC

CONSTANTS alice, bob, merge, lookup

\* alice owns the task and delegates its session; both could decide.  The
\* second operation is of a read-only tool where there is one.
MCInitRoles == [h \in Humans |-> RoleNames]
MCRoleChoices == {{}, RoleNames}
MCToolOf == [o \in Ops |-> IF o = 2 /\ lookup \in Tools THEN lookup ELSE merge]
MCPullOf == [o \in Ops |-> 1]

WorkerSymmetry == Permutations(Workers)
=============================================================================
