--------------------------- MODULE OperationLedger ---------------------------
(***************************************************************************)
(* What the tool gateway promises about one governed operation.            *)
(*                                                                         *)
(* The operation is requested, and launched at most once and only after it *)
(* was granted and taken.  It is closed as done only when its effect is in *)
(* place, as failed only when the external system refused it, and as void  *)
(* only if it was never launched and never will be.  Its effect comes from *)
(* nowhere else, unless it is one that others can bring about as well.     *)
(***************************************************************************)
CONSTANTS
  Ops,
  Shared     \* the operations whose effect others can bring about

VARIABLES
  state,     \* "none", "open", "granted", "taken", "done", "failed" or "void"
  outcome,   \* in the external system: "none", "pending", "applied", "rejected"
  launches,  \* how often the operation was launched
  inPlace    \* operations whose effect is there

ledgerVars == <<state, outcome, launches, inPlace>>

LedgerInit ==
  /\ state = [o \in Ops |-> "none"]
  /\ outcome = [o \in Ops |-> "none"]
  /\ launches = [o \in Ops |-> 0]
  /\ inPlace = {}

Move(o, from, to) ==
  /\ state[o] \in from
  /\ state' = [state EXCEPT ![o] = to]
  /\ UNCHANGED <<outcome, launches, inPlace>>

Ask(o) == Move(o, {"none"}, "open") \/ Move(o, {"none"}, "granted")
Grant(o) == Move(o, {"open"}, "granted")
Take(o) == Move(o, {"granted"}, "taken")
Void(o) == launches[o] = 0 /\ Move(o, {"open", "granted", "taken"}, "void")
Close(o) == \/ o \in inPlace /\ Move(o, {"taken"}, "done")
            \/ outcome[o] = "rejected" /\ Move(o, {"taken"}, "failed")

\* The effect of others may close an operation that is still on its way.
Launch(o) ==
  /\ state[o] = "taken" \/ (o \in Shared /\ state[o] = "done")
  /\ launches[o] = 0
  /\ launches' = [launches EXCEPT ![o] = 1]
  /\ outcome' = [outcome EXCEPT ![o] = "pending"]
  /\ UNCHANGED <<state, inPlace>>

\* An effect may come with that of other operations on the same thing.
Answer(o) ==
  /\ outcome[o] = "pending"
  /\ \/ /\ outcome' = [outcome EXCEPT ![o] = "applied"]
        /\ \E S \in SUBSET Shared : inPlace' = inPlace \cup {o} \cup S
     \/ /\ outcome' = [outcome EXCEPT ![o] = "rejected"]
        /\ UNCHANGED inPlace
  /\ UNCHANGED <<state, launches>>

Elsewhere ==
  /\ \E S \in SUBSET Shared : inPlace' = inPlace \cup S
  /\ UNCHANGED <<state, outcome, launches>>

LedgerNext ==
  \/ Elsewhere
  \/ \E o \in Ops : \/ Ask(o) \/ Grant(o) \/ Take(o) \/ Void(o) \/ Close(o)
                    \/ Launch(o) \/ Answer(o)

LedgerSpec == LedgerInit /\ [][LedgerNext]_ledgerVars
=============================================================================
