---------------------------- MODULE WorkContract ----------------------------
(***************************************************************************)
(* What the control plane promises about a piece of work, without leases,  *)
(* sessions, roles, dependencies, evidence and tool operations.            *)
(*                                                                         *)
(* An attempt needs a grant, which the claim uses up and which new terms   *)
(* withdraw.  It takes the terms as they are, with a fence no other        *)
(* attempt has.  Only its end, a judgement of what it delivered or a       *)
(* cancellation moves the work on; a cancellation is announced at once.    *)
(***************************************************************************)
EXTENDS Naturals

CONSTANTS
  Tasks,
  Terms,      \* what the owner and the Context version can be
  NoTerms

VARIABLES
  phase,      \* "none", "open", "offered", "held", "review", "done", "canceled"
  terms,      \* the terms of the work now
  grant,      \* work a human has asked to be attempted
  taken,      \* the terms the last attempt took
  fence,      \* the fence of the last attempt
  next,       \* the next fence
  announced   \* work whose cancellation is known outside

contractVars == <<phase, terms, grant, taken, fence, next, announced>>

ContractInit ==
  /\ phase = [t \in Tasks |-> "none"]
  /\ terms = [t \in Tasks |-> NoTerms] /\ taken = [t \in Tasks |-> NoTerms]
  /\ fence = [t \in Tasks |-> 0] /\ next = 1
  /\ grant = {} /\ announced = {}

Move(t, from, to) ==
  /\ phase[t] \in from
  /\ phase' = [phase EXCEPT ![t] = to]

Define(t) ==
  /\ Move(t, {"none"}, "open")
  /\ \E x \in Terms : terms' = [terms EXCEPT ![t] = x]
  /\ UNCHANGED <<grant, taken, fence, next, announced>>

Redefine(t) ==
  /\ Move(t, {"open", "offered"}, "open")
  /\ grant' = grant \ {t}
  /\ \E x \in Terms : terms' = [terms EXCEPT ![t] = x]
  /\ UNCHANGED <<taken, fence, next, announced>>

Ask(t) ==
  /\ Move(t, {"open"}, "open") \/ Move(t, {"open"}, "offered")
  /\ grant' = grant \cup {t}
  /\ UNCHANGED <<terms, taken, fence, next, announced>>

Take(t) ==
  /\ t \in grant /\ Move(t, {"offered"}, "held")
  /\ grant' = grant \ {t}
  /\ taken' = [taken EXCEPT ![t] = terms[t]]
  /\ fence' = [fence EXCEPT ![t] = next] /\ next' = next + 1
  /\ UNCHANGED <<terms, announced>>

\* Delivered, given up, or no longer on offer.
Leave(t) ==
  /\ \/ Move(t, {"held"}, "review")
     \/ Move(t, {"held", "offered"}, "open")
  /\ UNCHANGED <<terms, grant, taken, fence, next, announced>>

Judge(t) ==
  /\ Move(t, {"review"}, "done") \/ Move(t, {"review"}, "open")
  /\ grant' = grant \ {t}
  /\ UNCHANGED <<terms, taken, fence, next, announced>>

Cancel(t) ==
  /\ Move(t, {"open", "offered", "held", "review"}, "canceled")
  /\ announced' = announced \cup {t}
  /\ UNCHANGED <<terms, grant, taken, fence, next>>

\* The worker: attempts end, and granted work is offered, but never work whose
\* attempt has just ended.
Sweep(lost, ready) ==
  /\ \A t \in lost : phase[t] = "held"
  /\ \A t \in ready : phase[t] = "open" /\ t \in grant
  /\ phase' = [t \in Tasks |-> IF t \in lost THEN "open"
                               ELSE IF t \in ready THEN "offered"
                               ELSE phase[t]]
  /\ UNCHANGED <<terms, grant, taken, fence, next, announced>>

ContractNext ==
  \/ \E lost, ready \in SUBSET Tasks : Sweep(lost, ready)
  \/ \E t \in Tasks : \/ Define(t) \/ Redefine(t) \/ Ask(t) \/ Take(t)
                      \/ Leave(t) \/ Judge(t) \/ Cancel(t)

ContractSpec == ContractInit /\ [][ContractNext]_contractVars
=============================================================================
