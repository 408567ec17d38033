----------------------------- MODULE ToolGateway -----------------------------
(***************************************************************************)
(* Governed tool operations: requested by an agent, decided by a human     *)
(* other than the delegator, run by the tool worker, and reconciled by an  *)
(* administrator when their outcome is not known.                          *)
(*                                                                         *)
(* The worker commits RUNNING in one transaction and runs the effect       *)
(* inside a second one that keeps the project row locked.  Both take the   *)
(* lock with SKIP LOCKED.  Every other project write is one transaction    *)
(* under the same lock, so it is one action that needs the lock free; an   *)
(* account change and the passing of time do not need it.                  *)
(*                                                                         *)
(* All operations belong to one Run of one session; TaskRuns models how    *)
(* Runs follow each other.  The text of arguments, digests and evidence is *)
(* left out: a request here is one whose arguments and evidence passed.    *)
(***************************************************************************)
EXTENDS Naturals, FiniteSets

CONSTANTS
  Ops,           \* ids, which the worker orders by; issued in any order
  Tools, ToolOf, \* each operation is of one tool
  ReadOnly,      \* the tools registered as read-only
  GitMerges,     \* the tools of kind git.merge; the others are MCP tools
  Pulls, PullOf, \* the pull request, at one head, each operation is to merge
  Workers,       \* processes running the tool worker
  Faulty,        \* bound: workers that may stop or lose their connection
  Humans, Delegator, Owner,
  InitRoles, RoleChoices,
  Unsteady,      \* bound: humans whose standing changes
  None,          \* no human, no worker
  BatchLimit,    \* LIMIT of the worker's query (25)
  MaxVersion,    \* bound on the versions of a policy
  MaxConfig      \* bound on the configurations of a tool

RoleNames == {"MEMBER", "REVIEWER", "ADMIN"}

ASSUME GatewayAssumption ==
  /\ Ops \subseteq Nat
  /\ ToolOf \in [Ops -> Tools] /\ ReadOnly \subseteq Tools
  /\ GitMerges \subseteq Tools \ ReadOnly /\ PullOf \in [Ops -> Pulls]
  /\ Faulty \subseteq Workers
  /\ Delegator \in Humans /\ Owner \in Humans
  /\ InitRoles \in [Humans -> SUBSET RoleNames]
  /\ RoleChoices \subseteq SUBSET RoleNames /\ Unsteady \subseteq Humans
  /\ None \notin Humans \cup Workers
  /\ BatchLimit \in Nat \ {0} /\ MaxVersion \in Nat /\ MaxConfig \in Nat \ {0}

VARIABLES
  inv,       \* tool_invocations.status; "NONE" before the request
  approval,  \* status of the approval; "NONE" for read-only operations
  decider,   \* decided_by_user_id
  bound,     \* policy version and tool configuration in the binding
  expired,   \* operations whose binding is older than 30 minutes
  aged,      \* RUNNING operations that started more than 45 s ago
  outcome,   \* of the operation in the external system
  sends,     \* how often the operation was sent to it
  merged,    \* pull requests merged at the head their operations name
  policy,    \* tool_policies by tool; version 0 before it exists
  config,    \* the tool configuration the processes run with
  session,   \* "GONE": expired, or revoked with its human's account
  runState,  \* "LAPSED": RUNNING with an expired lease
  member, account, roles,
  pc,        \* of a worker: between operations, between its transactions,
             \* past the last check, or waiting for the external system
  work,      \* ids left of the batch a worker listed
  lock       \* the worker whose second transaction holds the project row

opVars == <<inv, approval, decider, bound>>
timeVars == <<expired, aged>>
externalVars == <<outcome, sends, merged>>
toolVars == <<policy, config>>
peopleVars == <<session, runState, member, account, roles>>
workerVars == <<pc, work, lock>>
vars == <<opVars, timeVars, externalVars, toolVars, peopleVars, workerVars>>

Invocations == {"NONE", "AWAITING_APPROVAL", "READY", "RUNNING", "UNKNOWN",
                "SUCCEEDED", "FAILED", "CANCELED"}
Approvals == {"NONE", "PENDING", "APPROVED", "REJECTED", "EXPIRED"}
Policy == [enabled : BOOLEAN, version : Nat, config : Nat]
Binding == [version : Nat, config : Nat]

Init ==
  /\ inv = [o \in Ops |-> "NONE"] /\ approval = [o \in Ops |-> "NONE"]
  /\ decider = [o \in Ops |-> None]
  /\ bound = [o \in Ops |-> [version |-> 0, config |-> 0]]
  /\ expired = {} /\ aged = {}
  /\ outcome = [o \in Ops |-> "none"] /\ sends = [o \in Ops |-> 0]
  /\ merged = {}
  /\ policy = [t \in Tools |-> [enabled |-> FALSE, version |-> 0, config |-> 0]]
  /\ config = [t \in Tools |-> 1]
  /\ session = "ACTIVE" /\ runState = "LIVE"
  /\ member = Humans /\ account = Humans /\ roles = InitRoles
  /\ pc = [w \in Workers |-> "scan"] /\ work = [w \in Workers |-> {}]
  /\ lock = None

-----------------------------------------------------------------------------
(***************************************************************************)
(* Who may do what, and what makes an operation valid.                     *)
(***************************************************************************)
Active == member \cap account
Grants(h, r) == h \in member /\ (r \in roles[h] \/ "ADMIN" \in roles[h])
HasRole(h, r) == h \in account /\ Grants(h, r)
Administered == \E h \in Humans : HasRole(h, "ADMIN")

\* A project write gets the row lock.
Unlocked == lock = None

\* The policy the operation was bound to is still the policy.
PolicyStands(o) ==
  LET p == policy[ToolOf[o]] IN
  p.enabled /\ bound[o] = [version |-> p.version, config |-> config[ToolOf[o]]]

\* validateInvocation(approved = false).
Valid(o) ==
  /\ o \notin expired
  /\ session = "ACTIVE"
  /\ HasRole(Delegator, "MEMBER") /\ Owner \in Active
  /\ runState = "LIVE"
  /\ PolicyStands(o)

\* The exact operation has an independent decision of a human who may decide.
Decided(o) ==
  \/ ToolOf[o] \in ReadOnly
  \/ /\ approval[o] = "APPROVED"
     /\ decider[o] # Delegator
     /\ HasRole(decider[o], "REVIEWER")

\* validateInvocation(approved = true).
Executable(o) == Valid(o) /\ Decided(o)

-----------------------------------------------------------------------------
(***************************************************************************)
(* Requests.                                                               *)
(***************************************************************************)
\* createPolicy, then changePolicy: each takes the tool's configuration.
ChangePolicy(t, on) ==
  /\ Unlocked /\ Administered
  /\ policy[t].version < MaxVersion
  /\ policy' = [policy EXCEPT ![t] =
       [enabled |-> on, version |-> policy[t].version + 1, config |-> config[t]]]
  /\ UNCHANGED <<opVars, timeVars, externalVars, config, peopleVars, workerVars>>

\* The session asks for an operation; a repeated key returns the first answer.
RequestInvocation(o) ==
  LET t == ToolOf[o] IN
  /\ Unlocked
  /\ inv[o] = "NONE"
  /\ session = "ACTIVE" /\ HasRole(Delegator, "MEMBER")
  /\ runState = "LIVE" /\ Owner \in Active
  /\ policy[t].enabled /\ policy[t].config = config[t]
  /\ inv' = [inv EXCEPT ![o] =
       IF t \in ReadOnly THEN "READY" ELSE "AWAITING_APPROVAL"]
  /\ approval' = [approval EXCEPT ![o] =
       IF t \in ReadOnly THEN "NONE" ELSE "PENDING"]
  /\ bound' = [bound EXCEPT ![o] =
       [version |-> policy[t].version, config |-> config[t]]]
  /\ UNCHANGED <<decider, timeVars, externalVars, toolVars, peopleVars,
                 workerVars>>

\* Mutant: the approval gets the operation's new status.
DecideConfused(h, o, approve) ==
  /\ Unlocked /\ HasRole(h, "REVIEWER") /\ h # Delegator
  /\ approval[o] = "PENDING" /\ inv[o] = "AWAITING_APPROVAL" /\ Valid(o)
  /\ inv' = [inv EXCEPT ![o] = IF approve THEN "READY" ELSE "CANCELED"]
  /\ approval' = [approval EXCEPT ![o] = inv'[o]]
  /\ decider' = [decider EXCEPT ![o] = h]
  /\ UNCHANGED <<bound, timeVars, externalVars, toolVars, peopleVars, workerVars>>

\* A reviewer other than the delegator decides, while nothing has changed.
DecideApproval(h, o, approve) ==
  /\ Unlocked
  /\ HasRole(h, "REVIEWER") /\ h # Delegator
  /\ approval[o] = "PENDING" /\ inv[o] = "AWAITING_APPROVAL"
  /\ Valid(o)
  /\ approval' = [approval EXCEPT ![o] =
       IF approve THEN "APPROVED" ELSE "REJECTED"]
  /\ inv' = [inv EXCEPT ![o] = IF approve THEN "READY" ELSE "CANCELED"]
  /\ decider' = [decider EXCEPT ![o] = h]
  /\ UNCHANGED <<bound, timeVars, externalVars, toolVars, peopleVars, workerVars>>

IsMerge(o) == ToolOf[o] \in GitMerges

\* Registry.Reconcile: an MCP tool is asked for the operation; the Git provider
\* is asked whether the pull request is merged at that head, by whomever, and
\* anything else is no answer.
Lookup(o) ==
  IF IsMerge(o) THEN IF PullOf[o] \in merged THEN "applied" ELSE "none"
                ELSE outcome[o]

\* An administrator looks an unknown outcome up in the external system, with
\* the configuration the operation was bound to.
ReconcileInvocation(o) ==
  /\ Unlocked /\ Administered
  /\ inv[o] = "UNKNOWN"
  /\ config[ToolOf[o]] = bound[o].config
  /\ Lookup(o) \in {"applied", "rejected"}
  /\ inv' = [inv EXCEPT ![o] =
       IF Lookup(o) = "applied" THEN "SUCCEEDED" ELSE "FAILED"]
  /\ UNCHANGED <<approval, decider, bound, timeVars, externalVars, toolVars,
                 peopleVars, workerVars>>

-----------------------------------------------------------------------------
(***************************************************************************)
(* Authority that goes away.                                               *)
(***************************************************************************)
\* A report, a cancellation or the reconcile worker ends the Run.
EndRun ==
  /\ Unlocked /\ runState # "ENDED"
  /\ runState' = "ENDED"
  /\ UNCHANGED <<opVars, timeVars, externalVars, toolVars, session, member,
                 account, roles, workerVars>>

\* Nobody renewed the lease; heartbeats are refused from then on.
LeaseLapses ==
  /\ runState = "LIVE" /\ runState' = "LAPSED"
  /\ UNCHANGED <<opVars, timeVars, externalVars, toolVars, session, member,
                 account, roles, workerVars>>

RevokeSession ==
  /\ Unlocked /\ session = "ACTIVE"
  /\ HasRole(Delegator, "MEMBER") \/ Administered
  /\ session' = "REVOKED"
  /\ UNCHANGED <<opVars, timeVars, externalVars, toolVars, runState, member,
                 account, roles, workerVars>>

SessionExpires ==
  /\ session = "ACTIVE" /\ session' = "GONE"
  /\ UNCHANGED <<opVars, timeVars, externalVars, toolVars, runState, member,
                 account, roles, workerVars>>

\* Roles, and whether the membership is active; one administrator remains.
ChangeMember(h, r, on) ==
  /\ Unlocked /\ Administered /\ h \in Unsteady
  /\ <<r, on>> # <<roles[h], h \in member>>
  /\ (h \in member /\ "ADMIN" \in roles[h] /\ ~(on /\ "ADMIN" \in r)) =>
       Cardinality({a \in Active : "ADMIN" \in roles[a]}) >= 2
  /\ roles' = [roles EXCEPT ![h] = r]
  /\ member' = IF on THEN member \cup {h} ELSE member \ {h}
  /\ session' = IF ~on /\ h = Delegator /\ session = "ACTIVE"
                THEN "REVOKED" ELSE session
  /\ UNCHANGED <<opVars, timeVars, externalVars, toolVars, runState, account,
                 workerVars>>

\* The organisation's API does not lock the project.
ChangeAccount(h, on) ==
  /\ h \in Unsteady
  /\ on <=> h \notin account
  /\ account' = IF on THEN account \cup {h} ELSE account \ {h}
  /\ session' = IF ~on /\ h = Delegator /\ session = "ACTIVE"
                THEN "GONE" ELSE session
  /\ UNCHANGED <<opVars, timeVars, externalVars, toolVars, runState, member,
                 roles, workerVars>>

\* 30 minutes after the request.
BindingExpires(o) ==
  /\ inv[o] \in {"AWAITING_APPROVAL", "READY", "RUNNING"} /\ o \notin expired
  /\ expired' = expired \cup {o}
  /\ UNCHANGED <<opVars, aged, externalVars, toolVars, peopleVars, workerVars>>

\* The tools file changes: every process is restarted with it.
Redeploy(t, c) ==
  /\ \A w \in Workers : work[w] = {}
  /\ c # config[t]
  /\ config' = [config EXCEPT ![t] = c]
  /\ UNCHANGED <<opVars, timeVars, externalVars, policy, peopleVars, workerVars>>

-----------------------------------------------------------------------------
(***************************************************************************)
(* The tool worker.                                                        *)
(***************************************************************************)
\* Mutant: interrupted operations are never looked at again.
EligiblePending == {o \in Ops : inv[o] \in {"READY", "AWAITING_APPROVAL"}}

Eligible ==
  {o \in Ops : inv[o] \in {"READY", "AWAITING_APPROVAL"}
               \/ (inv[o] = "RUNNING" /\ o \in aged)}

Batch == {o \in Eligible :
            Cardinality({p \in Eligible : p < o}) < BatchLimit}

IsCurrent(w, o) == o \in work[w] /\ \A p \in work[w] : o <= p
At(w, o, step) == IsCurrent(w, o) /\ pc[w] = step

\* w is done with operation o and goes on with the next of its batch.
Advance(w, o) ==
  /\ pc' = [pc EXCEPT ![w] = "scan"]
  /\ work' = [work EXCEPT ![w] = @ \ {o}]

List(w) ==
  /\ work[w] = {} /\ Batch # {}
  /\ work' = [work EXCEPT ![w] = Batch]
  /\ UNCHANGED <<opVars, timeVars, externalVars, toolVars, peopleVars, pc, lock>>

\* Somebody holds the project row, maintenance is on, another worker was here
\* first, or the operation still waits for a decision.
Skip(w, o) ==
  /\ At(w, o, "scan") \/ At(w, o, "between")
  /\ Advance(w, o)
  /\ UNCHANGED <<opVars, timeVars, externalVars, toolVars, peopleVars, lock>>

\* Mutant: a RUNNING operation is started again.
Rerun(w, o) ==
  /\ Unlocked /\ At(w, o, "scan") /\ inv[o] = "RUNNING"
  /\ pc' = [pc EXCEPT ![w] = "between"]
  /\ UNCHANGED <<opVars, timeVars, externalVars, toolVars, peopleVars, work,
                 lock>>

\* The worker finds RUNNING, without looking at its age again.
Interrupt(w, o) ==
  /\ Unlocked /\ At(w, o, "scan") /\ inv[o] = "RUNNING"
  /\ inv' = [inv EXCEPT ![o] = "UNKNOWN"]
  /\ Advance(w, o)
  /\ UNCHANGED <<approval, decider, bound, timeVars, externalVars, toolVars,
                 peopleVars, lock>>

\* Mutant: operations waiting for a decision are left alone.
RefusableReady(o) == inv[o] = "READY" /\ ~Executable(o)

\* What the worker refuses to start, and the approval that falls with it.
Refusable(o) == \/ inv[o] = "AWAITING_APPROVAL" /\ ~Valid(o)
                \/ inv[o] = "READY" /\ ~Executable(o)

CancelAt(w, o) ==
  /\ inv' = [inv EXCEPT ![o] = "CANCELED"]
  /\ Advance(w, o)
  /\ UNCHANGED <<decider, bound, timeVars, externalVars, toolVars, peopleVars,
                 lock>>

\* Mutant: the approval stays PENDING.
RefuseInvocationOnly(w, o) ==
  /\ Unlocked /\ At(w, o, "scan") /\ Refusable(o)
  /\ CancelAt(w, o) /\ UNCHANGED approval

Refuse(w, o) ==
  /\ Unlocked /\ At(w, o, "scan") /\ Refusable(o)
  /\ approval' = [approval EXCEPT ![o] = IF @ = "PENDING" THEN "EXPIRED" ELSE @]
  /\ CancelAt(w, o)

\* Intent is committed before the effect.
Start(w, o) ==
  /\ Unlocked /\ At(w, o, "scan")
  /\ inv[o] = "READY" /\ Executable(o)
  /\ inv' = [inv EXCEPT ![o] = "RUNNING"]
  /\ pc' = [pc EXCEPT ![w] = "between"]
  /\ UNCHANGED <<approval, decider, bound, timeVars, externalVars, toolVars,
                 peopleVars, work, lock>>

\* Mutant: the second transaction relies on the checks of the first transaction.
EnterUnchecked(w, o) ==
  /\ Unlocked /\ At(w, o, "between") /\ inv[o] = "RUNNING"
  /\ lock' = w
  /\ pc' = [pc EXCEPT ![w] = "cleared"]
  /\ UNCHANGED <<opVars, timeVars, externalVars, toolVars, peopleVars, work>>

\* The second transaction locks the project row and checks everything again.
Enter(w, o) ==
  /\ Unlocked /\ At(w, o, "between")
  /\ inv[o] = "RUNNING" /\ Executable(o)
  /\ lock' = w
  /\ pc' = [pc EXCEPT ![w] = "cleared"]
  /\ UNCHANGED <<opVars, timeVars, externalVars, toolVars, peopleVars, work>>

RefuseLate(w, o) ==
  /\ Unlocked /\ At(w, o, "between")
  /\ inv[o] = "RUNNING" /\ ~Executable(o)
  /\ CancelAt(w, o)
  /\ UNCHANGED approval

Send(w, o) ==
  /\ At(w, o, "cleared")
  /\ sends' = [sends EXCEPT ![o] = @ + 1]
  /\ outcome' = [outcome EXCEPT ![o] = IF @ = "none" THEN "pending" ELSE @]
  /\ pc' = [pc EXCEPT ![w] = "sent"]
  /\ UNCHANGED <<merged, opVars, timeVars, toolVars, peopleVars, work, lock>>

\* A result within 12 s and the commit, or no result.
Finish(w, o, s) ==
  /\ lock = w /\ At(w, o, "sent")
  /\ s = "UNKNOWN" \/ (s = "SUCCEEDED" /\ outcome[o] = "applied")
  /\ inv' = [inv EXCEPT ![o] = s]
  /\ Advance(w, o) /\ lock' = None
  /\ UNCHANGED <<approval, decider, bound, timeVars, externalVars, toolVars,
                 peopleVars>>

\* The process dies, its 20 s are over, or one step of it fails: the rest of
\* the batch is dropped and an open transaction rolls back.
Stop(w) ==
  /\ w \in Faulty /\ work[w] # {}
  /\ pc' = [pc EXCEPT ![w] = "scan"] /\ work' = [work EXCEPT ![w] = {}]
  /\ lock' = IF lock = w THEN None ELSE lock
  /\ UNCHANGED <<opVars, timeVars, externalVars, toolVars, peopleVars>>

\* The database ends the transaction while the worker calls the tool; the
\* worker learns it only when it saves, and then its step fails (Stop).
LoseConnection(w) ==
  /\ w \in Faulty /\ lock = w
  /\ lock' = None
  /\ UNCHANGED <<opVars, timeVars, externalVars, toolVars, peopleVars, pc, work>>

\* 45 s pass; a worker's round is over after 20 s.
Ages(o) ==
  /\ inv[o] = "RUNNING" /\ o \notin aged
  /\ \A w \in Workers : IsCurrent(w, o) => pc[w] = "scan"
  /\ aged' = aged \cup {o}
  /\ UNCHANGED <<opVars, expired, externalVars, toolVars, peopleVars, workerVars>>

-----------------------------------------------------------------------------
\* The external system answers, or takes effect long after the caller gave up.
\* A pull request is merged once; every other merge of it is refused.
Answer(o, r) ==
  /\ outcome[o] = "pending"
  /\ r = "applied" /\ IsMerge(o) => PullOf[o] \notin merged
  /\ outcome' = [outcome EXCEPT ![o] = r]
  /\ merged' = IF r = "applied" /\ IsMerge(o) THEN merged \cup {PullOf[o]}
                                              ELSE merged
  /\ UNCHANGED <<opVars, timeVars, sends, toolVars, peopleVars, workerVars>>

\* Somebody merges a pull request without the gateway.
OthersMerge(p) ==
  /\ p \notin merged
  /\ merged' = merged \cup {p}
  /\ UNCHANGED <<outcome, sends, opVars, timeVars, toolVars, peopleVars,
                 workerVars>>

HumanStep ==
  \/ \E t \in Tools, on \in BOOLEAN : ChangePolicy(t, on)
  \/ \E h \in Humans, o \in Ops, b \in BOOLEAN : DecideApproval(h, o, b)
  \/ \E o \in Ops : ReconcileInvocation(o)
  \/ \E h \in Humans, r \in RoleChoices, on \in BOOLEAN : ChangeMember(h, r, on)
  \/ \E h \in Humans, on \in BOOLEAN : ChangeAccount(h, on)
  \/ RevokeSession

AgentStep == EndRun \/ \E o \in Ops : RequestInvocation(o)

TimeStep ==
  \/ LeaseLapses \/ SessionExpires
  \/ \E o \in Ops : BindingExpires(o) \/ Ages(o)

\* What the worker does with the operation at hand.
Judge(w, o) ==
  Interrupt(w, o) \/ Refuse(w, o) \/ Start(w, o)
Perform(w, o) ==
  \/ Enter(w, o) \/ RefuseLate(w, o) \/ Send(w, o)
  \/ \E s \in {"SUCCEEDED", "UNKNOWN"} : Finish(w, o, s)

WorkerStep(w) ==
  \/ List(w) \/ Stop(w)
  \/ \E o \in Ops : Skip(w, o) \/ Judge(w, o) \/ Perform(w, o)

EnvironmentStep ==
  \/ \E w \in Workers : LoseConnection(w)
  \/ \E o \in Ops, r \in {"applied", "rejected"} : Answer(o, r)
  \/ \E o \in Ops : IsMerge(o) /\ OthersMerge(PullOf[o])
  \/ \E t \in Tools, c \in 1 .. MaxConfig : Redeploy(t, c)

Next == \/ HumanStep \/ AgentStep \/ TimeStep \/ EnvironmentStep
        \/ \E w \in Workers : WorkerStep(w)

Spec == Init /\ [][Next]_vars

\* The worker's ticker, the clock, and a project row that is not locked at
\* every tick: each operation of a batch is reached and judged again and again
\* until it is settled.
FairSpec ==
  /\ Spec
  /\ \A w \in Workers : WF_vars(WorkerStep(w))
  /\ \A o \in Ops :
       /\ WF_vars(Ages(o)) /\ WF_vars(BindingExpires(o))
       /\ SF_vars(\E w \in Workers : Judge(w, o))
       /\ SF_vars(\E w \in Workers : Judge(w, o) \/ Skip(w, o))

-----------------------------------------------------------------------------
(***************************************************************************)
(* Properties.                                                             *)
(***************************************************************************)
\* Every variable holds a value of its column's type.
TypeOK ==
  /\ inv \in [Ops -> Invocations] /\ approval \in [Ops -> Approvals]
  /\ decider \in [Ops -> Humans \cup {None}]
  /\ bound \in [Ops -> Binding]
  /\ expired \subseteq Ops /\ aged \subseteq Ops
  /\ outcome \in [Ops -> {"none", "pending", "applied", "rejected"}]
  /\ sends \in [Ops -> Nat] /\ merged \subseteq Pulls
  /\ policy \in [Tools -> Policy] /\ config \in [Tools -> Nat]
  /\ session \in {"ACTIVE", "REVOKED", "GONE"}
  /\ runState \in {"LIVE", "LAPSED", "ENDED"}
  /\ member \subseteq Humans /\ account \subseteq Humans
  /\ roles \in [Humans -> SUBSET RoleNames]
  /\ pc \in [Workers -> {"scan", "between", "cleared", "sent"}]
  /\ work \in [Workers -> SUBSET Ops]
  /\ lock \in Workers \cup {None}

LedgerState(o) ==
  CASE inv[o] = "NONE" -> "none"
    [] inv[o] = "AWAITING_APPROVAL" -> "open"
    [] inv[o] = "READY" -> "granted"
    [] inv[o] \in {"RUNNING", "UNKNOWN"} -> "taken"
    [] inv[o] = "SUCCEEDED" -> "done"
    [] inv[o] = "FAILED" -> "failed"
    [] inv[o] = "CANCELED" -> "void"

\* The operations whose effect is there, whoever brought it about.
InPlace ==
  {o \in Ops : outcome[o] = "applied" \/ (IsMerge(o) /\ PullOf[o] \in merged)}

Ledger == INSTANCE OperationLedger
            WITH Shared <- {o \in Ops : IsMerge(o)},
                 state <- [o \in Ops |-> LedgerState(o)],
                 launches <- sends, inPlace <- InPlace

\* "A crashed RUNNING operation is never automatically retried"
\* (governance_worker.go:104), and more: an operation is launched at most once
\* and only while RUNNING or UNKNOWN, what is CANCELED was never launched and
\* never will be, FAILED is the external system's refusal of that operation, and
\* SUCCEEDED means that its effect is there: its own effect for an MCP tool, for
\* a merge the pull request merged at the approved head, by it or by others.
\* (A merge that others settled may still be sent, in vain, by a worker that has
\* lost its connection.)
KeepsLedger == Ledger!LedgerSpec

\* Every human sees in the list of approvals exactly what can still be decided,
\* and whatever left that list to be executed carries the approval of somebody
\* other than the delegator (processInvocation cancels the two together).
DecisionsPaired ==
  \A o \in Ops :
    /\ approval[o] = "PENDING" <=> inv[o] = "AWAITING_APPROVAL"
    /\ inv[o] \in {"READY", "RUNNING", "UNKNOWN", "SUCCEEDED", "FAILED"} =>
         \/ ToolOf[o] \in ReadOnly
         \/ approval[o] = "APPROVED" /\ decider[o] \in Humans \ {Delegator}

\* Everything validateInvocation checks that only a project write can change.
LockedAuthority(o) ==
  /\ session # "REVOKED"
  /\ Grants(Delegator, "MEMBER") /\ Owner \in member
  /\ runState # "ENDED"
  /\ PolicyStands(o)
  /\ \/ ToolOf[o] \in ReadOnly
     \/ approval[o] = "APPROVED" /\ decider[o] # Delegator
        /\ Grants(decider[o], "REVIEWER")

\* While the second transaction is open (governance_worker.go:220), from its
\* checks until the result is saved, the operation stays RUNNING and nothing
\* the project decides about its authority changes under the effect.
AuthorityThroughEffect ==
  \A w \in Workers : lock = w =>
    \E o \in Ops : /\ At(w, o, "cleared") \/ At(w, o, "sent")
                   /\ inv[o] = "RUNNING" /\ LockedAuthority(o)

\* "Pending intents are cancelled" once the session is gone (governance.md:60):
\* what waits for a decision or for the worker ends CANCELED.
IntentsCanceled ==
  \A o \in Ops :
    (inv[o] \in {"AWAITING_APPROVAL", "READY"} /\ session # "ACTIVE")
      ~> inv[o] = "CANCELED"

\* An operation that was started is either settled or shown as UNKNOWN to the
\* humans, whichever worker stopped where; it does not stay RUNNING.
RunningSurfaces == \A o \in Ops : inv[o] = "RUNNING" ~> inv[o] # "RUNNING"
=============================================================================
