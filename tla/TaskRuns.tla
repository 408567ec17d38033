------------------------------ MODULE TaskRuns ------------------------------
(***************************************************************************)
(* Tasks, their Runs, the evidence Runs produce and the humans who decide. *)
(*                                                                         *)
(* Every project write holds the project row lock from authorisation to    *)
(* commit (server.go, execute), and so does the reconcile worker, so each  *)
(* handler is one action.  The If-Match version of a request is not kept:  *)
(* an action stands for a request whose version matched.  A handler that   *)
(* returns an error rolls its transaction back, so an action's guard is    *)
(* the conjunction of the checks the handler makes.                        *)
(*                                                                         *)
(* Leases and expiries are written and scanned by the database's clock,    *)
(* but a request is judged by the clock of the server that answers it.  A  *)
(* lease counts down by the database's clock; a server's clock may be up   *)
(* to ClockSkew behind it.  One that is ahead only refuses more.           *)
(***************************************************************************)
EXTENDS Integers, FiniteSets

CONSTANTS
  Tasks, Humans, Sessions, Artifacts, Versions, Agents,
  Delegator,        \* the human who created each session
  AgentOf,          \* the registered adapter each session speaks for
  General,          \* the only capability queue
  InitRoles,        \* the roles bootstrap gives each human
  RoleChoices,      \* the role sets an administrator hands out later
  Unsteady,         \* bound: the humans whose standing changes
  None,             \* no artifact, no assignment, no version, no human
  GitKinds,         \* bound: whether artifacts are Git references
  MaxAttempts,      \* bound on the Runs of one task
  LeaseTicks,       \* length of a lease (90 s) in model ticks
  ClockSkew,        \* how far, in ticks, a server's clock may be behind
  MaxCancelEvents   \* bound on the TASK_CANCELED events of one task

RoleNames == {"MEMBER", "REVIEWER", "ADMIN"}
Attempts == 1 .. MaxAttempts

ASSUME ConstantsAssumption ==
  /\ Delegator \in [Sessions -> Humans]
  /\ AgentOf \in [Sessions -> Agents]
  /\ InitRoles \in [Humans -> SUBSET RoleNames]
  /\ RoleChoices \subseteq SUBSET RoleNames /\ Unsteady \subseteq Humans
  /\ Artifacts \subseteq Nat      \* ids are compared by ORDER BY
  /\ GitKinds \subseteq BOOLEAN
  /\ MaxAttempts \in Nat /\ MaxCancelEvents \in Nat
  /\ LeaseTicks \in Nat \ {0} /\ ClockSkew \in Nat
  /\ None \notin Artifacts \cup Versions \cup Humans \cup Sessions
                 \cup Tasks \cup Agents \cup {General}

VARIABLES
  status,        \* tasks.status; "NONE" before the task is created
  owner,         \* tasks.owner_user_id
  authorized,    \* tasks with retry_authorized
  archived,      \* tasks whose document has archived = true
  assignment,    \* target of the active assignment
  ctx,           \* the Context version bound in task_contexts
  dep,           \* dep[t][p]: condition under which t waits for p
  evidence,      \* evidence[t][p]: that dependency's resolved_artifact_id
  attempts,      \* how many Runs a task has had
  run,           \* task_runs by task and attempt
  nextFence,     \* sequence run_fencing_tokens
  art,           \* artifacts
  published,     \* Context versions with status PUBLISHED
  member,        \* humans whose membership is active
  account,       \* humans whose account is active
  roles,         \* memberships.roles
  sess,          \* agent_sessions: status, and whether 0.2 was negotiated
  lapsed,        \* sessions past their expiry by the database's clock, which
                 \* a server may still take for good
  unsettled,     \* Runs with a tool operation that is not settled
  cancelEvents,  \* TASK_CANCELED events emitted for each task
  granted        \* history: tasks a human submitted since they were last
                 \* edited, transferred, returned or started

taskVars == <<status, owner, authorized, archived, assignment, ctx>>
depVars == <<dep, evidence>>
runVars == <<attempts, run, nextFence>>
peopleVars == <<member, account, roles, sess, lapsed>>
vars == <<taskVars, depVars, runVars, peopleVars, art, published, unsettled,
          cancelEvents, granted>>

Statuses == {"NONE", "DRAFT", "READY", "BLOCKED", "RUNNING", "IN_REVIEW",
             "DONE", "CANCELED"}
RunStatuses == {"NONE", "RUNNING", "SUCCEEDED", "FAILED", "CANCELED", "LOST"}
Conditions == {"NONE", "TASK_DONE", "ARTIFACT_ACCEPTED"}

Run == [status : RunStatuses, session : Sessions \cup {None}, fence : Nat,
        lease : (-ClockSkew) .. LeaseTicks, owner : Humans \cup {None},
        input : Versions \cup {None}, evidence : SUBSET Artifacts]
Artifact == [task : Tasks \cup {None}, attempt : Nat, git : BOOLEAN,
             verification : {"UNVERIFIED", "VERIFIED", "FAILED"},
             acceptance : {"PENDING", "ACCEPTED", "REJECTED"}]

NoRun == [status |-> "NONE", session |-> None, fence |-> 0, lease |-> 0,
          owner |-> None, input |-> None, evidence |-> {}]
NoArtifact == [task |-> None, attempt |-> 0, git |-> FALSE,
               verification |-> "UNVERIFIED", acceptance |-> "PENDING"]

(***************************************************************************)
(* Who may do what.                                                        *)
(***************************************************************************)
\* Membership and account must both be active; an administrator has every role.
Active == member \cap account
HasRole(h, r) == h \in Active /\ (r \in roles[h] \/ "ADMIN" \in roles[h])

\* The task's human owner, or an administrator, sends task commands.
Commanded(t) ==
  /\ status[t] # "NONE"
  /\ \E h \in Active : h = owner[t] \/ "ADMIN" \in roles[h]

\* Execution inputs can change only before a Run starts.
Editable(t) == status[t] \in {"DRAFT", "READY", "BLOCKED"}

\* The session's own standing, and its delegator's, for any write.
SessionMayWrite(s) ==
  /\ sess[s] \in {"ACTIVE", "NEGOTIATED"}
  /\ HasRole(Delegator[s], "MEMBER")

HasRun(t) == attempts[t] > 0
Latest(t) == run[t][attempts[t]]

\* Mutants: the checks skip the Run's own status, or its owner's standing.
LiveRunAfterEnd(s, t, n) ==
  /\ SessionMayWrite(s)
  /\ n <= attempts[t]
  /\ run[t][n].session = s /\ run[t][n].lease > -ClockSkew
  /\ run[t][n].owner \in Active

LiveRunWithoutOwner(s, t, n) ==
  /\ SessionMayWrite(s)
  /\ n <= attempts[t]
  /\ run[t][n].session = s /\ run[t][n].lease > -ClockSkew
  /\ run[t][n].status = "RUNNING"

\* The checks of a fenced write by session s to the n-th Run of t, made by the
\* server whose clock is furthest behind; another refuses, and nothing changes.
LiveRun(s, t, n) ==
  /\ SessionMayWrite(s)
  /\ n <= attempts[t]
  /\ run[t][n].session = s
  /\ run[t][n].status = "RUNNING"
  /\ run[t][n].lease > -ClockSkew
  /\ run[t][n].owner \in Active

(***************************************************************************)
(* Readiness of a task and of its dependencies.                            *)
(***************************************************************************)
Accepted(a) ==
  art[a].verification = "VERIFIED" /\ art[a].acceptance = "ACCEPTED"

Candidates(p) == {a \in Artifacts : art[a].task = p /\ Accepted(a)}

\* Mutant: a reference already taken is looked up again.
ResolveAgain(d, e) ==
  [p \in Tasks |->
     IF d[p] = "ARTIFACT_ACCEPTED" /\ Candidates(p) # {}
     THEN CHOOSE a \in Candidates(p) : \A b \in Candidates(p) : a <= b
     ELSE e[p]]

\* Given the conditions d and the references e of one task's dependencies: a
\* missing reference is filled once, with the first accepted artifact by id; a
\* reference already taken is never replaced.
Resolve(d, e) ==
  [p \in Tasks |->
     IF d[p] = "ARTIFACT_ACCEPTED" /\ e[p] = None /\ Candidates(p) # {}
     THEN CHOOSE a \in Candidates(p) : \A b \in Candidates(p) : a <= b
     ELSE e[p]]

\* The dependency on p holds, given its resolved reference a.
Satisfied(cond, p, a) ==
  \/ cond = "NONE"
  \/ cond = "TASK_DONE" /\ status[p] = "DONE"
  \/ cond = "ARTIFACT_ACCEPTED" /\ a # None /\ Accepted(a) /\ art[a].task = p

TaskReady(t, d, e) ==
  /\ ctx[t] \in published
  /\ owner[t] \in Active
  /\ \A p \in Tasks : Satisfied(d[p], p, Resolve(d, e)[p])

Ready(t) == TaskReady(t, dep[t], evidence[t])
ResolvedEvidence(t) == Resolve(dep[t], evidence[t])

\* Mutant: the edges are followed from successor to predecessor.
ReachesBackwards(t, p) ==
  \A S \in SUBSET Tasks :
    (t \in S /\ \A u \in S, v \in Tasks : dep[u][v] # "NONE" => v \in S)
      => p \in S

\* p is reachable from t along the edges from predecessor to successor.
Reaches(t, p) ==
  \A S \in SUBSET Tasks :
    (t \in S /\ \A u \in S, v \in Tasks : dep[v][u] # "NONE" => v \in S)
      => p \in S

AllSettled(t) == \A n \in Attempts : <<t, n>> \notin unsettled

(***************************************************************************)
(* What a step writes.                                                     *)
(***************************************************************************)
EndRun(t, outcome) ==
  run' = [run EXCEPT ![t][attempts[t]].status = outcome]

SetStatus(t, s) == status' = [status EXCEPT ![t] = s]

Init ==
  /\ status = [t \in Tasks |-> "NONE"]
  /\ owner = [t \in Tasks |-> None]
  /\ authorized = {} /\ archived = {}
  /\ assignment = [t \in Tasks |-> None]
  /\ ctx = [t \in Tasks |-> None]
  /\ dep = [t \in Tasks |-> [p \in Tasks |-> "NONE"]]
  /\ evidence = [t \in Tasks |-> [p \in Tasks |-> None]]
  /\ attempts = [t \in Tasks |-> 0]
  /\ run = [t \in Tasks |-> [n \in Attempts |-> NoRun]]
  /\ nextFence = 1
  /\ art = [a \in Artifacts |-> NoArtifact]
  /\ published = {}
  /\ member = Humans /\ account = Humans /\ roles = InitRoles
  /\ sess = [s \in Sessions |-> "NONE"] /\ lapsed = {}
  /\ unsettled = {}
  /\ cancelEvents = [t \in Tasks |-> 0]
  /\ granted = {}

-----------------------------------------------------------------------------
(***************************************************************************)
(* Human requests on a task.                                               *)
(***************************************************************************)
\* A new task may bind a version that is still a candidate; the column default
\* of retry_authorized is true.
CreateTask(t, h, v) ==
  /\ status[t] = "NONE"
  /\ h \in Active /\ \E g \in Active : HasRole(g, "MEMBER")
  /\ SetStatus(t, "DRAFT")
  /\ owner' = [owner EXCEPT ![t] = h]
  /\ ctx' = [ctx EXCEPT ![t] = v]
  /\ authorized' = authorized \cup {t}
  /\ UNCHANGED <<archived, assignment, depVars, runVars, peopleVars, art,
                 published, unsettled, cancelEvents, granted>>

AssignTask(t, target) ==
  /\ Commanded(t) /\ Editable(t)
  /\ assignment' = [assignment EXCEPT ![t] = target]
  /\ UNCHANGED <<status, owner, authorized, archived, ctx, depVars, runVars,
                 peopleVars, art, published, unsettled, cancelEvents, granted>>

\* The new row counts in the readiness check of a READY task.
AddDependency(t, p, cond) ==
  LET d == [dep[t] EXCEPT ![p] = cond] IN
  /\ Commanded(t) /\ Editable(t)
  /\ status[p] # "NONE"
  /\ ~Reaches(t, p) /\ dep[t][p] = "NONE"
  /\ dep' = [dep EXCEPT ![t] = d]
  /\ IF status[t] = "READY"
     THEN /\ evidence' = [evidence EXCEPT ![t] = Resolve(d, @)]
          /\ SetStatus(t, IF TaskReady(t, d, evidence[t]) THEN "READY"
                                                          ELSE "BLOCKED")
     ELSE UNCHANGED <<status, evidence>>
  /\ UNCHANGED <<owner, authorized, archived, assignment, ctx, runVars,
                 peopleVars, art, published, unsettled, cancelEvents, granted>>

\* Mutant: a dependency can be taken off a task that has started.
RemoveDependencyLate(t, p) ==
  /\ Commanded(t)
  /\ dep[t][p] # "NONE"
  /\ dep' = [dep EXCEPT ![t][p] = "NONE"]
  /\ evidence' = [evidence EXCEPT ![t][p] = None]
  /\ UNCHANGED <<taskVars, runVars, peopleVars, art, published, unsettled,
                 cancelEvents, granted>>

RemoveDependency(t, p) ==
  /\ Commanded(t) /\ Editable(t)
  /\ dep[t][p] # "NONE"
  /\ dep' = [dep EXCEPT ![t][p] = "NONE"]
  /\ evidence' = [evidence EXCEPT ![t][p] = None]
  /\ UNCHANGED <<taskVars, runVars, peopleVars, art, published, unsettled,
                 cancelEvents, granted>>

\* Mutant: a retry does not wait for the tool operations of earlier Runs.
AuthorizeUnsettled(t, retry) ==
  /\ Commanded(t)
  /\ status[t] \in {"DRAFT", "BLOCKED"}
  /\ retry <=> HasRun(t)
  /\ evidence' = [evidence EXCEPT ![t] = ResolvedEvidence(t)]
  /\ SetStatus(t, IF Ready(t) THEN "READY" ELSE "BLOCKED")
  /\ authorized' = authorized \cup {t}
  /\ granted' = granted \cup {t}
  /\ UNCHANGED <<owner, archived, assignment, ctx, dep, runVars, peopleVars,
                 art, published, unsettled, cancelEvents>>

\* SUBMIT and RETRY differ only in whether a Run must have ended before.
Authorize(t, retry) ==
  /\ Commanded(t)
  /\ status[t] \in {"DRAFT", "BLOCKED"}
  /\ retry <=> HasRun(t)
  /\ AllSettled(t)
  /\ evidence' = [evidence EXCEPT ![t] = ResolvedEvidence(t)]
  /\ SetStatus(t, IF Ready(t) THEN "READY" ELSE "BLOCKED")
  /\ authorized' = authorized \cup {t}
  /\ granted' = granted \cup {t}
  /\ UNCHANGED <<owner, archived, assignment, ctx, dep, runVars, peopleVars,
                 art, published, unsettled, cancelEvents>>

Submit(t) == Authorize(t, FALSE)
Retry(t) == Authorize(t, TRUE)

\* Mutant: only a cancellation that ended a Run is announced.
EmitCanceledRun(t) ==
  /\ cancelEvents[t] < MaxCancelEvents
  /\ cancelEvents' = [cancelEvents EXCEPT ![t] =
                        IF HasRun(t) THEN @ + 1 ELSE @]

\* Every command that leaves the task CANCELED emits TASK_CANCELED.
EmitCanceled(t) ==
  /\ cancelEvents[t] < MaxCancelEvents
  /\ cancelEvents' = [cancelEvents EXCEPT ![t] = @ + 1]

\* Mutant: the live Run is left to the worker.
CancelKeepsRun(t) ==
  /\ Commanded(t)
  /\ status[t] \notin {"CANCELED", "DONE"}
  /\ SetStatus(t, "CANCELED")
  /\ EmitCanceled(t)
  /\ UNCHANGED <<owner, authorized, archived, assignment, ctx, depVars,
                 runVars, peopleVars, art, published, unsettled, granted>>

Cancel(t) ==
  /\ Commanded(t)
  /\ status[t] \notin {"CANCELED", "DONE"}
  /\ SetStatus(t, "CANCELED")
  /\ IF HasRun(t) /\ Latest(t).status = "RUNNING"
     THEN EndRun(t, "CANCELED")
     ELSE UNCHANGED run
  /\ EmitCanceled(t)
  /\ UNCHANGED <<owner, authorized, archived, assignment, ctx, depVars,
                 attempts, nextFence, peopleVars, art, published, unsettled,
                 granted>>

Archive(t) ==
  /\ Commanded(t) /\ t \notin archived
  /\ status[t] \in {"DONE", "CANCELED"}
  /\ AllSettled(t)
  /\ archived' = archived \cup {t}
  /\ IF status[t] = "CANCELED" THEN EmitCanceled(t) ELSE UNCHANGED cancelEvents
  /\ UNCHANGED <<status, owner, authorized, assignment, ctx, depVars, runVars,
                 peopleVars, art, published, unsettled, granted>>

Restore(t) ==
  /\ Commanded(t) /\ t \in archived
  /\ archived' = archived \ {t}
  /\ IF status[t] = "CANCELED" THEN EmitCanceled(t) ELSE UNCHANGED cancelEvents
  /\ UNCHANGED <<status, owner, authorized, assignment, ctx, depVars, runVars,
                 peopleVars, art, published, unsettled, granted>>

NoLiveRun(t) == \A n \in Attempts : run[t][n].status # "RUNNING"

EditTask(t, v) ==
  /\ Commanded(t) /\ t \notin archived /\ Editable(t) /\ NoLiveRun(t)
  /\ v \in published
  /\ SetStatus(t, "DRAFT")
  /\ ctx' = [ctx EXCEPT ![t] = v]
  /\ authorized' = authorized \ {t}
  /\ granted' = granted \ {t}
  /\ UNCHANGED <<owner, archived, assignment, depVars, runVars, peopleVars,
                 art, published, unsettled, cancelEvents>>

TransferTask(t, h) ==
  /\ Commanded(t) /\ t \notin archived /\ Editable(t) /\ NoLiveRun(t)
  /\ h # owner[t] /\ h \in Active
  /\ SetStatus(t, "DRAFT")
  /\ owner' = [owner EXCEPT ![t] = h]
  /\ authorized' = authorized \ {t}
  /\ granted' = granted \ {t}
  /\ UNCHANGED <<archived, assignment, ctx, depVars, runVars, peopleVars, art,
                 published, unsettled, cancelEvents>>

-----------------------------------------------------------------------------
(***************************************************************************)
(* Requests of agent sessions on Runs.                                     *)
(***************************************************************************)
\* The task is frozen into the Run: its owner, its Context version and the
\* accepted evidence of its dependencies.
ClaimRun(s, t) ==
  /\ SessionMayWrite(s) /\ sess[s] = "NEGOTIATED"
  /\ status[t] = "READY" /\ t \in authorized
  /\ assignment[t] \in {AgentOf[s], General}
  /\ Ready(t)
  /\ attempts[t] < MaxAttempts
  /\ attempts' = [attempts EXCEPT ![t] = @ + 1]
  /\ run' = [run EXCEPT ![t][attempts[t] + 1] =
       [status |-> "RUNNING", session |-> s, fence |-> nextFence,
        lease |-> LeaseTicks, owner |-> owner[t], input |-> ctx[t],
        evidence |-> {ResolvedEvidence(t)[p] : p \in Tasks} \ {None}]]
  /\ nextFence' = nextFence + 1
  /\ evidence' = [evidence EXCEPT ![t] = ResolvedEvidence(t)]
  /\ authorized' = authorized \ {t}
  /\ granted' = granted \ {t}
  /\ SetStatus(t, "RUNNING")
  /\ UNCHANGED <<owner, archived, assignment, ctx, dep, peopleVars, art,
                 published, unsettled, cancelEvents>>

\* Mutant: each heartbeat adds to what is left of the lease.
HeartbeatRunAdds(s, t, n) ==
  /\ LiveRun(s, t, n)
  /\ run' = [run EXCEPT ![t][n].lease = @ + LeaseTicks]
  /\ UNCHANGED <<taskVars, depVars, attempts, nextFence, peopleVars, art,
                 published, unsettled, cancelEvents, granted>>

HeartbeatRun(s, t, n) ==
  /\ LiveRun(s, t, n)
  /\ run' = [run EXCEPT ![t][n].lease = LeaseTicks]
  /\ UNCHANGED <<taskVars, depVars, attempts, nextFence, peopleVars, art,
                 published, unsettled, cancelEvents, granted>>

\* Every artifact of a completion candidate is verified and of this Run.
ReportCompletion(s, t, n, refs) ==
  /\ LiveRun(s, t, n)
  /\ refs # {}
  /\ \A a \in refs : /\ art[a].task = t /\ art[a].attempt = n
                     /\ art[a].verification = "VERIFIED"
  /\ run' = [run EXCEPT ![t][n].status = "SUCCEEDED"]
  /\ SetStatus(t, "IN_REVIEW")
  /\ UNCHANGED <<owner, authorized, archived, assignment, ctx, depVars,
                 attempts, nextFence, peopleVars, art, published, unsettled,
                 cancelEvents, granted>>

ReportFailure(s, t, n) ==
  /\ LiveRun(s, t, n)
  /\ run' = [run EXCEPT ![t][n].status = "FAILED"]
  /\ SetStatus(t, "BLOCKED")
  /\ UNCHANGED <<owner, authorized, archived, assignment, ctx, depVars,
                 attempts, nextFence, peopleVars, art, published, unsettled,
                 cancelEvents, granted>>

\* Uploaded text is verified by its stored digest; a Git reference is not.
RegisterArtifact(s, t, n, a, git) ==
  /\ LiveRun(s, t, n)
  /\ art[a].task = None
  /\ art' = [art EXCEPT ![a] =
       [task |-> t, attempt |-> n, git |-> git,
        verification |-> IF git THEN "UNVERIFIED" ELSE "VERIFIED",
        acceptance |-> "PENDING"]]
  /\ UNCHANGED <<taskVars, depVars, runVars, peopleVars, published, unsettled,
                 cancelEvents, granted>>

\* A tool operation is requested in a live Run; the gateway settles it later,
\* whatever has become of the Run.
RequestInvocation(s, t, n) ==
  /\ LiveRun(s, t, n)
  /\ unsettled' = unsettled \cup {<<t, n>>}
  /\ UNCHANGED <<taskVars, depVars, runVars, peopleVars, art, published,
                 cancelEvents, granted>>

SettleInvocations(t, n) ==
  /\ <<t, n>> \in unsettled
  /\ unsettled' = unsettled \ {<<t, n>>}
  /\ UNCHANGED <<taskVars, depVars, runVars, peopleVars, art, published,
                 cancelEvents, granted>>

-----------------------------------------------------------------------------
(***************************************************************************)
(* Evidence and review.                                                    *)
(***************************************************************************)
Reviewers == {h \in Humans : HasRole(h, "REVIEWER")}

\* Mutant: evidence can be verified again after it was decided.
VerifyDecided(a, ok) ==
  /\ Reviewers # {}
  /\ art[a].task # None /\ art[a].git
  /\ art' = [art EXCEPT ![a].verification = IF ok THEN "VERIFIED" ELSE "FAILED"]
  /\ UNCHANGED <<taskVars, depVars, runVars, peopleVars, published, unsettled,
                 cancelEvents, granted>>

\* The provider's answer about an immutable Git reference is an input.
VerifyArtifact(a, ok) ==
  /\ Reviewers # {}
  /\ art[a].task # None /\ art[a].git /\ art[a].acceptance = "PENDING"
  /\ art' = [art EXCEPT ![a].verification = IF ok THEN "VERIFIED" ELSE "FAILED"]
  /\ UNCHANGED <<taskVars, depVars, runVars, peopleVars, published, unsettled,
                 cancelEvents, granted>>

\* Mutant: a decision can be taken back.
ReviewableAgain(a) ==
  /\ art[a].task # None
  /\ status[art[a].task] # "CANCELED"
  /\ run[art[a].task][art[a].attempt].status \notin
       {"CANCELED", "LOST", "FAILED"}

\* decideArtifact's checks: evidence of a Run still RUNNING may be decided.
Reviewable(a) ==
  /\ art[a].task # None /\ art[a].acceptance = "PENDING"
  /\ status[art[a].task] # "CANCELED"
  /\ run[art[a].task][art[a].attempt].status \notin
       {"CANCELED", "LOST", "FAILED"}

ReviewArtifact(a, accept) ==
  /\ Reviewers # {}
  /\ Reviewable(a)
  /\ accept => art[a].verification = "VERIFIED"
  /\ art' = [art EXCEPT ![a].acceptance = IF accept THEN "ACCEPTED"
                                                   ELSE "REJECTED"]
  /\ UNCHANGED <<taskVars, depVars, runVars, peopleVars, published, unsettled,
                 cancelEvents, granted>>

\* reviewTask by the current owner, over artifacts refs of the latest Run.
Reviewed(t, refs) ==
  /\ status[t] = "IN_REVIEW" /\ owner[t] \in Active
  /\ HasRun(t) /\ Latest(t).status = "SUCCEEDED"
  /\ refs # {}
  /\ \A a \in refs : art[a].task = t /\ art[a].attempt = attempts[t]

AcceptTask(t, refs) ==
  /\ Reviewed(t, refs)
  /\ <<t, attempts[t]>> \notin unsettled
  /\ \A a \in refs : /\ art[a].verification = "VERIFIED"
                     /\ art[a].acceptance \in {"PENDING", "ACCEPTED"}
                     /\ art[a].acceptance = "PENDING" => Reviewable(a)
  /\ art' = [a \in Artifacts |->
       IF a \in refs THEN [art[a] EXCEPT !.acceptance = "ACCEPTED"] ELSE art[a]]
  /\ SetStatus(t, "DONE")
  /\ authorized' = authorized \ {t}
  /\ granted' = granted \ {t}
  /\ UNCHANGED <<owner, archived, assignment, ctx, depVars, runVars, peopleVars,
                 published, unsettled, cancelEvents>>

ReturnTask(t, refs) ==
  /\ Reviewed(t, refs)
  /\ SetStatus(t, "BLOCKED")
  /\ authorized' = authorized \ {t}
  /\ granted' = granted \ {t}
  /\ UNCHANGED <<owner, archived, assignment, ctx, depVars, runVars, peopleVars,
                 art, published, unsettled, cancelEvents>>

PublishVersion(v) ==
  /\ Reviewers # {}
  /\ v \notin published
  /\ published' = published \cup {v}
  /\ UNCHANGED <<taskVars, depVars, runVars, peopleVars, art, unsettled,
                 cancelEvents, granted>>

-----------------------------------------------------------------------------
(***************************************************************************)
(* Sessions, standing and time.                                            *)
(***************************************************************************)
CreateSession(s) ==
  /\ sess[s] = "NONE" /\ HasRole(Delegator[s], "MEMBER")
  /\ sess' = [sess EXCEPT ![s] = "ACTIVE"]
  /\ UNCHANGED <<taskVars, depVars, runVars, member, account, roles, lapsed,
                 art, published, unsettled, cancelEvents, granted>>

Handshake(s) ==
  /\ SessionMayWrite(s)
  /\ sess' = [sess EXCEPT ![s] = "NEGOTIATED"]
  /\ UNCHANGED <<taskVars, depVars, runVars, member, account, roles, lapsed,
                 art, published, unsettled, cancelEvents, granted>>

\* The expiry of s passes by the database's clock, not yet by every server's.
LapseSession(s) ==
  /\ ClockSkew > 0
  /\ sess[s] \in {"ACTIVE", "NEGOTIATED"} /\ s \notin lapsed
  /\ lapsed' = lapsed \cup {s}
  /\ UNCHANGED <<taskVars, depVars, runVars, member, account, roles, sess, art,
                 published, unsettled, cancelEvents, granted>>

\* Revoked by its delegator or an administrator, or past its expiry by every
\* clock.
EndSession(s) ==
  /\ sess[s] \in {"ACTIVE", "NEGOTIATED"}
  /\ sess' = [sess EXCEPT ![s] = "ENDED"]
  /\ UNCHANGED <<taskVars, depVars, runVars, member, account, roles, lapsed,
                 art, published, unsettled, cancelEvents, granted>>

\* The sessions of h that are active are revoked with h's standing.
RevokedWith(h) ==
  [s \in Sessions |->
     IF Delegator[s] = h /\ sess[s] \in {"ACTIVE", "NEGOTIATED"}
     THEN "ENDED" ELSE sess[s]]

Admins == {h \in Active : "ADMIN" \in roles[h]}

\* An administrator sets a membership; the last active administrator stays.
ChangeMember(h, r, on) ==
  /\ h \in Unsteady
  /\ Admins # {}
  /\ h \in member /\ "ADMIN" \in roles[h] /\ (~on \/ "ADMIN" \notin r)
       => Cardinality(Admins) >= 2
  /\ roles' = [roles EXCEPT ![h] = r]
  /\ member' = IF on THEN member \cup {h} ELSE member \ {h}
  /\ sess' = IF on THEN sess ELSE RevokedWith(h)
  /\ UNCHANGED <<taskVars, depVars, runVars, account, lapsed, art, published,
                 unsettled, cancelEvents, granted>>

\* An organisation administrator deactivates or reactivates an account; the
\* project's administrators are not counted.
ChangeAccount(h, on) ==
  /\ h \in Unsteady
  /\ on <=> h \notin account
  /\ account' = IF on THEN account \cup {h} ELSE account \ {h}
  /\ sess' = IF on THEN sess ELSE RevokedWith(h)
  /\ UNCHANGED <<taskVars, depVars, runVars, member, roles, lapsed, art,
                 published, unsettled, cancelEvents, granted>>

\* Time passes; how long a lease is past its end matters up to ClockSkew.
AgeLease(t, n) ==
  /\ run[t][n].status = "RUNNING" /\ run[t][n].lease > -ClockSkew
  /\ run' = [run EXCEPT ![t][n].lease = @ - 1]
  /\ UNCHANGED <<taskVars, depVars, attempts, nextFence, peopleVars, art,
                 published, unsettled, cancelEvents, granted>>

-----------------------------------------------------------------------------
(***************************************************************************)
(* The reconcile worker: one transaction over the project.                 *)
(***************************************************************************)
\* Mutant: the worker does not look at the session.
LeaseOrOwnerLost(t, n) ==
  /\ run[t][n].status = "RUNNING"
  /\ run[t][n].lease <= 0 \/ run[t][n].owner \notin Active

\* What is recorded of session, delegator and owner no longer supports the Run.
StandingLost(t, n) ==
  \/ sess[run[t][n].session] \notin {"ACTIVE", "NEGOTIATED"}
  \/ ~HasRole(Delegator[run[t][n].session], "MEMBER")
  \/ run[t][n].owner \notin Active

\* The worker's query, by the database's clock.
AuthorityLost(t, n) ==
  /\ run[t][n].status = "RUNNING"
  /\ \/ run[t][n].lease <= 0
     \/ run[t][n].session \in lapsed
     \/ StandingLost(t, n)

Lost == {t \in Tasks : \E n \in Attempts : AuthorityLost(t, n)}

\* Mutants: the worker retries lost work by itself, or forgets waiting work.
WaitingOrLost == {t \in Tasks : (status[t] = "BLOCKED" /\ t \in authorized)
                                \/ t \in Lost}
WaitingAfterLoss == {t \in authorized : t \in Lost}

\* BLOCKED tasks with an authorised attempt, once the lost Runs are closed.
Waiting == {t \in authorized : status[t] = "BLOCKED" \/ t \in Lost}

Reconcile ==
  /\ run' = [t \in Tasks |-> [n \in Attempts |->
       IF AuthorityLost(t, n) THEN [run[t][n] EXCEPT !.status = "LOST"]
                              ELSE run[t][n]]]
  /\ evidence' = [t \in Tasks |->
       IF t \in Waiting THEN ResolvedEvidence(t) ELSE evidence[t]]
  /\ status' = [t \in Tasks |->
       CASE t \in Waiting /\ Ready(t) -> "READY"
         [] t \in Lost /\ ~(t \in Waiting /\ Ready(t)) -> "BLOCKED"
         [] OTHER -> status[t]]
  /\ UNCHANGED <<owner, authorized, archived, assignment, ctx, dep, attempts,
                 nextFence, peopleVars, art, published, unsettled,
                 cancelEvents, granted>>

HumanStep ==
  \/ \E t \in Tasks, h \in Humans, v \in Versions : CreateTask(t, h, v)
  \/ \E t \in Tasks, a \in Agents \cup {General} : AssignTask(t, a)
  \/ \E t, p \in Tasks, c \in Conditions \ {"NONE"} : AddDependency(t, p, c)
  \/ \E t, p \in Tasks : RemoveDependency(t, p)
  \/ \E t \in Tasks : \/ Submit(t) \/ Retry(t) \/ Cancel(t)
                      \/ Archive(t) \/ Restore(t)
  \/ \E t \in Tasks, v \in Versions : EditTask(t, v)
  \/ \E t \in Tasks, h \in Humans : TransferTask(t, h)
  \/ \E v \in Versions : PublishVersion(v)
  \/ \E a \in Artifacts, b \in BOOLEAN : VerifyArtifact(a, b)
                                            \/ ReviewArtifact(a, b)
  \/ \E t \in Tasks, refs \in SUBSET Artifacts : AcceptTask(t, refs)
                                                 \/ ReturnTask(t, refs)

AgentStep ==
  \/ \E s \in Sessions, t \in Tasks : ClaimRun(s, t)
  \/ \E s \in Sessions, t \in Tasks, n \in Attempts :
       \/ HeartbeatRun(s, t, n)
       \/ ReportFailure(s, t, n)
       \/ RequestInvocation(s, t, n)
       \/ \E refs \in SUBSET Artifacts : ReportCompletion(s, t, n, refs)
       \/ \E a \in Artifacts, git \in GitKinds :
            RegisterArtifact(s, t, n, a, git)

StandingStep ==
  \/ \E s \in Sessions : CreateSession(s) \/ Handshake(s) \/ LapseSession(s)
                         \/ EndSession(s)
  \/ \E h \in Humans, r \in RoleChoices, on \in BOOLEAN : ChangeMember(h, r, on)
  \/ \E h \in Humans, on \in BOOLEAN : ChangeAccount(h, on)

EnvironmentStep ==
  \E t \in Tasks, n \in Attempts : AgeLease(t, n) \/ SettleInvocations(t, n)

Next == HumanStep \/ AgentStep \/ StandingStep \/ EnvironmentStep \/ Reconcile

Spec == Init /\ [][Next]_vars

\* The worker scans every few seconds for as long as the installation runs.
FairSpec == Spec /\ WF_vars(Reconcile)

-----------------------------------------------------------------------------
(***************************************************************************)
(* Properties.                                                             *)
(***************************************************************************)
\* Every variable holds a value of the type its column or document has.
TypeOK ==
  /\ status \in [Tasks -> Statuses]
  /\ owner \in [Tasks -> Humans \cup {None}]
  /\ authorized \subseteq Tasks /\ archived \subseteq Tasks
  /\ assignment \in [Tasks -> Agents \cup {General, None}]
  /\ ctx \in [Tasks -> Versions \cup {None}]
  /\ dep \in [Tasks -> [Tasks -> Conditions]]
  /\ evidence \in [Tasks -> [Tasks -> Artifacts \cup {None}]]
  /\ attempts \in [Tasks -> 0 .. MaxAttempts]
  /\ run \in [Tasks -> [Attempts -> Run]]
  /\ nextFence \in Nat \ {0}
  /\ art \in [Artifacts -> Artifact]
  /\ published \subseteq Versions
  /\ member \subseteq Humans /\ account \subseteq Humans
  /\ roles \in [Humans -> SUBSET RoleNames]
  /\ sess \in [Sessions -> {"NONE", "ACTIVE", "NEGOTIATED", "ENDED"}]
  /\ lapsed \subseteq Sessions
  /\ unsettled \subseteq Tasks \X Attempts
  /\ cancelEvents \in [Tasks -> 0 .. MaxCancelEvents]
  /\ granted \subseteq Tasks

\* The status of a task and of its Runs agree whatever order commands, reports
\* and the worker come in: a task is RUNNING exactly while its latest Run is,
\* no earlier Run is RUNNING, and the latest Run holds the highest fence.
RunTaskAgreement ==
  \A t \in Tasks :
    /\ status[t] = "RUNNING" <=> (HasRun(t) /\ Latest(t).status = "RUNNING")
    /\ \A n \in Attempts :
         /\ n > attempts[t] <=> run[t][n].status = "NONE"
         /\ n < attempts[t] => /\ run[t][n].status # "RUNNING"
                               /\ run[t][n].fence < Latest(t).fence
         /\ run[t][n].fence < nextFence

\* The worker never authorises a retry (reconcile.go:12): work that can be
\* claimed, or that the worker may make claimable, was submitted by a human
\* since it was last edited, transferred or returned and since its last Run.
HumanGrant ==
  \A t \in Tasks :
    status[t] = "READY" \/ (status[t] = "BLOCKED" /\ t \in authorized)
      => t \in granted

Phase(t) ==
  CASE status[t] = "NONE" -> "none"
    [] status[t] \in {"DRAFT", "BLOCKED"} -> "open"
    [] status[t] = "READY" -> "offered"
    [] status[t] = "RUNNING" -> "held"
    [] status[t] = "IN_REVIEW" -> "review"
    [] status[t] = "DONE" -> "done"
    [] status[t] = "CANCELED" -> "canceled"

NoTerms == <<None, None>>
Contract == INSTANCE WorkContract WITH
  Terms <- (Humans \cup {None}) \X (Versions \cup {None}),
  phase <- [t \in Tasks |-> Phase(t)],
  terms <- [t \in Tasks |-> <<owner[t], ctx[t]>>],
  grant <- granted,
  taken <- [t \in Tasks |->
    IF HasRun(t) THEN <<Latest(t).owner, Latest(t).input>> ELSE NoTerms],
  fence <- [t \in Tasks |-> IF HasRun(t) THEN Latest(t).fence ELSE 0],
  next <- nextFence,
  announced <- {t \in Tasks : cancelEvents[t] > 0}

\* However commands, reports, lost authority and the worker's scans interleave,
\* an attempt takes a human's grant and the terms of that moment (claimRun), no
\* two attempts share a fence, a lost attempt is not offered again by the
\* worker (reconcile.go:12), only a live attempt delivers, nothing moves work
\* that is done or cancelled, and a cancellation is announced as it happens.
KeepsContract == Contract!ContractSpec

\* What a Run executes, what a review judges and what a finished task claims
\* are the same inputs: the owner, the Context version and the dependency
\* evidence frozen at claim are still the task's own.
FrozenInputs ==
  \A t \in Tasks :
    status[t] \in {"RUNNING", "IN_REVIEW", "DONE"} =>
      /\ HasRun(t)
      /\ Latest(t).owner = owner[t]
      /\ Latest(t).input = ctx[t] /\ ctx[t] \in published
      /\ Latest(t).evidence = {evidence[t][p] : p \in Tasks} \ {None}

\* Dependencies hold not only when a task is claimed but for as long as the
\* work they released runs, is reviewed or counts as done.
DependenciesHold ==
  \A t \in Tasks :
    status[t] \in {"RUNNING", "IN_REVIEW", "DONE"} =>
      \A p \in Tasks : Satisfied(dep[t][p], p, evidence[t][p])

\* A task waits for review, or is done, on the strength of a successful latest
\* Run; a done task has evidence of that Run that is verified and accepted.
DoneOnEvidence ==
  \A t \in Tasks :
    /\ status[t] \in {"IN_REVIEW", "DONE"} =>
         HasRun(t) /\ Latest(t).status = "SUCCEEDED"
    /\ status[t] = "DONE" =>
         \E a \in Artifacts : /\ art[a].task = t /\ art[a].attempt = attempts[t]
                              /\ Accepted(a)

\* No new attempt starts, no task is done and none is put away while a tool
\* operation of an earlier Run may still take effect.
SettledBehind ==
  \A t \in Tasks :
    /\ status[t] \in {"READY", "DONE"} \/ t \in archived => AllSettled(t)
    /\ \A n \in Attempts : n < attempts[t] => <<t, n>> \notin unsettled

\* The consumers of the event feed know of a cancellation exactly when there is
\* one (commandExecution emits TASK_CANCELED in the transaction that cancels,
\* and no command takes a cancellation back).
CanceledAnnounced ==
  \A t \in Tasks : cancelEvents[t] > 0 <=> status[t] = "CANCELED"

\* The dependency graph has no cycle: every set of tasks has a member that
\* waits for nothing inside the set.
Acyclic ==
  \A S \in SUBSET Tasks :
    S # {} => \E t \in S : \A p \in S : dep[t][p] = "NONE"

\* History is immutable: an ended Run and a decided artifact keep every field,
\* and DONE and CANCELED are final, whatever late report, heartbeat or review
\* arrives (migrations 002 and 003 back this with triggers).
HistoryImmutable ==
  [][/\ \A t \in Tasks, n \in Attempts :
          run[t][n].status \notin {"NONE", "RUNNING"} => run'[t][n] = run[t][n]
     /\ \A a \in Artifacts : art[a].acceptance # "PENDING" => art'[a] = art[a]
     /\ \A t \in Tasks :
          status[t] \in {"DONE", "CANCELED"} => status'[t] = status[t]]_vars

\* A dependency's evidence, once taken, stays the same artifact for as long as
\* the dependency does, whatever is accepted later (docs/data-model.md:83).
EvidenceKept ==
  [][\A t, p \in Tasks :
       evidence[t][p] # None /\ dep'[t][p] = dep[t][p]
         => evidence'[t][p] = evidence[t][p]]_vars

\* The Run is lost on record, or by the clock of every server.
LostForGood(t, n) ==
  /\ run[t][n].status = "RUNNING"
  /\ StandingLost(t, n) \/ run[t][n].lease <= -ClockSkew

\* Once what is recorded no longer supports a Run, or its lease is over by the
\* clock of every server, and until the worker's next scan, the agent can change
\* nothing: the request path (LiveRun) judges the standing as strictly as the
\* worker's query, and the time with at most ClockSkew of grace.  Nothing is
\* reported, renewed, registered or invoked in such a Run.
NoWriteAfterLoss ==
  [][\A t \in Tasks, n \in Attempts :
       LostForGood(t, n) =>
         /\ run'[t][n].status \in {"RUNNING", "CANCELED", "LOST"}
         /\ run'[t][n].lease <= run[t][n].lease
         /\ \A a \in Artifacts :
              art'[a].task = t /\ art'[a].attempt = n => art[a].task = t
         /\ <<t, n>> \in unsettled' => <<t, n>> \in unsettled]_vars

\* Whatever takes away the authority behind a Run, the worker ends the Run or
\* the authority comes back first: no task is RUNNING for ever with nobody who
\* could report.
LostRunsEnd ==
  \A s \in Sessions, t \in Tasks, n \in Attempts :
    LET Orphan == /\ run[t][n].session = s /\ run[t][n].status = "RUNNING"
                  /\ ~LiveRun(s, t, n)
    IN  Orphan ~> ~Orphan

\* Submitted work whose inputs have become ready does not wait for ever.
ReadyWorkReleased ==
  \A t \in Tasks :
    status[t] = "BLOCKED" /\ t \in authorized /\ Ready(t)
      ~> ~(status[t] = "BLOCKED" /\ t \in authorized /\ Ready(t))
=============================================================================
