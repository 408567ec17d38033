------------------------- MODULE WorkContractProofs -------------------------
(***************************************************************************)
(* TaskRuns implements WorkContract: every step of a person, an agent or   *)
(* the worker is one step of the contract, or none, for every set of       *)
(* tasks, humans, sessions and versions and any number of attempts.        *)
(***************************************************************************)
EXTENDS EvidenceProofs

USE ConstantsAssumption DEF RoleNames, Attempts

-----------------------------------------------------------------------------
(***************************************************************************)
(* The state of the contract.                                              *)
(***************************************************************************)
Phases == [t \in Tasks |-> Phase(t)]
TermsNow == [t \in Tasks |-> <<owner[t], ctx[t]>>]
Taken(t) == IF HasRun(t) THEN <<Latest(t).owner, Latest(t).input>> ELSE NoTerms
Fence(t) == IF HasRun(t) THEN Latest(t).fence ELSE 0
TakenNow == [t \in Tasks |-> Taken(t)]
FenceNow == [t \in Tasks |-> Fence(t)]
Announced == {t \in Tasks : cancelEvents[t] > 0}

\* The phase of a task is a view of its status.
View(x) ==
  CASE x = "NONE" -> "none"
    [] x \in {"DRAFT", "BLOCKED"} -> "open"
    [] x = "READY" -> "offered"
    [] x = "RUNNING" -> "held"
    [] x = "IN_REVIEW" -> "review"
    [] x = "DONE" -> "done"
    [] x = "CANCELED" -> "canceled"

LEMMA PhaseIsView == \A t \in Tasks : Phases[t] = View(status[t])
BY DEF Phases, Phase, View

\* A change of one status is a change of one phase.
LEMMA PhaseMove ==
  ASSUME TypeOK, NEW t \in Tasks, NEW x, status' = [status EXCEPT ![t] = x]
  PROVE  Phases' = [Phases EXCEPT ![t] = View(x)]
<1>1. ASSUME NEW u \in Tasks
      PROVE  Phases'[u] = [Phases EXCEPT ![t] = View(x)][u]
  <2>1. status'[u] = IF u = t THEN x ELSE status[u]
    BY DEF TypeOK
  <2>2. Phases'[u] = View(status'[u])
    BY DEF Phases, Phase, View
  <2>3. Phases[u] = View(status[u])
    BY PhaseIsView
  <2>4. [Phases EXCEPT ![t] = View(x)][u] = IF u = t THEN View(x)
                                            ELSE Phases[u]
    BY DEF Phases
  <2> QED
    BY <2>1, <2>2, <2>3, <2>4
<1> QED
  BY <1>1 DEF Phases

\* What an attempt took stays what it is.
LEMMA AttemptsKept ==
  ASSUME TypeOK, attempts' = attempts,
         \A u \in Tasks, m \in Attempts :
           /\ run'[u][m].owner = run[u][m].owner
           /\ run'[u][m].input = run[u][m].input
           /\ run'[u][m].fence = run[u][m].fence
  PROVE  TakenNow' = TakenNow /\ FenceNow' = FenceNow
<1>1. \A u \in Tasks : HasRun(u) => attempts[u] \in Attempts
  BY DEF TypeOK, HasRun
<1>2. \A u \in Tasks : Taken(u)' = Taken(u) /\ Fence(u)' = Fence(u)
  BY <1>1 DEF Taken, Fence, HasRun, Latest
<1> QED
  BY <1>2 DEF TakenNow, FenceNow

LEMMA AttemptsUnchanged ==
  ASSUME UNCHANGED <<attempts, run>>
  PROVE  TakenNow' = TakenNow /\ FenceNow' = FenceNow
BY DEF TakenNow, FenceNow, Taken, Fence, HasRun, Latest

\* A step the contract does not see.
LEMMA Unseen ==
  ASSUME UNCHANGED <<status, owner, ctx, granted, nextFence, cancelEvents>>,
         TakenNow' = TakenNow, FenceNow' = FenceNow
  PROVE  UNCHANGED Contract!contractVars
<1>1. Phases' = Phases /\ TermsNow' = TermsNow /\ Announced' = Announced
  BY DEF Phases, Phase, TermsNow, Announced
<1> QED
  BY <1>1 DEF Contract!contractVars, Phases, TermsNow, Announced, TakenNow,
              FenceNow, Taken, Fence

-----------------------------------------------------------------------------
(***************************************************************************)
(* Every step is a step of the contract.                                   *)
(***************************************************************************)
LEMMA HumanSteps ==
  ASSUME EInv, HumanStep
  PROVE  [Contract!ContractNext]_(Contract!contractVars)
<1> DEFINE Goal == [Contract!ContractNext]_(Contract!contractVars)
<1>a. /\ TypeOK /\ CanceledAnnounced
      /\ status \in [Tasks -> Statuses] /\ cancelEvents \in [Tasks -> Nat]
  BY DEF EInv, IInv, TypeOK
<1>m. ASSUME NEW t \in Tasks,
             \/ Contract!Define(t) \/ Contract!Redefine(t) \/ Contract!Ask(t)
             \/ Contract!Take(t) \/ Contract!Leave(t) \/ Contract!Judge(t)
             \/ Contract!Cancel(t)
      PROVE  Goal
  BY <1>m DEF Goal, Contract!ContractNext
<1>u. ASSUME UNCHANGED <<status, owner, ctx, granted, runVars, cancelEvents>>
      PROVE  Goal
  BY <1>u, Unseen, AttemptsUnchanged DEF Goal, runVars
<1>v. \A t \in Tasks : Phases[t] = View(status[t])
  BY PhaseIsView
<1> HIDE DEF Goal
<1>1. ASSUME NEW t \in Tasks, NEW h \in Humans, NEW v \in Versions,
             CreateTask(t, h, v)
      PROVE  Goal
  <2>1. Phases' = [Phases EXCEPT ![t] = "open"] /\ Phases[t] = "none"
    BY <1>1, <1>a, <1>v, PhaseMove DEF CreateTask, SetStatus, View
  <2>2. TermsNow' = [TermsNow EXCEPT ![t] = <<h, v>>]
    BY <1>1, <1>a DEF CreateTask, TermsNow, TypeOK
  <2>3. TakenNow' = TakenNow /\ FenceNow' = FenceNow
    BY <1>1, AttemptsUnchanged DEF CreateTask, runVars
  <2>4. UNCHANGED <<granted, nextFence, cancelEvents>>
    BY <1>1 DEF CreateTask, runVars
  <2>5. Contract!Define(t)
    BY <2>1, <2>2, <2>3, <2>4
       DEF Contract!Define, Contract!Move, Phases, TermsNow, TakenNow,
           FenceNow, Taken, Fence
  <2> QED
    BY <1>m, <2>5
<1>2. ASSUME NEW t \in Tasks, NEW p \in Tasks, NEW c \in Conditions \ {"NONE"},
             AddDependency(t, p, c)
      PROVE  Goal
  <2>1. UNCHANGED <<owner, ctx, granted, runVars, cancelEvents>>
    BY <1>2 DEF AddDependency
  <2>2. \/ status' = status
        \/ status[t] = "READY" /\ status' = [status EXCEPT ![t] = "BLOCKED"]
    BY <1>2, <1>a DEF AddDependency, SetStatus
  <2>3. CASE status' = status
    BY <1>u, <2>1, <2>3
  <2>4. CASE status[t] = "READY" /\ status' = [status EXCEPT ![t] = "BLOCKED"]
    <3>1. Phases' = [Phases EXCEPT ![t] = "open"] /\ Phases[t] = "offered"
      BY <2>4, <1>a, <1>v, PhaseMove DEF View
    <3>2. TakenNow' = TakenNow /\ FenceNow' = FenceNow
      BY <2>1, AttemptsUnchanged DEF runVars
    <3>3. Contract!Leave(t)
      BY <2>1, <3>1, <3>2
         DEF Contract!Leave, Contract!Move, Phases, TakenNow, FenceNow, Taken,
             Fence, runVars
    <3> QED
      BY <1>m, <3>3
  <2> QED
    BY <2>2, <2>3, <2>4
<1>3. ASSUME NEW t \in Tasks, NEW retry, Authorize(t, retry)
      PROVE  Goal
  <2>1. /\ status[t] \in {"DRAFT", "BLOCKED"}
        /\ \/ status' = [status EXCEPT ![t] = "READY"]
           \/ status' = [status EXCEPT ![t] = "BLOCKED"]
    BY <1>3 DEF Authorize, SetStatus
  <2>2. Phases[t] = "open"
    BY <1>v, <2>1 DEF View
  <2>3. \/ Phases' = [Phases EXCEPT ![t] = "open"]
        \/ Phases' = [Phases EXCEPT ![t] = "offered"]
    BY <1>a, <2>1, PhaseMove DEF View
  <2>4. TakenNow' = TakenNow /\ FenceNow' = FenceNow
    BY <1>3, AttemptsUnchanged DEF Authorize, runVars
  <2>5. granted' = granted \cup {t}
        /\ UNCHANGED <<owner, ctx, nextFence, cancelEvents>>
    BY <1>3 DEF Authorize, runVars
  <2>6. Contract!Ask(t)
    BY <2>2, <2>3, <2>4, <2>5
       DEF Contract!Ask, Contract!Move, Phases, TakenNow, FenceNow, Taken,
           Fence
  <2> QED
    BY <1>m, <2>6
<1>4. ASSUME NEW t \in Tasks, Cancel(t)
      PROVE  Goal
  <2>1. /\ status[t] \in Statuses \ {"NONE", "CANCELED", "DONE"}
        /\ status' = [status EXCEPT ![t] = "CANCELED"]
        /\ UNCHANGED <<owner, ctx, attempts, nextFence, granted>>
    BY <1>4, <1>a DEF Cancel, Commanded, SetStatus
  <2>2. Phases' = [Phases EXCEPT ![t] = "canceled"]
        /\ Phases[t] \in {"open", "offered", "held", "review"}
    BY <1>a, <1>v, <2>1, PhaseMove DEF View, Statuses
  <2>3. TakenNow' = TakenNow /\ FenceNow' = FenceNow
    <3>1. CASE HasRun(t) /\ Latest(t).status = "RUNNING"
      <4>1. run' = [run EXCEPT ![t][attempts[t]].status = "CANCELED"]
            /\ attempts[t] \in Attempts
        BY <1>4, <1>a, <3>1 DEF Cancel, EndRun, HasRun, TypeOK
      <4> QED
        BY <1>a, <2>1, <4>1, StatusOnly, AttemptsKept
    <3>2. CASE ~(HasRun(t) /\ Latest(t).status = "RUNNING")
      BY <1>4, <2>1, <3>2, AttemptsUnchanged DEF Cancel
    <3> QED
      BY <3>1, <3>2
  <2>4. Announced' = Announced \cup {t}
    <3>1. cancelEvents' = [cancelEvents EXCEPT ![t] = cancelEvents[t] + 1]
      BY <1>4 DEF Cancel, EmitCanceled
    <3> QED
      BY <1>a, <3>1 DEF Announced
  <2>5. Contract!Cancel(t)
    BY <2>1, <2>2, <2>3, <2>4
       DEF Contract!Cancel, Contract!Move, Phases, TakenNow, FenceNow, Taken,
           Fence, Announced
  <2> QED
    BY <1>m, <2>5
\* Putting a cancelled task away announces it again to those who know.
<1>5. ASSUME NEW t \in Tasks, Archive(t) \/ Restore(t)
      PROVE  Goal
  <2>1. /\ UNCHANGED <<status, owner, ctx, granted, runVars>>
        /\ \/ UNCHANGED cancelEvents
           \/ /\ status[t] = "CANCELED"
              /\ cancelEvents' =
                   [cancelEvents EXCEPT ![t] = cancelEvents[t] + 1]
    BY <1>5 DEF Archive, Restore, EmitCanceled
  <2>2. CASE UNCHANGED cancelEvents
    BY <1>u, <2>1, <2>2
  <2>3. CASE /\ status[t] = "CANCELED"
             /\ cancelEvents' =
                  [cancelEvents EXCEPT ![t] = cancelEvents[t] + 1]
    <3>1. cancelEvents[t] > 0
      BY <1>a, <2>3 DEF CanceledAnnounced
    <3>2. Announced' = Announced
      BY <1>a, <2>3, <3>1 DEF Announced
    <3>3. TakenNow' = TakenNow /\ FenceNow' = FenceNow
      BY <2>1, AttemptsUnchanged DEF runVars
    <3>4. Phases' = Phases /\ TermsNow' = TermsNow
      BY <2>1 DEF Phases, Phase, TermsNow
    <3> QED
      BY <2>1, <3>2, <3>3, <3>4
         DEF Goal, Contract!contractVars, Phases, TermsNow, Announced,
             TakenNow, FenceNow, Taken, Fence, runVars
  <2> QED
    BY <2>1, <2>2, <2>3
<1>6. ASSUME NEW t \in Tasks, NEW h \in Humans \cup {None},
             NEW v \in Versions \cup {None},
             /\ Editable(t) /\ SetStatus(t, "DRAFT")
             /\ TermsNow' = [TermsNow EXCEPT ![t] = <<h, v>>]
             /\ granted' = granted \ {t}
             /\ UNCHANGED <<runVars, cancelEvents>>
      PROVE  Goal
  <2>1. Phases' = [Phases EXCEPT ![t] = "open"]
        /\ Phases[t] \in {"open", "offered"}
    BY <1>6, <1>a, <1>v, PhaseMove DEF Editable, SetStatus, View
  <2>2. TakenNow' = TakenNow /\ FenceNow' = FenceNow
    BY <1>6, AttemptsUnchanged DEF runVars
  <2>3. \E x \in (Humans \cup {None}) \X (Versions \cup {None}) :
          TermsNow' = [TermsNow EXCEPT ![t] = x]
    <3>1. <<h, v>> \in (Humans \cup {None}) \X (Versions \cup {None})
      OBVIOUS
    <3> QED
      BY <1>6, <3>1
  <2>4. Contract!Move(t, {"open", "offered"}, "open")
    BY <2>1 DEF Contract!Move, Phases
  <2>5. granted' = granted \ {t} /\ UNCHANGED <<nextFence, cancelEvents>>
    BY <1>6 DEF runVars
  <2>6. Contract!Redefine(t)
    BY <2>2, <2>3, <2>4, <2>5
       DEF Contract!Redefine, TermsNow, TakenNow, FenceNow, Taken, Fence
  <2> QED
    BY <1>m, <2>6
<1>7. ASSUME NEW t \in Tasks, NEW v \in Versions, EditTask(t, v)
      PROVE  Goal
  <2>1. TermsNow' = [TermsNow EXCEPT ![t] = <<owner[t], v>>]
    BY <1>7, <1>a DEF EditTask, TermsNow, TypeOK
  <2>2. owner[t] \in Humans \cup {None}
    BY <1>a DEF TypeOK
  <2> QED
    BY <1>6, <1>7, <2>1, <2>2 DEF EditTask
<1>8. ASSUME NEW t \in Tasks, NEW h \in Humans, TransferTask(t, h)
      PROVE  Goal
  <2>1. TermsNow' = [TermsNow EXCEPT ![t] = <<h, ctx[t]>>]
    BY <1>8, <1>a DEF TransferTask, TermsNow, TypeOK
  <2>2. ctx[t] \in Versions \cup {None}
    BY <1>a DEF TypeOK
  <2> QED
    BY <1>6, <1>8, <2>1, <2>2 DEF TransferTask
<1>9. ASSUME NEW t \in Tasks, NEW refs \in SUBSET Artifacts,
             AcceptTask(t, refs) \/ ReturnTask(t, refs)
      PROVE  Goal
  <2>1. /\ status[t] = "IN_REVIEW" /\ granted' = granted \ {t}
        /\ \/ status' = [status EXCEPT ![t] = "DONE"]
           \/ status' = [status EXCEPT ![t] = "BLOCKED"]
        /\ UNCHANGED <<owner, ctx, runVars, cancelEvents>>
    BY <1>9 DEF AcceptTask, ReturnTask, Reviewed, SetStatus
  <2>2. Phases[t] = "review"
    BY <1>v, <2>1 DEF View
  <2>3. \/ Phases' = [Phases EXCEPT ![t] = "done"]
        \/ Phases' = [Phases EXCEPT ![t] = "open"]
    BY <1>a, <2>1, PhaseMove DEF View
  <2>4. TakenNow' = TakenNow /\ FenceNow' = FenceNow
    BY <2>1, AttemptsUnchanged DEF runVars
  <2>5. Contract!Judge(t)
    BY <2>1, <2>2, <2>3, <2>4
       DEF Contract!Judge, Contract!Move, Phases, TakenNow, FenceNow, Taken,
           Fence, runVars
  <2> QED
    BY <1>m, <2>5
<1>10. CASE \/ \E t \in Tasks, a \in Agents \cup {General} : AssignTask(t, a)
            \/ \E t, p \in Tasks : RemoveDependency(t, p)
            \/ \E v \in Versions : PublishVersion(v)
            \/ \E a \in Artifacts, b \in BOOLEAN : VerifyArtifact(a, b)
                                                   \/ ReviewArtifact(a, b)
  <2>1. UNCHANGED <<status, owner, ctx, granted, runVars, cancelEvents>>
    BY <1>10 DEF AssignTask, RemoveDependency, PublishVersion, VerifyArtifact,
                 ReviewArtifact, taskVars
  <2> QED
    BY <1>u, <2>1 DEF Goal
<1>11. Goal
  BY <1>1, <1>2, <1>3, <1>4, <1>5, <1>7, <1>8, <1>9, <1>10
     DEF HumanStep, Submit, Retry, Goal
<1> QED
  BY <1>11 DEF Goal

LEMMA AgentSteps ==
  ASSUME EInv, AgentStep
  PROVE  [Contract!ContractNext]_(Contract!contractVars)
<1> DEFINE Goal == [Contract!ContractNext]_(Contract!contractVars)
<1>a. /\ TypeOK /\ RunTaskAgreement /\ HumanGrant
      /\ status \in [Tasks -> Statuses]
      /\ attempts \in [Tasks -> 0 .. MaxAttempts]
  BY DEF EInv, IInv, TypeOK
<1>m. ASSUME NEW t \in Tasks, Contract!Take(t) \/ Contract!Leave(t)
      PROVE  Goal
  BY <1>m DEF Goal, Contract!ContractNext
<1>u. ASSUME UNCHANGED <<status, owner, ctx, granted, nextFence, cancelEvents>>,
             TakenNow' = TakenNow, FenceNow' = FenceNow
      PROVE  Goal
  BY <1>u, Unseen DEF Goal
<1>v. \A t \in Tasks : Phases[t] = View(status[t])
  BY PhaseIsView
<1> HIDE DEF Goal
<1>1. ASSUME NEW s \in Sessions, NEW t \in Tasks, ClaimRun(s, t)
      PROVE  Goal
  <2> DEFINE k == attempts[t] + 1
  <2>1. /\ status[t] = "READY" /\ status' = [status EXCEPT ![t] = "RUNNING"]
        /\ granted' = granted \ {t} /\ nextFence' = nextFence + 1
        /\ UNCHANGED <<owner, ctx, cancelEvents>>
    BY <1>1 DEF ClaimRun, SetStatus
  <2>2. t \in granted
    BY <1>a, <2>1 DEF HumanGrant
  <2>3. Phases' = [Phases EXCEPT ![t] = "held"] /\ Phases[t] = "offered"
    BY <1>a, <1>v, <2>1, PhaseMove DEF View
  <2>4. k \in Attempts /\ k > 0 /\ attempts' = [attempts EXCEPT ![t] = k]
    BY <1>1, <1>a DEF ClaimRun
  <2>5. /\ run'[t][k].owner = owner[t] /\ run'[t][k].input = ctx[t]
        /\ run'[t][k].fence = nextFence
        /\ \A u \in Tasks \ {t} : run'[u] = run[u]
    BY <1>1, <1>a, <2>4 DEF ClaimRun, TypeOK
  <2>6. \A u \in Tasks : attempts'[u] = IF u = t THEN k ELSE attempts[u]
    BY <1>a, <2>4
  <2>7. /\ Taken(t)' = <<owner[t], ctx[t]>> /\ Fence(t)' = nextFence
        /\ \A u \in Tasks \ {t} : Taken(u)' = Taken(u) /\ Fence(u)' = Fence(u)
    BY <2>4, <2>5, <2>6 DEF Taken, Fence, HasRun, Latest
  <2>8. /\ TakenNow' = [TakenNow EXCEPT ![t] = TermsNow[t]]
        /\ FenceNow' = [FenceNow EXCEPT ![t] = nextFence]
    BY <2>7 DEF TakenNow, FenceNow, TermsNow
  <2>9. Contract!Take(t)
    BY <2>1, <2>2, <2>3, <2>8
       DEF Contract!Take, Contract!Move, Phases, TermsNow, TakenNow, FenceNow,
           Taken, Fence
  <2> QED
    BY <1>m, <2>9
<1>2. ASSUME NEW s \in Sessions, NEW t \in Tasks, NEW n \in Attempts,
             \/ ReportFailure(s, t, n)
             \/ \E refs \in SUBSET Artifacts : ReportCompletion(s, t, n, refs)
      PROVE  Goal
  <2>1. /\ UNCHANGED <<owner, ctx, granted, attempts, nextFence, cancelEvents>>
        /\ \/ status' = [status EXCEPT ![t] = "BLOCKED"]
           \/ status' = [status EXCEPT ![t] = "IN_REVIEW"]
    BY <1>2 DEF ReportFailure, ReportCompletion, SetStatus
  <2>2. status[t] = "RUNNING"
    BY <1>2, <1>a, LiveRunIsLatest DEF ReportFailure, ReportCompletion
  <2>3. Phases[t] = "held"
    BY <1>v, <2>2 DEF View
  <2>4. \/ Phases' = [Phases EXCEPT ![t] = "open"]
        \/ Phases' = [Phases EXCEPT ![t] = "review"]
    BY <1>a, <2>1, PhaseMove DEF View
  <2>5. TakenNow' = TakenNow /\ FenceNow' = FenceNow
    <3>1. PICK x : run' = [run EXCEPT ![t][n].status = x]
      BY <1>2 DEF ReportFailure, ReportCompletion
    <3> QED
      BY <1>a, <2>1, <3>1, StatusOnly, AttemptsKept
  <2>6. Contract!Leave(t)
    BY <2>1, <2>3, <2>4, <2>5
       DEF Contract!Leave, Contract!Move, Phases, TakenNow, FenceNow, Taken,
           Fence
  <2> QED
    BY <1>m, <2>6
<1>3. ASSUME NEW s \in Sessions, NEW t \in Tasks, NEW n \in Attempts,
             HeartbeatRun(s, t, n)
      PROVE  Goal
  <2>1. PICK x : run' = [run EXCEPT ![t][n].lease = x]
    BY <1>3 DEF HeartbeatRun
  <2>2. TakenNow' = TakenNow /\ FenceNow' = FenceNow
    BY <1>a, <1>3, <2>1, LeaseOnly, AttemptsKept DEF HeartbeatRun
  <2> QED
    BY <1>3, <1>u, <2>2 DEF HeartbeatRun, taskVars
<1>4. ASSUME NEW s \in Sessions, NEW t \in Tasks, NEW n \in Attempts,
             \/ RequestInvocation(s, t, n)
             \/ \E a \in Artifacts, git \in GitKinds :
                  RegisterArtifact(s, t, n, a, git)
      PROVE  Goal
  BY <1>4, <1>u, AttemptsUnchanged
     DEF RequestInvocation, RegisterArtifact, taskVars, runVars
<1>5. Goal
  BY <1>1, <1>2, <1>3, <1>4 DEF AgentStep
<1> QED
  BY <1>5 DEF Goal

LEMMA OtherSteps ==
  ASSUME EInv, StandingStep \/ EnvironmentStep \/ UNCHANGED vars
  PROVE  [Contract!ContractNext]_(Contract!contractVars)
<1>a. TypeOK
  BY DEF EInv, IInv
<1>1. UNCHANGED <<status, owner, ctx, granted, attempts, nextFence,
                  cancelEvents>>
  BY DEF StandingStep, CreateSession, Handshake, LapseSession, EndSession,
         ChangeMember, ChangeAccount, EnvironmentStep, AgeLease,
         SettleInvocations, taskVars,
         runVars, vars
<1>2. CASE run' = run
  BY <1>1, <1>2, AttemptsUnchanged, Unseen
<1>3. ASSUME NEW t \in Tasks, NEW n \in Attempts, AgeLease(t, n)
      PROVE  UNCHANGED Contract!contractVars
  <2>1. PICK x : run' = [run EXCEPT ![t][n].lease = x]
    BY <1>3 DEF AgeLease
  <2>2. TakenNow' = TakenNow /\ FenceNow' = FenceNow
    BY <1>a, <1>1, <2>1, LeaseOnly, AttemptsKept
  <2> QED
    BY <1>1, <2>2, Unseen
<1>4. run' = run \/ \E t \in Tasks, n \in Attempts : AgeLease(t, n)
  BY DEF StandingStep, CreateSession, Handshake, LapseSession, EndSession,
         ChangeMember, ChangeAccount, EnvironmentStep, SettleInvocations,
         runVars, vars
<1> QED
  BY <1>2, <1>3, <1>4

\* One scan is one sweep: the lost Runs end, and of the waiting tasks, all of
\* them granted and none of them lost, those that are ready are offered.
LEMMA ReconcileSweeps ==
  ASSUME EInv, Reconcile
  PROVE  \E lost, ready \in SUBSET Tasks : Contract!Sweep(lost, ready)
<1> DEFINE ready == {t \in Waiting : Ready(t)}
<1>a. /\ TypeOK /\ RunTaskAgreement /\ HumanGrant /\ NoGrantWhileRunning
      /\ status \in [Tasks -> Statuses] /\ authorized \subseteq Tasks
  BY DEF EInv, IInv, TypeOK
<1>v. \A t \in Tasks : Phases[t] = View(status[t])
  BY PhaseIsView
<1>1. \A t \in Lost : t \in Tasks /\ status[t] = "RUNNING"
  BY <1>a, LostIsRunning DEF Lost
<1>2. \A t \in ready :
        t \in Tasks /\ status[t] = "BLOCKED" /\ t \in granted /\ t \notin Lost
  BY <1>a, <1>1 DEF Waiting, HumanGrant, NoGrantWhileRunning
<1>3. /\ \A t \in Lost : Phases[t] = "held"
      /\ \A t \in ready : Phases[t] = "open" /\ t \in granted
  BY <1>1, <1>2, <1>v DEF View
<1>4. ASSUME NEW t \in Tasks
      PROVE  Phases'[t] = IF t \in Lost THEN "open"
                          ELSE IF t \in ready THEN "offered" ELSE Phases[t]
  <2>1. status'[t] =
          CASE t \in Waiting /\ Ready(t) -> "READY"
            [] t \in Lost /\ ~(t \in Waiting /\ Ready(t)) -> "BLOCKED"
            [] OTHER -> status[t]
    BY DEF Reconcile
  <2>2. Phases'[t] = View(status'[t])
    BY DEF Phases, Phase, View
  <2> QED
    BY <1>2, <1>v, <2>1, <2>2 DEF View
<1>5. Phases' = [t \in Tasks |-> IF t \in Lost THEN "open"
                                 ELSE IF t \in ready THEN "offered"
                                 ELSE Phases[t]]
  <2> HIDE DEF ready
  <2> QED
    BY <1>4 DEF Phases
<1>6. TakenNow' = TakenNow /\ FenceNow' = FenceNow
  <2>1. ASSUME NEW u \in Tasks, NEW m \in Attempts
        PROVE  /\ run'[u][m].owner = run[u][m].owner
               /\ run'[u][m].input = run[u][m].input
               /\ run'[u][m].fence = run[u][m].fence
    <3>1. \/ run'[u][m] = run[u][m]
          \/ run'[u][m] = [run[u][m] EXCEPT !.status = "LOST"]
      BY DEF Reconcile
    <3>2. run[u][m] \in Run
      BY <1>a DEF TypeOK
    <3> QED
      BY <3>1, <3>2 DEF Run
  <2> QED
    BY <1>a, <2>1, AttemptsKept DEF Reconcile
<1>7. UNCHANGED <<owner, ctx, granted, nextFence, cancelEvents>>
  BY DEF Reconcile
<1>8. Lost \in SUBSET Tasks /\ ready \in SUBSET Tasks
  BY <1>1, <1>2
<1> HIDE DEF ready
<1>9. Contract!Sweep(Lost, ready)
  BY <1>3, <1>5, <1>6, <1>7
     DEF Contract!Sweep, Phases, TakenNow, FenceNow, Taken, Fence
<1> QED
  BY <1>8, <1>9

LEMMA ContractStep ==
  EInv /\ [Next]_vars => [Contract!ContractNext]_(Contract!contractVars)
<1> SUFFICES ASSUME EInv, [Next]_vars
             PROVE  [Contract!ContractNext]_(Contract!contractVars)
  OBVIOUS
<1>1. CASE Reconcile
  BY <1>1, ReconcileSweeps DEF Contract!ContractNext
<1> QED
  BY <1>1, HumanSteps, AgentSteps, OtherSteps DEF Next

LEMMA ContractStart == Init => Contract!ContractInit
<1> SUFFICES ASSUME Init PROVE Contract!ContractInit
  OBVIOUS
<1>1. /\ \A t \in Tasks : /\ Phase(t) = "none" /\ ~HasRun(t)
                          /\ owner[t] = None /\ ctx[t] = None
                          /\ ~(cancelEvents[t] > 0)
      /\ granted = {} /\ nextFence = 1
  BY DEF Init, Phase, HasRun
<1> QED
  BY <1>1 DEF Contract!ContractInit, NoTerms

\* The control plane keeps its promises about work: whatever commands, claims,
\* reports (tasks_execution.go), edits (task_lifecycle.go), decisions
\* (delivery.go), losses of authority and scans (reconcile.go) interleave, each
\* is one step of the contract or none.
THEOREM TaskRunsKeepsContract == Spec => KeepsContract
BY ContractStart, ContractStep, EInvHolds, PTL
   DEF Spec, KeepsContract, Contract!ContractSpec
=============================================================================
