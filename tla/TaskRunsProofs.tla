--------------------------- MODULE TaskRunsProofs ---------------------------
(***************************************************************************)
(* Proofs about TaskRuns, for every set of tasks, people, sessions and     *)
(* artifacts and every bound.                                              *)
(***************************************************************************)
EXTENDS TaskRuns, WellFoundedInduction, TLAPS

USE ConstantsAssumption DEF RoleNames, Attempts

-----------------------------------------------------------------------------
(***************************************************************************)
(* The operators the actions are built from.                               *)
(***************************************************************************)
\* ORDER BY id LIMIT 1 finds a row in every non-empty set of candidates.
LEMMA FirstById ==
  ASSUME NEW S \in SUBSET Artifacts, S # {}
  PROVE  \E a \in S : \A b \in S : a <= b
<1> DEFINE Less == {ss \in Nat \X Nat : ss[1] < ss[2]}
<1>1. IsWellFoundedOn(Less, Nat)
  BY NatLessThanWellFounded DEF OpToRel
<1>2. S \subseteq Nat
  OBVIOUS
<1>3. PICK a \in S : \A b \in S : <<b, a>> \notin Less
  <2> HIDE DEF Less
  <2> QED
    BY <1>1, <1>2, WFMin
<1>4. \A b \in S : a <= b
  <2> TAKE b \in S
  <2>1. a \in Nat /\ b \in Nat
    BY <1>2
  <2>2. ~ (b < a)
    BY <1>3, <2>1
  <2> QED
    BY <2>1, <2>2
<1>5. QED
  BY <1>4

\* Resolving references yields, for each task, an artifact or nothing.
LEMMA ResolveType ==
  ASSUME TypeOK, NEW d, NEW e \in [Tasks -> Artifacts \cup {None}]
  PROVE  Resolve(d, e) \in [Tasks -> Artifacts \cup {None}]
<1> DEFINE First(p) ==
             CHOOSE a \in Candidates(p) : \A b \in Candidates(p) : a <= b
<1>1. ASSUME NEW p \in Tasks, Candidates(p) # {}
      PROVE  First(p) \in Artifacts
  <2>1. Candidates(p) \in SUBSET Artifacts
    BY DEF Candidates
  <2>2. \E a \in Candidates(p) : \A b \in Candidates(p) : a <= b
    BY <1>1, <2>1, FirstById
  <2>3. First(p) \in Candidates(p)
    BY <2>2
  <2> QED
    BY <2>1, <2>3
<1>2. QED
  BY <1>1 DEF Resolve

\* Changing one field of a Run or of an artifact keeps its type.
LEMMA RunStatusChange ==
  ASSUME TypeOK, NEW t \in Tasks, NEW n \in Attempts, NEW x \in RunStatuses
  PROVE  [run EXCEPT ![t][n].status = x] \in [Tasks -> [Attempts -> Run]]
<1>1. \A r \in Run : [r EXCEPT !.status = x] \in Run
  BY DEF Run
<1> QED
  BY <1>1 DEF TypeOK

LEMMA RunLeaseChange ==
  ASSUME TypeOK, NEW t \in Tasks, NEW n \in Attempts,
         NEW x \in (-ClockSkew) .. LeaseTicks
  PROVE  [run EXCEPT ![t][n].lease = x] \in [Tasks -> [Attempts -> Run]]
<1>1. \A r \in Run : [r EXCEPT !.lease = x] \in Run
  BY DEF Run
<1> QED
  BY <1>1 DEF TypeOK

LEMMA VerificationChange ==
  ASSUME TypeOK, NEW a \in Artifacts, NEW x \in {"VERIFIED", "FAILED"}
  PROVE  [art EXCEPT ![a].verification = x] \in [Artifacts -> Artifact]
<1>1. \A r \in Artifact : [r EXCEPT !.verification = x] \in Artifact
  BY DEF Artifact
<1> QED
  BY <1>1 DEF TypeOK

LEMMA AcceptanceChange ==
  ASSUME TypeOK, NEW a \in Artifacts, NEW x \in {"ACCEPTED", "REJECTED"}
  PROVE  [art EXCEPT ![a].acceptance = x] \in [Artifacts -> Artifact]
<1>1. \A r \in Artifact : [r EXCEPT !.acceptance = x] \in Artifact
  BY DEF Artifact
<1> QED
  BY <1>1 DEF TypeOK

\* Archiving and restoring may announce a cancellation.
LEMMA EventsType ==
  ASSUME TypeOK, NEW t \in Tasks, EmitCanceled(t) \/ UNCHANGED cancelEvents
  PROVE  cancelEvents' \in [Tasks -> 0 .. MaxCancelEvents]
<1>1. cancelEvents \in [Tasks -> 0 .. MaxCancelEvents]
  BY DEF TypeOK
<1> QED
  BY <1>1 DEF EmitCanceled

-----------------------------------------------------------------------------
(***************************************************************************)
(* Types.                                                                  *)
(***************************************************************************)
LEMMA TypeStep == TypeOK /\ [Next]_vars => TypeOK'
<1> SUFFICES ASSUME TypeOK, [Next]_vars PROVE TypeOK'
  OBVIOUS
<1>1. ASSUME NEW t \in Tasks, NEW h \in Humans, NEW v \in Versions,
             CreateTask(t, h, v)
      PROVE  TypeOK'
  <2>1. status' \in [Tasks -> Statuses]
    BY <1>1 DEF CreateTask, SetStatus, Statuses, TypeOK
  <2>2. owner' \in [Tasks -> Humans \cup {None}]
    BY <1>1 DEF CreateTask, TypeOK
  <2>3. ctx' \in [Tasks -> Versions \cup {None}]
    BY <1>1 DEF CreateTask, TypeOK
  <2>4. authorized' \in SUBSET Tasks
    BY <1>1 DEF CreateTask, TypeOK
  <2> QED
    BY <1>1, <2>1, <2>2, <2>3, <2>4 DEF CreateTask, TypeOK, taskVars, depVars,
       runVars, peopleVars
<1>2. ASSUME NEW t \in Tasks, NEW a \in Agents \cup {General}, AssignTask(t, a)
      PROVE  TypeOK'
  <2>1. assignment' \in [Tasks -> Agents \cup {General, None}]
    BY <1>2 DEF AssignTask, TypeOK
  <2> QED
    BY <1>2, <2>1 DEF AssignTask, TypeOK, taskVars, depVars, runVars,
       peopleVars
<1>3. ASSUME NEW t \in Tasks, NEW p \in Tasks, NEW c \in Conditions \ {"NONE"},
             AddDependency(t, p, c)
      PROVE  TypeOK'
  <2>1. dep' \in [Tasks -> [Tasks -> Conditions]]
    BY <1>3 DEF AddDependency, Conditions, TypeOK
  <2>2. evidence' \in [Tasks -> [Tasks -> Artifacts \cup {None}]]
    <3>1. \A d : Resolve(d, evidence[t]) \in [Tasks -> Artifacts \cup {None}]
      BY ResolveType DEF TypeOK
    <3>2. \/ UNCHANGED evidence
          \/ \E d : evidence' = [evidence EXCEPT ![t] = Resolve(d, evidence[t])]
      BY <1>3 DEF AddDependency, TypeOK
    <3>3. evidence \in [Tasks -> [Tasks -> Artifacts \cup {None}]]
      BY DEF TypeOK
    <3> QED
      BY <3>1, <3>2, <3>3
  <2>3. status' \in [Tasks -> Statuses]
    <3>1. \/ UNCHANGED status
          \/ SetStatus(t, "READY")
          \/ SetStatus(t, "BLOCKED")
      BY <1>3 DEF AddDependency, SetStatus
    <3>2. status \in [Tasks -> Statuses]
      BY DEF TypeOK
    <3> QED
      BY <3>1, <3>2 DEF SetStatus, Statuses
  <2> QED
    BY <1>3, <2>1, <2>2, <2>3 DEF AddDependency, TypeOK, taskVars, depVars,
       runVars, peopleVars
<1>4. ASSUME NEW t \in Tasks, NEW p \in Tasks, RemoveDependency(t, p)
      PROVE  TypeOK'
  <2>1. dep' \in [Tasks -> [Tasks -> Conditions]]
    BY <1>4 DEF RemoveDependency, Conditions, TypeOK
  <2>2. evidence' \in [Tasks -> [Tasks -> Artifacts \cup {None}]]
    BY <1>4 DEF RemoveDependency, TypeOK
  <2> QED
    BY <1>4, <2>1, <2>2 DEF RemoveDependency, TypeOK, taskVars, depVars,
       runVars, peopleVars
<1>5. ASSUME NEW t \in Tasks, Submit(t)
      PROVE  TypeOK'
  <2>1. evidence' \in [Tasks -> [Tasks -> Artifacts \cup {None}]]
    BY <1>5, ResolveType DEF Submit, Authorize, ResolvedEvidence, TypeOK
  <2>2. status' \in [Tasks -> Statuses]
    BY <1>5 DEF Submit, Authorize, SetStatus, Statuses, TypeOK
  <2>3. authorized' \in SUBSET Tasks
    BY <1>5 DEF Submit, Authorize, TypeOK
  <2>4. granted' \in SUBSET Tasks
    BY <1>5 DEF Submit, Authorize, TypeOK
  <2> QED
    BY <1>5, <2>1, <2>2, <2>3, <2>4 DEF Submit, Authorize, TypeOK, taskVars,
       depVars, runVars, peopleVars
<1>6. ASSUME NEW t \in Tasks, Retry(t)
      PROVE  TypeOK'
  <2>1. evidence' \in [Tasks -> [Tasks -> Artifacts \cup {None}]]
    BY <1>6, ResolveType DEF Retry, Authorize, ResolvedEvidence, TypeOK
  <2>2. status' \in [Tasks -> Statuses]
    BY <1>6 DEF Retry, Authorize, SetStatus, Statuses, TypeOK
  <2>3. authorized' \in SUBSET Tasks
    BY <1>6 DEF Retry, Authorize, TypeOK
  <2>4. granted' \in SUBSET Tasks
    BY <1>6 DEF Retry, Authorize, TypeOK
  <2> QED
    BY <1>6, <2>1, <2>2, <2>3, <2>4 DEF Retry, Authorize, TypeOK, taskVars,
       depVars, runVars, peopleVars
<1>7. ASSUME NEW t \in Tasks, Cancel(t)
      PROVE  TypeOK'
  <2>1. status' \in [Tasks -> Statuses]
    BY <1>7 DEF Cancel, SetStatus, Statuses, TypeOK
  <2>2. run' \in [Tasks -> [Attempts -> Run]]
    <3>1. CASE HasRun(t) /\ Latest(t).status = "RUNNING"
      <4>1. EndRun(t, "CANCELED")
        BY <1>7, <3>1 DEF Cancel
      <4>2. attempts[t] \in Attempts /\ "CANCELED" \in RunStatuses
        BY <3>1 DEF HasRun, RunStatuses, TypeOK
      <4> QED
        BY <4>1, <4>2, RunStatusChange DEF EndRun
    <3>2. CASE ~(HasRun(t) /\ Latest(t).status = "RUNNING")
      BY <1>7, <3>2 DEF Cancel, TypeOK
    <3> QED
      BY <3>1, <3>2
  <2>3. cancelEvents' \in [Tasks -> 0 .. MaxCancelEvents]
    BY <1>7, EventsType DEF Cancel
  <2> QED
    BY <1>7, <2>1, <2>2, <2>3 DEF Cancel, TypeOK, taskVars, depVars, runVars,
       peopleVars
<1>8. ASSUME NEW t \in Tasks, Archive(t)
      PROVE  TypeOK'
  <2>1. archived' \in SUBSET Tasks
    BY <1>8 DEF Archive, TypeOK
  <2>2. cancelEvents' \in [Tasks -> 0 .. MaxCancelEvents]
    BY <1>8, EventsType DEF Archive
  <2> QED
    BY <1>8, <2>1, <2>2 DEF Archive, TypeOK, taskVars, depVars, runVars,
       peopleVars
<1>9. ASSUME NEW t \in Tasks, Restore(t)
      PROVE  TypeOK'
  <2>1. archived' \in SUBSET Tasks
    BY <1>9 DEF Restore, TypeOK
  <2>2. cancelEvents' \in [Tasks -> 0 .. MaxCancelEvents]
    BY <1>9, EventsType DEF Restore
  <2> QED
    BY <1>9, <2>1, <2>2 DEF Restore, TypeOK, taskVars, depVars, runVars,
       peopleVars
<1>10. ASSUME NEW t \in Tasks, NEW v \in Versions, EditTask(t, v)
       PROVE  TypeOK'
  <2>1. status' \in [Tasks -> Statuses]
    BY <1>10 DEF EditTask, SetStatus, Statuses, TypeOK
  <2>2. ctx' \in [Tasks -> Versions \cup {None}]
    BY <1>10 DEF EditTask, TypeOK
  <2>3. authorized' \in SUBSET Tasks
    BY <1>10 DEF EditTask, TypeOK
  <2>4. granted' \in SUBSET Tasks
    BY <1>10 DEF EditTask, TypeOK
  <2> QED
    BY <1>10, <2>1, <2>2, <2>3, <2>4 DEF EditTask, TypeOK, taskVars, depVars,
       runVars, peopleVars
<1>11. ASSUME NEW t \in Tasks, NEW h \in Humans, TransferTask(t, h)
       PROVE  TypeOK'
  <2>1. status' \in [Tasks -> Statuses]
    BY <1>11 DEF TransferTask, SetStatus, Statuses, TypeOK
  <2>2. owner' \in [Tasks -> Humans \cup {None}]
    BY <1>11 DEF TransferTask, TypeOK
  <2>3. authorized' \in SUBSET Tasks
    BY <1>11 DEF TransferTask, TypeOK
  <2>4. granted' \in SUBSET Tasks
    BY <1>11 DEF TransferTask, TypeOK
  <2> QED
    BY <1>11, <2>1, <2>2, <2>3, <2>4 DEF TransferTask, TypeOK, taskVars,
       depVars, runVars, peopleVars
<1>12. ASSUME NEW v \in Versions, PublishVersion(v)
       PROVE  TypeOK'
  <2>1. published' \in SUBSET Versions
    BY <1>12 DEF PublishVersion, TypeOK
  <2> QED
    BY <1>12, <2>1 DEF PublishVersion, TypeOK, taskVars, depVars, runVars,
       peopleVars
<1>13. ASSUME NEW a \in Artifacts, NEW b \in BOOLEAN, VerifyArtifact(a, b)
       PROVE  TypeOK'
  <2>1. art' \in [Artifacts -> Artifact]
    BY <1>13, VerificationChange DEF VerifyArtifact
  <2> QED
    BY <1>13, <2>1 DEF VerifyArtifact, TypeOK, taskVars, depVars, runVars,
       peopleVars
<1>14. ASSUME NEW a \in Artifacts, NEW b \in BOOLEAN, ReviewArtifact(a, b)
       PROVE  TypeOK'
  <2>1. art' \in [Artifacts -> Artifact]
    BY <1>14, AcceptanceChange DEF ReviewArtifact
  <2> QED
    BY <1>14, <2>1 DEF ReviewArtifact, TypeOK, taskVars, depVars, runVars,
       peopleVars
<1>15. ASSUME NEW t \in Tasks, NEW refs \in SUBSET Artifacts,
              AcceptTask(t, refs)
       PROVE  TypeOK'
  <2>1. art' \in [Artifacts -> Artifact]
    <3>1. \A r \in Artifact : [r EXCEPT !.acceptance = "ACCEPTED"] \in Artifact
      BY DEF Artifact
    <3> QED
      BY <1>15, <3>1 DEF AcceptTask, TypeOK
  <2>2. status' \in [Tasks -> Statuses]
    BY <1>15 DEF AcceptTask, SetStatus, Statuses, TypeOK
  <2>3. authorized' \in SUBSET Tasks
    BY <1>15 DEF AcceptTask, TypeOK
  <2>4. granted' \in SUBSET Tasks
    BY <1>15 DEF AcceptTask, TypeOK
  <2> QED
    BY <1>15, <2>1, <2>2, <2>3, <2>4 DEF AcceptTask, TypeOK, taskVars, depVars,
       runVars, peopleVars
<1>16. ASSUME NEW t \in Tasks, NEW refs \in SUBSET Artifacts,
              ReturnTask(t, refs)
       PROVE  TypeOK'
  <2>1. status' \in [Tasks -> Statuses]
    BY <1>16 DEF ReturnTask, SetStatus, Statuses, TypeOK
  <2>2. authorized' \in SUBSET Tasks
    BY <1>16 DEF ReturnTask, TypeOK
  <2>3. granted' \in SUBSET Tasks
    BY <1>16 DEF ReturnTask, TypeOK
  <2> QED
    BY <1>16, <2>1, <2>2, <2>3 DEF ReturnTask, TypeOK, taskVars, depVars,
       runVars, peopleVars
<1>17. ASSUME NEW s \in Sessions, NEW t \in Tasks, ClaimRun(s, t)
       PROVE  TypeOK'
  <2>1. attempts' \in [Tasks -> 0 .. MaxAttempts]
    BY <1>17 DEF ClaimRun, TypeOK
  <2>2. run' \in [Tasks -> [Attempts -> Run]]
    <3> DEFINE r == [status |-> "RUNNING", session |-> s, fence |-> nextFence,
                     lease |-> LeaseTicks, owner |-> owner[t], input |-> ctx[t],
                     evidence |-> {ResolvedEvidence(t)[p] : p \in Tasks}
                                    \ {None}]
    <3>1. ResolvedEvidence(t) \in [Tasks -> Artifacts \cup {None}]
      BY ResolveType DEF ResolvedEvidence, TypeOK
    <3>2. LeaseTicks \in 0 .. LeaseTicks
      OBVIOUS
    <3>3. r \in Run
      BY <3>1, <3>2 DEF Run, RunStatuses, TypeOK
    <3>4. attempts[t] + 1 \in Attempts
      BY <1>17 DEF ClaimRun, TypeOK
    <3> QED
      BY <1>17, <3>3, <3>4 DEF ClaimRun, TypeOK
  <2>3. nextFence' \in Nat \ {0}
    BY <1>17 DEF ClaimRun, TypeOK
  <2>4. evidence' \in [Tasks -> [Tasks -> Artifacts \cup {None}]]
    BY <1>17, ResolveType DEF ClaimRun, ResolvedEvidence, TypeOK
  <2>5. authorized' \in SUBSET Tasks
    BY <1>17 DEF ClaimRun, TypeOK
  <2>6. granted' \in SUBSET Tasks
    BY <1>17 DEF ClaimRun, TypeOK
  <2>7. status' \in [Tasks -> Statuses]
    BY <1>17 DEF ClaimRun, SetStatus, Statuses, TypeOK
  <2> QED
    BY <1>17, <2>1, <2>2, <2>3, <2>4, <2>5, <2>6, <2>7 DEF ClaimRun, TypeOK,
       taskVars, depVars, runVars, peopleVars
<1>18. ASSUME NEW s \in Sessions, NEW t \in Tasks, NEW n \in Attempts,
              HeartbeatRun(s, t, n)
       PROVE  TypeOK'
  <2>1. run' \in [Tasks -> [Attempts -> Run]]
    <3>1. LeaseTicks \in 0 .. LeaseTicks
      OBVIOUS
    <3> QED
      BY <1>18, <3>1, RunLeaseChange DEF HeartbeatRun
  <2> QED
    BY <1>18, <2>1 DEF HeartbeatRun, TypeOK, taskVars, depVars, runVars,
       peopleVars
<1>19. ASSUME NEW s \in Sessions, NEW t \in Tasks, NEW n \in Attempts,
              ReportFailure(s, t, n)
       PROVE  TypeOK'
  <2>1. run' \in [Tasks -> [Attempts -> Run]]
    BY <1>19, RunStatusChange DEF ReportFailure, RunStatuses
  <2>2. status' \in [Tasks -> Statuses]
    BY <1>19 DEF ReportFailure, SetStatus, Statuses, TypeOK
  <2> QED
    BY <1>19, <2>1, <2>2 DEF ReportFailure, TypeOK, taskVars, depVars, runVars,
       peopleVars
<1>20. ASSUME NEW s \in Sessions, NEW t \in Tasks, NEW n \in Attempts,
              RequestInvocation(s, t, n)
       PROVE  TypeOK'
  <2>1. unsettled' \in SUBSET (Tasks \X Attempts)
    BY <1>20 DEF RequestInvocation, TypeOK
  <2> QED
    BY <1>20, <2>1 DEF RequestInvocation, TypeOK, taskVars, depVars, runVars,
       peopleVars
<1>21. ASSUME NEW s \in Sessions, NEW t \in Tasks, NEW n \in Attempts,
              NEW refs \in SUBSET Artifacts, ReportCompletion(s, t, n, refs)
       PROVE  TypeOK'
  <2>1. run' \in [Tasks -> [Attempts -> Run]]
    BY <1>21, RunStatusChange DEF ReportCompletion, RunStatuses
  <2>2. status' \in [Tasks -> Statuses]
    BY <1>21 DEF ReportCompletion, SetStatus, Statuses, TypeOK
  <2> QED
    BY <1>21, <2>1, <2>2 DEF ReportCompletion, TypeOK, taskVars, depVars,
       runVars, peopleVars
<1>22. ASSUME NEW s \in Sessions, NEW t \in Tasks, NEW n \in Attempts,
              NEW a \in Artifacts, NEW git \in GitKinds,
              RegisterArtifact(s, t, n, a, git)
       PROVE  TypeOK'
  <2>1. art' \in [Artifacts -> Artifact]
    BY <1>22 DEF RegisterArtifact, Artifact, TypeOK
  <2> QED
    BY <1>22, <2>1 DEF RegisterArtifact, TypeOK, taskVars, depVars, runVars,
       peopleVars
<1>23. ASSUME NEW s \in Sessions, CreateSession(s)
       PROVE  TypeOK'
  <2>1. sess' \in [Sessions -> {"NONE", "ACTIVE", "NEGOTIATED", "ENDED"}]
    BY <1>23 DEF CreateSession, TypeOK
  <2> QED
    BY <1>23, <2>1 DEF CreateSession, TypeOK, taskVars, depVars, runVars,
       peopleVars
<1>24. ASSUME NEW s \in Sessions, Handshake(s)
       PROVE  TypeOK'
  <2>1. sess' \in [Sessions -> {"NONE", "ACTIVE", "NEGOTIATED", "ENDED"}]
    BY <1>24 DEF Handshake, TypeOK
  <2> QED
    BY <1>24, <2>1 DEF Handshake, TypeOK, taskVars, depVars, runVars,
       peopleVars
<1>25. ASSUME NEW s \in Sessions, EndSession(s)
       PROVE  TypeOK'
  <2>1. sess' \in [Sessions -> {"NONE", "ACTIVE", "NEGOTIATED", "ENDED"}]
    BY <1>25 DEF EndSession, TypeOK
  <2> QED
    BY <1>25, <2>1 DEF EndSession, TypeOK, taskVars, depVars, runVars,
       peopleVars
<1>25a. ASSUME NEW s \in Sessions, LapseSession(s)
       PROVE  TypeOK'
  <2>1. lapsed' \in SUBSET Sessions
    BY <1>25a DEF LapseSession, TypeOK
  <2> QED
    BY <1>25a, <2>1 DEF LapseSession, TypeOK, taskVars, depVars, runVars,
       peopleVars
<1>26. ASSUME NEW h \in Humans, NEW r \in RoleChoices, NEW on \in BOOLEAN,
              ChangeMember(h, r, on)
       PROVE  TypeOK'
  <2>1. roles' \in [Humans -> SUBSET RoleNames]
    BY <1>26 DEF ChangeMember, RevokedWith, TypeOK
  <2>2. member' \in SUBSET Humans
    BY <1>26 DEF ChangeMember, RevokedWith, TypeOK
  <2>3. sess' \in [Sessions -> {"NONE", "ACTIVE", "NEGOTIATED", "ENDED"}]
    BY <1>26 DEF ChangeMember, RevokedWith, TypeOK
  <2> QED
    BY <1>26, <2>1, <2>2, <2>3 DEF ChangeMember, TypeOK, taskVars, depVars,
       runVars, peopleVars
<1>27. ASSUME NEW h \in Humans, NEW on \in BOOLEAN, ChangeAccount(h, on)
       PROVE  TypeOK'
  <2>1. account' \in SUBSET Humans
    BY <1>27 DEF ChangeAccount, RevokedWith, TypeOK
  <2>2. sess' \in [Sessions -> {"NONE", "ACTIVE", "NEGOTIATED", "ENDED"}]
    BY <1>27 DEF ChangeAccount, RevokedWith, TypeOK
  <2> QED
    BY <1>27, <2>1, <2>2 DEF ChangeAccount, TypeOK, taskVars, depVars, runVars,
       peopleVars
<1>28. ASSUME NEW t \in Tasks, NEW n \in Attempts, AgeLease(t, n)
       PROVE  TypeOK'
  <2>1. run' \in [Tasks -> [Attempts -> Run]]
    <3>1. run[t][n] \in Run
      BY DEF TypeOK
    <3>2. run[t][n].lease - 1 \in (-ClockSkew) .. LeaseTicks
      BY <1>28, <3>1, ConstantsAssumption DEF AgeLease, Run
    <3> QED
      BY <1>28, <3>2, RunLeaseChange DEF AgeLease
  <2> QED
    BY <1>28, <2>1 DEF AgeLease, TypeOK, taskVars, depVars, runVars, peopleVars
<1>29. ASSUME NEW t \in Tasks, NEW n \in Attempts, SettleInvocations(t, n)
       PROVE  TypeOK'
  <2>1. unsettled' \in SUBSET (Tasks \X Attempts)
    BY <1>29 DEF SettleInvocations, TypeOK
  <2> QED
    BY <1>29, <2>1 DEF SettleInvocations, TypeOK, taskVars, depVars, runVars,
       peopleVars
<1>30. ASSUME Reconcile
       PROVE  TypeOK'
  <2>1. run' \in [Tasks -> [Attempts -> Run]]
    <3>1. \A r \in Run : [r EXCEPT !.status = "LOST"] \in Run
      BY DEF Run, RunStatuses
    <3> QED
      BY <1>30, <3>1 DEF Reconcile, TypeOK
  <2>2. evidence' \in [Tasks -> [Tasks -> Artifacts \cup {None}]]
    <3>1. \A t \in Tasks :
            ResolvedEvidence(t) \in [Tasks -> Artifacts \cup {None}]
      BY ResolveType DEF ResolvedEvidence, TypeOK
    <3> QED
      BY <1>30, <3>1 DEF Reconcile, TypeOK
  <2>3. status' \in [Tasks -> Statuses]
    BY <1>30 DEF Reconcile, SetStatus, Statuses, TypeOK
  <2> QED
    BY <1>30, <2>1, <2>2, <2>3 DEF Reconcile, TypeOK, taskVars, depVars,
       runVars, peopleVars
<1>31. CASE UNCHANGED vars
  BY <1>31 DEF TypeOK, vars, taskVars, depVars, runVars, peopleVars
<1> QED
  BY <1>1, <1>2, <1>3, <1>4, <1>5, <1>6, <1>7, <1>8, <1>9, <1>10, <1>11, <1>12,
     <1>13, <1>14, <1>15, <1>16, <1>17, <1>18, <1>19, <1>20, <1>21, <1>22,
     <1>23, <1>24, <1>25, <1>25a, <1>26, <1>27, <1>28, <1>29, <1>30, <1>31
     DEF Next, HumanStep, AgentStep, StandingStep, EnvironmentStep

-----------------------------------------------------------------------------
(***************************************************************************)
(* The status of tasks and Runs.                                           *)
(***************************************************************************)
\* Status and attempts are unaffected by everything else.
LEMMA AgreementFrame ==
  ASSUME RunTaskAgreement, UNCHANGED <<status, runVars>>
  PROVE  RunTaskAgreement'
BY DEF RunTaskAgreement, HasRun, Latest, runVars

\* The status of a task that is not RUNNING changes to one that is not either.
LEMMA AgreementOffRun ==
  ASSUME TypeOK, RunTaskAgreement, UNCHANGED runVars,
         NEW t \in Tasks, NEW x \in Statuses \ {"RUNNING"},
         status[t] # "RUNNING", status' = [status EXCEPT ![t] = x]
  PROVE  RunTaskAgreement'
BY DEF RunTaskAgreement, HasRun, Latest, runVars, TypeOK

\* A RUNNING Run ends, and its task leaves RUNNING with it.
LEMMA AgreementEnd ==
  ASSUME TypeOK, RunTaskAgreement, UNCHANGED <<attempts, nextFence>>,
         NEW t \in Tasks, NEW n \in Attempts, n <= attempts[t],
         run[t][n].status = "RUNNING",
         NEW x \in RunStatuses \ {"NONE", "RUNNING"},
         NEW y \in Statuses \ {"RUNNING"},
         run' = [run EXCEPT ![t][n].status = x],
         status' = [status EXCEPT ![t] = y]
  PROVE  RunTaskAgreement'
<1>1. n = attempts[t]
  BY DEF RunTaskAgreement, TypeOK
<1>2. ASSUME NEW u \in Tasks
      PROVE  status'[u] = "RUNNING"
               <=> (HasRun(u)' /\ Latest(u)'.status = "RUNNING")
  BY <1>1 DEF RunTaskAgreement, HasRun, Latest, TypeOK, Run
<1>3. ASSUME NEW u \in Tasks, NEW m \in Attempts
      PROVE  /\ m > attempts'[u] <=> run'[u][m].status = "NONE"
             /\ m < attempts'[u] => /\ run'[u][m].status # "RUNNING"
                                    /\ run'[u][m].fence < Latest(u)'.fence
             /\ run'[u][m].fence < nextFence'
  <2>1. /\ run'[u][m].fence = run[u][m].fence
        /\ run'[u][m].status = IF u = t /\ m = n THEN x ELSE run[u][m].status
    <3>1. run'[u][m] = IF u = t /\ m = n THEN [run[t][n] EXCEPT !.status = x]
                                       ELSE run[u][m]
      BY DEF TypeOK
    <3>2. run[t][n] \in Run
      BY DEF TypeOK
    <3> QED
      BY <3>1, <3>2 DEF Run
  <2>2. m < attempts[u] => Latest(u)'.fence = Latest(u).fence
    BY <2>1 DEF Latest, TypeOK, Run
  <2>3. /\ m > attempts[u] <=> run[u][m].status = "NONE"
        /\ m < attempts[u] => /\ run[u][m].status # "RUNNING"
                              /\ run[u][m].fence < Latest(u).fence
        /\ run[u][m].fence < nextFence
    BY DEF RunTaskAgreement
  <2> QED
    BY <1>1, <2>1, <2>2, <2>3 DEF TypeOK
<1> QED
  BY <1>2, <1>3 DEF RunTaskAgreement

\* The claim of a READY task adds the attempt that holds the next fence.
LEMMA AgreementClaim ==
  ASSUME TypeOK, RunTaskAgreement, NEW s \in Sessions, NEW t \in Tasks,
         ClaimRun(s, t)
  PROVE  RunTaskAgreement'
<1> DEFINE k == attempts[t] + 1
<1>1. /\ k \in Attempts /\ attempts' = [attempts EXCEPT ![t] = k]
      /\ nextFence' = nextFence + 1 /\ nextFence \in Nat
  BY DEF ClaimRun, TypeOK
<1>2. \A u \in Tasks, m \in Attempts :
        IF u = t /\ m = k
        THEN run'[u][m].status = "RUNNING" /\ run'[u][m].fence = nextFence
        ELSE run'[u][m] = run[u][m]
  BY <1>1 DEF ClaimRun, TypeOK
<1>3. \A u \in Tasks, m \in Attempts : run[u][m].fence \in Nat
  BY DEF TypeOK, Run
<1>4. ASSUME NEW u \in Tasks
      PROVE  status'[u] = "RUNNING"
               <=> (HasRun(u)' /\ Latest(u)'.status = "RUNNING")
  <2>1. CASE u = t
    BY <1>1, <1>2, <2>1 DEF ClaimRun, SetStatus, HasRun, Latest, TypeOK
  <2>2. CASE u # t
    BY <1>1, <1>2, <2>2
       DEF RunTaskAgreement, ClaimRun, SetStatus, HasRun, Latest, TypeOK
  <2> QED
    BY <2>1, <2>2
<1>5. ASSUME NEW u \in Tasks, NEW m \in Attempts
      PROVE  /\ m > attempts'[u] <=> run'[u][m].status = "NONE"
             /\ m < attempts'[u] => /\ run'[u][m].status # "RUNNING"
                                    /\ run'[u][m].fence < Latest(u)'.fence
             /\ run'[u][m].fence < nextFence'
  <2>1. /\ m > attempts[u] <=> run[u][m].status = "NONE"
        /\ m < attempts[u] => /\ run[u][m].status # "RUNNING"
                              /\ run[u][m].fence < Latest(u).fence
        /\ run[u][m].fence < nextFence
    BY DEF RunTaskAgreement
  <2>2. CASE u = t
    <3>1. Latest(t)'.fence = nextFence
      BY <1>1, <1>2 DEF Latest, TypeOK
    <3>2. m = attempts[t] => run[t][m].status # "RUNNING"
      <4>1. ~(HasRun(t) /\ Latest(t).status = "RUNNING")
        BY DEF RunTaskAgreement, ClaimRun
      <4> QED
        BY <4>1 DEF HasRun, Latest
    <3> QED
      BY <1>1, <1>2, <1>3, <2>1, <2>2, <3>1, <3>2 DEF TypeOK
  <2>3. CASE u # t
    <3>1. m < attempts[u] => Latest(u)' = Latest(u)
      BY <1>1, <1>2, <2>3 DEF Latest, TypeOK
    <3> QED
      BY <1>1, <1>2, <1>3, <2>1, <2>3, <3>1 DEF TypeOK
  <2> QED
    BY <2>2, <2>3
<1> QED
  BY <1>4, <1>5 DEF RunTaskAgreement

\* The worker closes Runs and moves their tasks to READY or BLOCKED; it
\* releases no task that is RUNNING.
LEMMA AgreementReconcile ==
  ASSUME TypeOK, RunTaskAgreement, Reconcile
  PROVE  RunTaskAgreement'
<1>1. UNCHANGED <<attempts, nextFence>>
  BY DEF Reconcile
<1>2. \A u \in Tasks, m \in Attempts :
        /\ run'[u][m].fence = run[u][m].fence
        /\ run'[u][m].status =
             IF AuthorityLost(u, m) THEN "LOST" ELSE run[u][m].status
  <2> TAKE u \in Tasks, m \in Attempts
  <2>1. run'[u][m] = IF AuthorityLost(u, m)
                     THEN [run[u][m] EXCEPT !.status = "LOST"]
                     ELSE run[u][m]
    BY DEF Reconcile
  <2>2. run[u][m] \in Run
    BY DEF TypeOK
  <2>3. /\ [run[u][m] EXCEPT !.status = "LOST"].status = "LOST"
        /\ [run[u][m] EXCEPT !.status = "LOST"].fence = run[u][m].fence
    BY <2>2 DEF Run
  <2> QED
    BY <2>1, <2>3
<1>3. \A u \in Tasks, m \in Attempts :
        AuthorityLost(u, m) => run[u][m].status = "RUNNING" /\ m = attempts[u]
  BY DEF AuthorityLost, RunTaskAgreement, TypeOK
<1>4. \A u \in Tasks :
        u \in Lost <=> HasRun(u) /\ AuthorityLost(u, attempts[u])
  BY <1>3 DEF Lost, HasRun, TypeOK
<1>5. ASSUME NEW u \in Tasks
      PROVE  status'[u] = "RUNNING"
               <=> (HasRun(u)' /\ Latest(u)'.status = "RUNNING")
  <2>1. status'[u] = "RUNNING" <=> status[u] = "RUNNING" /\ u \notin Lost
    BY DEF Reconcile, Waiting
  <2>2. HasRun(u) =>
          Latest(u)'.status =
            IF AuthorityLost(u, attempts[u]) THEN "LOST" ELSE Latest(u).status
    BY <1>1, <1>2 DEF HasRun, Latest, TypeOK
  <2> QED
    BY <1>1, <1>4, <2>1, <2>2 DEF RunTaskAgreement, HasRun
<1>6. ASSUME NEW u \in Tasks, NEW m \in Attempts
      PROVE  /\ m > attempts'[u] <=> run'[u][m].status = "NONE"
             /\ m < attempts'[u] => /\ run'[u][m].status # "RUNNING"
                                    /\ run'[u][m].fence < Latest(u)'.fence
             /\ run'[u][m].fence < nextFence'
  <2>1. m < attempts[u] => Latest(u)'.fence = Latest(u).fence
    BY <1>1, <1>2 DEF Latest, TypeOK
  <2>2. /\ m > attempts[u] <=> run[u][m].status = "NONE"
        /\ m < attempts[u] => /\ run[u][m].status # "RUNNING"
                              /\ run[u][m].fence < Latest(u).fence
        /\ run[u][m].fence < nextFence
    BY DEF RunTaskAgreement
  <2> QED
    BY <1>1, <1>2, <1>3, <2>1, <2>2
<1> QED
  BY <1>5, <1>6 DEF RunTaskAgreement

\* A Run that may be written to, and a Run the worker closes, is the latest of
\* a task that is RUNNING.
LEMMA LiveRunIsLatest ==
  ASSUME TypeOK, RunTaskAgreement,
         NEW s \in Sessions, NEW t \in Tasks, NEW n \in Attempts,
         LiveRun(s, t, n)
  PROVE  n = attempts[t] /\ status[t] = "RUNNING"
<1>1. n = attempts[t]
  BY DEF LiveRun, RunTaskAgreement, TypeOK
<1> QED
  BY <1>1 DEF LiveRun, RunTaskAgreement, HasRun, Latest

LEMMA LostIsRunning ==
  ASSUME TypeOK, RunTaskAgreement,
         NEW t \in Tasks, NEW n \in Attempts, AuthorityLost(t, n)
  PROVE  n = attempts[t] /\ status[t] = "RUNNING"
<1>1. n = attempts[t]
  BY DEF AuthorityLost, RunTaskAgreement, TypeOK
<1> QED
  BY <1>1 DEF AuthorityLost, RunTaskAgreement, HasRun, Latest

\* A heartbeat and the passing of time change only a lease.
LEMMA AgreementLease ==
  ASSUME TypeOK, RunTaskAgreement, UNCHANGED <<status, attempts, nextFence>>,
         NEW t \in Tasks, NEW n \in Attempts, NEW x,
         run' = [run EXCEPT ![t][n].lease = x]
  PROVE  RunTaskAgreement'
<1>1. ASSUME NEW u \in Tasks, NEW m \in Attempts
      PROVE  /\ run'[u][m].fence = run[u][m].fence
             /\ run'[u][m].status = run[u][m].status
  <2>1. run'[u][m] = IF u = t /\ m = n THEN [run[t][n] EXCEPT !.lease = x]
                                       ELSE run[u][m]
    BY DEF TypeOK
  <2>2. run[t][n] \in Run
    BY DEF TypeOK
  <2>3. /\ [run[t][n] EXCEPT !.lease = x].status = run[t][n].status
        /\ [run[t][n] EXCEPT !.lease = x].fence = run[t][n].fence
    BY <2>2 DEF Run
  <2> QED
    BY <2>1, <2>3
<1>2. \A u \in Tasks : HasRun(u) => attempts[u] \in Attempts
  BY DEF HasRun, TypeOK
<1>3. \A u \in Tasks, m \in Attempts : m < attempts[u] => HasRun(u)
  BY DEF HasRun, TypeOK
<1> QED
  BY <1>1, <1>2, <1>3 DEF RunTaskAgreement, HasRun, Latest

LEMMA AgreementStep ==
  TypeOK /\ RunTaskAgreement /\ [Next]_vars => RunTaskAgreement'
<1> SUFFICES ASSUME TypeOK, RunTaskAgreement, [Next]_vars
             PROVE  RunTaskAgreement'
  OBVIOUS
<1>1. ASSUME NEW t \in Tasks, NEW h \in Humans, NEW v \in Versions,
             CreateTask(t, h, v)
      PROVE  RunTaskAgreement'
  BY <1>1, AgreementOffRun DEF CreateTask, SetStatus, Statuses
<1>2. ASSUME NEW t \in Tasks, NEW a \in Agents \cup {General}, AssignTask(t, a)
      PROVE  RunTaskAgreement'
  BY <1>2, AgreementFrame DEF AssignTask, taskVars, runVars
<1>3. ASSUME NEW t \in Tasks, NEW p \in Tasks, NEW c \in Conditions \ {"NONE"},
             AddDependency(t, p, c)
      PROVE  RunTaskAgreement'
  <2>1. CASE UNCHANGED status
    BY <1>3, <2>1, AgreementFrame DEF AddDependency
  <2>2. CASE ~UNCHANGED status
    <3>1. /\ status[t] = "READY"
          /\ \E x \in {"READY", "BLOCKED"} : SetStatus(t, x)
      BY <1>3, <2>2 DEF AddDependency
    <3> QED
      BY <1>3, <3>1, AgreementOffRun DEF AddDependency, SetStatus, Statuses
  <2> QED
    BY <2>1, <2>2
<1>4. ASSUME NEW t \in Tasks, NEW p \in Tasks, RemoveDependency(t, p)
      PROVE  RunTaskAgreement'
  BY <1>4, AgreementFrame DEF RemoveDependency, taskVars, runVars
<1>5. ASSUME NEW t \in Tasks, Submit(t)
      PROVE  RunTaskAgreement'
  <2>1. \E x \in {"READY", "BLOCKED"} : SetStatus(t, x)
    BY <1>5 DEF Submit, Authorize
  <2> QED
    BY <1>5, <2>1, AgreementOffRun
       DEF Submit, Authorize, SetStatus, Statuses
<1>6. ASSUME NEW t \in Tasks, Retry(t)
      PROVE  RunTaskAgreement'
  <2>1. \E x \in {"READY", "BLOCKED"} : SetStatus(t, x)
    BY <1>6 DEF Retry, Authorize
  <2> QED
    BY <1>6, <2>1, AgreementOffRun
       DEF Retry, Authorize, SetStatus, Statuses
<1>7. ASSUME NEW t \in Tasks, Cancel(t)
      PROVE  RunTaskAgreement'
  <2>1. CASE HasRun(t) /\ Latest(t).status = "RUNNING"
    <3>1. EndRun(t, "CANCELED")
      BY <1>7, <2>1 DEF Cancel
    <3>2. attempts[t] \in Attempts /\ attempts[t] <= attempts[t]
      BY <2>1 DEF HasRun, TypeOK
    <3>3. UNCHANGED <<attempts, nextFence>> /\ SetStatus(t, "CANCELED")
      BY <1>7 DEF Cancel
    <3> QED
      BY <2>1, <3>1, <3>2, <3>3, AgreementEnd
         DEF EndRun, Latest, SetStatus, Statuses, RunStatuses
  <2>2. CASE ~(HasRun(t) /\ Latest(t).status = "RUNNING")
    <3>1. status[t] # "RUNNING"
      BY <2>2 DEF RunTaskAgreement
    <3>2. UNCHANGED runVars /\ SetStatus(t, "CANCELED")
      BY <1>7, <2>2 DEF Cancel, runVars
    <3> QED
      BY <3>1, <3>2, AgreementOffRun DEF SetStatus, Statuses
  <2> QED
    BY <2>1, <2>2
<1>8. ASSUME NEW t \in Tasks, Archive(t)
      PROVE  RunTaskAgreement'
  BY <1>8, AgreementFrame DEF Archive, taskVars, runVars
<1>9. ASSUME NEW t \in Tasks, Restore(t)
      PROVE  RunTaskAgreement'
  BY <1>9, AgreementFrame DEF Restore, taskVars, runVars
<1>10. ASSUME NEW t \in Tasks, NEW v \in Versions, EditTask(t, v)
       PROVE  RunTaskAgreement'
  BY <1>10, AgreementOffRun DEF EditTask, Editable, SetStatus, Statuses
<1>11. ASSUME NEW t \in Tasks, NEW h \in Humans, TransferTask(t, h)
       PROVE  RunTaskAgreement'
  BY <1>11, AgreementOffRun DEF TransferTask, Editable, SetStatus, Statuses
<1>12. ASSUME NEW v \in Versions, PublishVersion(v)
       PROVE  RunTaskAgreement'
  BY <1>12, AgreementFrame DEF PublishVersion, taskVars, runVars
<1>13. ASSUME NEW a \in Artifacts, NEW b \in BOOLEAN, VerifyArtifact(a, b)
       PROVE  RunTaskAgreement'
  BY <1>13, AgreementFrame DEF VerifyArtifact, taskVars, runVars
<1>14. ASSUME NEW a \in Artifacts, NEW b \in BOOLEAN, ReviewArtifact(a, b)
       PROVE  RunTaskAgreement'
  BY <1>14, AgreementFrame DEF ReviewArtifact, taskVars, runVars
<1>15. ASSUME NEW t \in Tasks, NEW refs \in SUBSET Artifacts,
              AcceptTask(t, refs)
       PROVE  RunTaskAgreement'
  BY <1>15, AgreementOffRun DEF AcceptTask, Reviewed, SetStatus, Statuses
<1>16. ASSUME NEW t \in Tasks, NEW refs \in SUBSET Artifacts,
              ReturnTask(t, refs)
       PROVE  RunTaskAgreement'
  BY <1>16, AgreementOffRun DEF ReturnTask, Reviewed, SetStatus, Statuses
<1>17. ASSUME NEW s \in Sessions, NEW t \in Tasks, ClaimRun(s, t)
       PROVE  RunTaskAgreement'
  BY <1>17, AgreementClaim
<1>18. ASSUME NEW s \in Sessions, NEW t \in Tasks, NEW n \in Attempts,
              HeartbeatRun(s, t, n)
       PROVE  RunTaskAgreement'
  BY <1>18, AgreementLease DEF HeartbeatRun, taskVars
<1>19. ASSUME NEW s \in Sessions, NEW t \in Tasks, NEW n \in Attempts,
              ReportFailure(s, t, n)
       PROVE  RunTaskAgreement'
  BY <1>19, AgreementEnd
     DEF ReportFailure, LiveRun, SetStatus, Statuses, RunStatuses
<1>20. ASSUME NEW s \in Sessions, NEW t \in Tasks, NEW n \in Attempts,
              RequestInvocation(s, t, n)
       PROVE  RunTaskAgreement'
  BY <1>20, AgreementFrame DEF RequestInvocation, taskVars, runVars
<1>21. ASSUME NEW s \in Sessions, NEW t \in Tasks, NEW n \in Attempts,
              NEW refs \in SUBSET Artifacts, ReportCompletion(s, t, n, refs)
       PROVE  RunTaskAgreement'
  BY <1>21, AgreementEnd
     DEF ReportCompletion, LiveRun, SetStatus, Statuses, RunStatuses
<1>22. ASSUME NEW s \in Sessions, NEW t \in Tasks, NEW n \in Attempts,
              NEW a \in Artifacts, NEW git \in GitKinds,
              RegisterArtifact(s, t, n, a, git)
       PROVE  RunTaskAgreement'
  BY <1>22, AgreementFrame DEF RegisterArtifact, taskVars, runVars
<1>23. ASSUME NEW s \in Sessions, CreateSession(s)
       PROVE  RunTaskAgreement'
  BY <1>23, AgreementFrame DEF CreateSession, taskVars, runVars
<1>24. ASSUME NEW s \in Sessions, Handshake(s)
       PROVE  RunTaskAgreement'
  BY <1>24, AgreementFrame DEF Handshake, taskVars, runVars
<1>25. ASSUME NEW s \in Sessions, EndSession(s)
       PROVE  RunTaskAgreement'
  BY <1>25, AgreementFrame DEF EndSession, taskVars, runVars
<1>25a. ASSUME NEW s \in Sessions, LapseSession(s)
       PROVE  RunTaskAgreement'
  BY <1>25a, AgreementFrame DEF LapseSession, taskVars, runVars
<1>26. ASSUME NEW h \in Humans, NEW r \in RoleChoices, NEW on \in BOOLEAN,
              ChangeMember(h, r, on)
       PROVE  RunTaskAgreement'
  BY <1>26, AgreementFrame DEF ChangeMember, taskVars, runVars
<1>27. ASSUME NEW h \in Humans, NEW on \in BOOLEAN, ChangeAccount(h, on)
       PROVE  RunTaskAgreement'
  BY <1>27, AgreementFrame DEF ChangeAccount, taskVars, runVars
<1>28. ASSUME NEW t \in Tasks, NEW n \in Attempts, AgeLease(t, n)
       PROVE  RunTaskAgreement'
  <2>1. run' = [run EXCEPT ![t][n].lease = run[t][n].lease - 1]
    BY <1>28 DEF AgeLease, TypeOK
  <2>2. UNCHANGED <<status, attempts, nextFence>>
    BY <1>28 DEF AgeLease, taskVars
  <2> QED
    BY <2>1, <2>2, AgreementLease
<1>29. ASSUME NEW t \in Tasks, NEW n \in Attempts, SettleInvocations(t, n)
       PROVE  RunTaskAgreement'
  BY <1>29, AgreementFrame DEF SettleInvocations, taskVars, runVars
<1>30. ASSUME Reconcile
       PROVE  RunTaskAgreement'
  BY <1>30, AgreementReconcile
<1>31. CASE UNCHANGED vars
  BY <1>31 DEF RunTaskAgreement, HasRun, Latest, vars, taskVars, runVars
<1> QED
  BY <1>1, <1>2, <1>3, <1>4, <1>5, <1>6, <1>7, <1>8, <1>9, <1>10, <1>11, <1>12,
     <1>13, <1>14, <1>15, <1>16, <1>17, <1>18, <1>19, <1>20, <1>21, <1>22,
     <1>23, <1>24, <1>25, <1>25a, <1>26, <1>27, <1>28, <1>29, <1>30, <1>31
     DEF Next, HumanStep, AgentStep, StandingStep, EnvironmentStep

-----------------------------------------------------------------------------
(***************************************************************************)
(* Authorisation of attempts.                                              *)
(***************************************************************************)
\* A task that is RUNNING has used up its authorisation, so its Run's loss, or
\* its failure, leaves nothing the worker could release.
NoGrantWhileRunning ==
  \A t \in Tasks : status[t] = "RUNNING" => t \notin authorized

LEMMA GrantStep ==
  TypeOK /\ RunTaskAgreement /\ HumanGrant /\ NoGrantWhileRunning
     /\ [Next]_vars => HumanGrant' /\ NoGrantWhileRunning'
<1> SUFFICES ASSUME TypeOK, RunTaskAgreement, HumanGrant, NoGrantWhileRunning,
                    [Next]_vars
             PROVE  HumanGrant' /\ NoGrantWhileRunning'
  OBVIOUS
<1>a. status \in [Tasks -> Statuses]
  BY DEF TypeOK
<1>1. ASSUME NEW t \in Tasks, NEW h \in Humans, NEW v \in Versions,
             CreateTask(t, h, v)
      PROVE  HumanGrant' /\ NoGrantWhileRunning'
  BY <1>1, <1>a DEF CreateTask, HumanGrant, NoGrantWhileRunning, SetStatus,
     taskVars
<1>2. ASSUME NEW t \in Tasks, NEW a \in Agents \cup {General}, AssignTask(t, a)
      PROVE  HumanGrant' /\ NoGrantWhileRunning'
  BY <1>2, <1>a DEF AssignTask, HumanGrant, NoGrantWhileRunning, SetStatus,
     taskVars
<1>3. ASSUME NEW t \in Tasks, NEW p \in Tasks, NEW c \in Conditions \ {"NONE"},
             AddDependency(t, p, c)
      PROVE  HumanGrant' /\ NoGrantWhileRunning'
  BY <1>3, <1>a DEF AddDependency, HumanGrant, NoGrantWhileRunning, SetStatus,
     taskVars
<1>4. ASSUME NEW t \in Tasks, NEW p \in Tasks, RemoveDependency(t, p)
      PROVE  HumanGrant' /\ NoGrantWhileRunning'
  BY <1>4, <1>a DEF RemoveDependency, HumanGrant, NoGrantWhileRunning,
     SetStatus, taskVars
<1>5. ASSUME NEW t \in Tasks, Submit(t)
      PROVE  HumanGrant' /\ NoGrantWhileRunning'
  BY <1>5, <1>a DEF Submit, Authorize, HumanGrant, NoGrantWhileRunning,
     SetStatus, taskVars
<1>6. ASSUME NEW t \in Tasks, Retry(t)
      PROVE  HumanGrant' /\ NoGrantWhileRunning'
  BY <1>6, <1>a DEF Retry, Authorize, HumanGrant, NoGrantWhileRunning,
     SetStatus, taskVars
<1>7. ASSUME NEW t \in Tasks, Cancel(t)
      PROVE  HumanGrant' /\ NoGrantWhileRunning'
  BY <1>7, <1>a DEF Cancel, EndRun, EmitCanceled, HasRun, Latest, HumanGrant,
     NoGrantWhileRunning, SetStatus, taskVars
<1>8. ASSUME NEW t \in Tasks, Archive(t)
      PROVE  HumanGrant' /\ NoGrantWhileRunning'
  BY <1>8, <1>a DEF Archive, EmitCanceled, HumanGrant, NoGrantWhileRunning,
     SetStatus, taskVars
<1>9. ASSUME NEW t \in Tasks, Restore(t)
      PROVE  HumanGrant' /\ NoGrantWhileRunning'
  BY <1>9, <1>a DEF Restore, EmitCanceled, HumanGrant, NoGrantWhileRunning,
     SetStatus, taskVars
<1>10. ASSUME NEW t \in Tasks, NEW v \in Versions, EditTask(t, v)
       PROVE  HumanGrant' /\ NoGrantWhileRunning'
  BY <1>10, <1>a DEF EditTask, HumanGrant, NoGrantWhileRunning, SetStatus,
     taskVars
<1>11. ASSUME NEW t \in Tasks, NEW h \in Humans, TransferTask(t, h)
       PROVE  HumanGrant' /\ NoGrantWhileRunning'
  BY <1>11, <1>a DEF TransferTask, HumanGrant, NoGrantWhileRunning, SetStatus,
     taskVars
<1>12. ASSUME NEW v \in Versions, PublishVersion(v)
       PROVE  HumanGrant' /\ NoGrantWhileRunning'
  BY <1>12, <1>a DEF PublishVersion, HumanGrant, NoGrantWhileRunning,
     SetStatus, taskVars
<1>13. ASSUME NEW a \in Artifacts, NEW b \in BOOLEAN, VerifyArtifact(a, b)
       PROVE  HumanGrant' /\ NoGrantWhileRunning'
  BY <1>13, <1>a DEF VerifyArtifact, HumanGrant, NoGrantWhileRunning,
     SetStatus, taskVars
<1>14. ASSUME NEW a \in Artifacts, NEW b \in BOOLEAN, ReviewArtifact(a, b)
       PROVE  HumanGrant' /\ NoGrantWhileRunning'
  BY <1>14, <1>a DEF ReviewArtifact, HumanGrant, NoGrantWhileRunning,
     SetStatus, taskVars
<1>15. ASSUME NEW t \in Tasks, NEW refs \in SUBSET Artifacts,
              AcceptTask(t, refs)
       PROVE  HumanGrant' /\ NoGrantWhileRunning'
  BY <1>15, <1>a DEF AcceptTask, HumanGrant, NoGrantWhileRunning, SetStatus,
     taskVars
<1>16. ASSUME NEW t \in Tasks, NEW refs \in SUBSET Artifacts,
              ReturnTask(t, refs)
       PROVE  HumanGrant' /\ NoGrantWhileRunning'
  BY <1>16, <1>a DEF ReturnTask, HumanGrant, NoGrantWhileRunning, SetStatus,
     taskVars
<1>17. ASSUME NEW s \in Sessions, NEW t \in Tasks, ClaimRun(s, t)
       PROVE  HumanGrant' /\ NoGrantWhileRunning'
  BY <1>17, <1>a DEF ClaimRun, HumanGrant, NoGrantWhileRunning, SetStatus,
     taskVars
<1>18. ASSUME NEW s \in Sessions, NEW t \in Tasks, NEW n \in Attempts,
              HeartbeatRun(s, t, n)
       PROVE  HumanGrant' /\ NoGrantWhileRunning'
  BY <1>18, <1>a DEF HeartbeatRun, HumanGrant, NoGrantWhileRunning, SetStatus,
     taskVars
<1>19. ASSUME NEW s \in Sessions, NEW t \in Tasks, NEW n \in Attempts,
              ReportFailure(s, t, n)
       PROVE  HumanGrant' /\ NoGrantWhileRunning'
  <2>1. t \notin authorized
    BY <1>19, LiveRunIsLatest DEF ReportFailure, NoGrantWhileRunning
  <2> QED
    BY <1>19, <1>a, <2>1
       DEF ReportFailure, HumanGrant, NoGrantWhileRunning, SetStatus
<1>20. ASSUME NEW s \in Sessions, NEW t \in Tasks, NEW n \in Attempts,
              RequestInvocation(s, t, n)
       PROVE  HumanGrant' /\ NoGrantWhileRunning'
  BY <1>20, <1>a DEF RequestInvocation, HumanGrant, NoGrantWhileRunning,
     SetStatus, taskVars
<1>21. ASSUME NEW s \in Sessions, NEW t \in Tasks, NEW n \in Attempts,
              NEW refs \in SUBSET Artifacts, ReportCompletion(s, t, n, refs)
       PROVE  HumanGrant' /\ NoGrantWhileRunning'
  BY <1>21, <1>a DEF ReportCompletion, HumanGrant, NoGrantWhileRunning,
     SetStatus, taskVars
<1>22. ASSUME NEW s \in Sessions, NEW t \in Tasks, NEW n \in Attempts,
              NEW a \in Artifacts, NEW git \in GitKinds,
              RegisterArtifact(s, t, n, a, git)
       PROVE  HumanGrant' /\ NoGrantWhileRunning'
  BY <1>22, <1>a DEF RegisterArtifact, HumanGrant, NoGrantWhileRunning,
     SetStatus, taskVars
<1>23. ASSUME NEW s \in Sessions, CreateSession(s)
       PROVE  HumanGrant' /\ NoGrantWhileRunning'
  BY <1>23, <1>a DEF CreateSession, HumanGrant, NoGrantWhileRunning, SetStatus,
     taskVars
<1>24. ASSUME NEW s \in Sessions, Handshake(s)
       PROVE  HumanGrant' /\ NoGrantWhileRunning'
  BY <1>24, <1>a DEF Handshake, HumanGrant, NoGrantWhileRunning, SetStatus,
     taskVars
<1>25. ASSUME NEW s \in Sessions, EndSession(s)
       PROVE  HumanGrant' /\ NoGrantWhileRunning'
  BY <1>25, <1>a DEF EndSession, HumanGrant, NoGrantWhileRunning, SetStatus,
     taskVars
<1>25a. ASSUME NEW s \in Sessions, LapseSession(s)
       PROVE  HumanGrant' /\ NoGrantWhileRunning'
  BY <1>25a, <1>a DEF LapseSession, HumanGrant, NoGrantWhileRunning, SetStatus,
     taskVars
<1>26. ASSUME NEW h \in Humans, NEW r \in RoleChoices, NEW on \in BOOLEAN,
              ChangeMember(h, r, on)
       PROVE  HumanGrant' /\ NoGrantWhileRunning'
  BY <1>26, <1>a DEF ChangeMember, RevokedWith, HumanGrant,
     NoGrantWhileRunning, SetStatus, taskVars
<1>27. ASSUME NEW h \in Humans, NEW on \in BOOLEAN, ChangeAccount(h, on)
       PROVE  HumanGrant' /\ NoGrantWhileRunning'
  BY <1>27, <1>a DEF ChangeAccount, RevokedWith, HumanGrant,
     NoGrantWhileRunning, SetStatus, taskVars
<1>28. ASSUME NEW t \in Tasks, NEW n \in Attempts, AgeLease(t, n)
       PROVE  HumanGrant' /\ NoGrantWhileRunning'
  BY <1>28, <1>a DEF AgeLease, HumanGrant, NoGrantWhileRunning, SetStatus,
     taskVars
<1>29. ASSUME NEW t \in Tasks, NEW n \in Attempts, SettleInvocations(t, n)
       PROVE  HumanGrant' /\ NoGrantWhileRunning'
  BY <1>29, <1>a DEF SettleInvocations, HumanGrant, NoGrantWhileRunning,
     SetStatus, taskVars
<1>30. ASSUME Reconcile
       PROVE  HumanGrant' /\ NoGrantWhileRunning'
  <2>1. \A t \in Lost : status[t] = "RUNNING" /\ t \notin authorized
    BY LostIsRunning DEF Lost, NoGrantWhileRunning
  <2> QED
    BY <1>30, <2>1 DEF Reconcile, Waiting, HumanGrant, NoGrantWhileRunning
<1>31. CASE UNCHANGED vars
  BY <1>31 DEF vars, HumanGrant, NoGrantWhileRunning, SetStatus, taskVars
<1> QED
  BY <1>1, <1>2, <1>3, <1>4, <1>5, <1>6, <1>7, <1>8, <1>9, <1>10, <1>11, <1>12,
     <1>13, <1>14, <1>15, <1>16, <1>17, <1>18, <1>19, <1>20, <1>21, <1>22,
     <1>23, <1>24, <1>25, <1>25a, <1>26, <1>27, <1>28, <1>29, <1>30, <1>31
     DEF Next, HumanStep, AgentStep, StandingStep, EnvironmentStep

-----------------------------------------------------------------------------
(***************************************************************************)
(* Tool operations behind a task.                                          *)
(***************************************************************************)
\* What keeps operations of a Run behind the task's back: they belong to a Run
\* that exists, and work the worker may release has none left.
SettledSupport ==
  \A t \in Tasks :
    /\ t \in archived => status[t] \in {"DONE", "CANCELED"}
    /\ status[t] = "BLOCKED" /\ t \in authorized => AllSettled(t)
    /\ \A n \in Attempts : <<t, n>> \in unsettled => n <= attempts[t]

LEMMA SettledStep ==
  TypeOK /\ RunTaskAgreement /\ NoGrantWhileRunning /\ SettledBehind
     /\ SettledSupport /\ [Next]_vars => SettledBehind' /\ SettledSupport'
<1> SUFFICES ASSUME TypeOK, RunTaskAgreement, NoGrantWhileRunning,
                    SettledBehind, SettledSupport, [Next]_vars
             PROVE  SettledBehind' /\ SettledSupport'
  OBVIOUS
<1>a. /\ status \in [Tasks -> Statuses] /\ archived \subseteq Tasks
      /\ attempts \in [Tasks -> 0 .. MaxAttempts]
  BY DEF TypeOK
<1>1. ASSUME NEW t \in Tasks, NEW h \in Humans, NEW v \in Versions,
             CreateTask(t, h, v)
      PROVE  SettledBehind' /\ SettledSupport'
  BY <1>1, <1>a DEF CreateTask, SettledBehind, SettledSupport, AllSettled,
     SetStatus, Statuses, taskVars, runVars
<1>2. ASSUME NEW t \in Tasks, NEW a \in Agents \cup {General}, AssignTask(t, a)
      PROVE  SettledBehind' /\ SettledSupport'
  BY <1>2, <1>a DEF AssignTask, SettledBehind, SettledSupport, AllSettled,
     SetStatus, Statuses, taskVars, runVars
<1>3. ASSUME NEW t \in Tasks, NEW p \in Tasks, NEW c \in Conditions \ {"NONE"},
             AddDependency(t, p, c)
      PROVE  SettledBehind' /\ SettledSupport'
  BY <1>3, <1>a DEF AddDependency, SettledBehind, SettledSupport, AllSettled,
     SetStatus, Statuses, taskVars, runVars
<1>4. ASSUME NEW t \in Tasks, NEW p \in Tasks, RemoveDependency(t, p)
      PROVE  SettledBehind' /\ SettledSupport'
  BY <1>4, <1>a DEF RemoveDependency, SettledBehind, SettledSupport,
     AllSettled, SetStatus, Statuses, taskVars, runVars
<1>5. ASSUME NEW t \in Tasks, Submit(t)
      PROVE  SettledBehind' /\ SettledSupport'
  BY <1>5, <1>a DEF Submit, Authorize, SettledBehind, SettledSupport,
     AllSettled, SetStatus, Statuses, taskVars, runVars
<1>6. ASSUME NEW t \in Tasks, Retry(t)
      PROVE  SettledBehind' /\ SettledSupport'
  BY <1>6, <1>a DEF Retry, Authorize, SettledBehind, SettledSupport,
     AllSettled, SetStatus, Statuses, taskVars, runVars
<1>7. ASSUME NEW t \in Tasks, Cancel(t)
      PROVE  SettledBehind' /\ SettledSupport'
  BY <1>7, <1>a DEF Cancel, SettledBehind, SettledSupport, AllSettled,
     SetStatus, Statuses, taskVars, runVars
<1>8. ASSUME NEW t \in Tasks, Archive(t)
      PROVE  SettledBehind' /\ SettledSupport'
  BY <1>8, <1>a DEF Archive, SettledBehind, SettledSupport, AllSettled,
     SetStatus, Statuses, taskVars, runVars
<1>9. ASSUME NEW t \in Tasks, Restore(t)
      PROVE  SettledBehind' /\ SettledSupport'
  BY <1>9, <1>a DEF Restore, SettledBehind, SettledSupport, AllSettled,
     SetStatus, Statuses, taskVars, runVars
<1>10. ASSUME NEW t \in Tasks, NEW v \in Versions, EditTask(t, v)
       PROVE  SettledBehind' /\ SettledSupport'
  BY <1>10, <1>a DEF EditTask, Editable, SettledBehind, SettledSupport,
     AllSettled, SetStatus, Statuses, taskVars, runVars
<1>11. ASSUME NEW t \in Tasks, NEW h \in Humans, TransferTask(t, h)
       PROVE  SettledBehind' /\ SettledSupport'
  BY <1>11, <1>a DEF TransferTask, Editable, SettledBehind, SettledSupport,
     AllSettled, SetStatus, Statuses, taskVars, runVars
<1>12. ASSUME NEW v \in Versions, PublishVersion(v)
       PROVE  SettledBehind' /\ SettledSupport'
  BY <1>12, <1>a DEF PublishVersion, SettledBehind, SettledSupport, AllSettled,
     SetStatus, Statuses, taskVars, runVars
<1>13. ASSUME NEW a \in Artifacts, NEW b \in BOOLEAN, VerifyArtifact(a, b)
       PROVE  SettledBehind' /\ SettledSupport'
  BY <1>13, <1>a DEF VerifyArtifact, SettledBehind, SettledSupport, AllSettled,
     SetStatus, Statuses, taskVars, runVars
<1>14. ASSUME NEW a \in Artifacts, NEW b \in BOOLEAN, ReviewArtifact(a, b)
       PROVE  SettledBehind' /\ SettledSupport'
  BY <1>14, <1>a DEF ReviewArtifact, SettledBehind, SettledSupport, AllSettled,
     SetStatus, Statuses, taskVars, runVars
<1>15. ASSUME NEW t \in Tasks, NEW refs \in SUBSET Artifacts,
              AcceptTask(t, refs)
       PROVE  SettledBehind' /\ SettledSupport'
  BY <1>15, <1>a DEF AcceptTask, SettledBehind, SettledSupport, AllSettled,
     SetStatus, Statuses, taskVars, runVars
<1>16. ASSUME NEW t \in Tasks, NEW refs \in SUBSET Artifacts,
              ReturnTask(t, refs)
       PROVE  SettledBehind' /\ SettledSupport'
  BY <1>16, <1>a DEF ReturnTask, Reviewed, SettledBehind, SettledSupport,
     AllSettled, SetStatus, Statuses, taskVars, runVars
<1>17. ASSUME NEW s \in Sessions, NEW t \in Tasks, ClaimRun(s, t)
       PROVE  SettledBehind' /\ SettledSupport'
  BY <1>17, <1>a DEF ClaimRun, SettledBehind, SettledSupport, AllSettled,
     SetStatus, Statuses, taskVars, runVars
<1>18. ASSUME NEW s \in Sessions, NEW t \in Tasks, NEW n \in Attempts,
              HeartbeatRun(s, t, n)
       PROVE  SettledBehind' /\ SettledSupport'
  BY <1>18, <1>a DEF HeartbeatRun, SettledBehind, SettledSupport, AllSettled,
     SetStatus, Statuses, taskVars, runVars
<1>19. ASSUME NEW s \in Sessions, NEW t \in Tasks, NEW n \in Attempts,
              ReportFailure(s, t, n)
       PROVE  SettledBehind' /\ SettledSupport'
  <2>1. status[t] = "RUNNING" /\ t \notin authorized
    BY <1>19, LiveRunIsLatest DEF ReportFailure, NoGrantWhileRunning
  <2> QED
    BY <1>19, <1>a, <2>1
       DEF ReportFailure, SettledBehind, SettledSupport, AllSettled,
           SetStatus
<1>20. ASSUME NEW s \in Sessions, NEW t \in Tasks, NEW n \in Attempts,
              RequestInvocation(s, t, n)
       PROVE  SettledBehind' /\ SettledSupport'
  <2>1. n = attempts[t] /\ status[t] = "RUNNING"
    BY <1>20, LiveRunIsLatest DEF RequestInvocation
  <2> QED
    BY <1>20, <1>a, <2>1
       DEF RequestInvocation, SettledBehind, SettledSupport, AllSettled,
           taskVars, runVars
<1>21. ASSUME NEW s \in Sessions, NEW t \in Tasks, NEW n \in Attempts,
              NEW refs \in SUBSET Artifacts, ReportCompletion(s, t, n, refs)
       PROVE  SettledBehind' /\ SettledSupport'
  <2>1. status[t] = "RUNNING" /\ t \notin authorized
    BY <1>21, LiveRunIsLatest DEF ReportCompletion, NoGrantWhileRunning
  <2> QED
    BY <1>21, <1>a, <2>1
       DEF ReportCompletion, SettledBehind, SettledSupport, AllSettled,
           SetStatus
<1>22. ASSUME NEW s \in Sessions, NEW t \in Tasks, NEW n \in Attempts,
              NEW a \in Artifacts, NEW git \in GitKinds,
              RegisterArtifact(s, t, n, a, git)
       PROVE  SettledBehind' /\ SettledSupport'
  BY <1>22, <1>a DEF RegisterArtifact, SettledBehind, SettledSupport,
     AllSettled, SetStatus, Statuses, taskVars, runVars
<1>23. ASSUME NEW s \in Sessions, CreateSession(s)
       PROVE  SettledBehind' /\ SettledSupport'
  BY <1>23, <1>a DEF CreateSession, SettledBehind, SettledSupport, AllSettled,
     SetStatus, Statuses, taskVars, runVars
<1>24. ASSUME NEW s \in Sessions, Handshake(s)
       PROVE  SettledBehind' /\ SettledSupport'
  BY <1>24, <1>a DEF Handshake, SettledBehind, SettledSupport, AllSettled,
     SetStatus, Statuses, taskVars, runVars
<1>25. ASSUME NEW s \in Sessions, EndSession(s)
       PROVE  SettledBehind' /\ SettledSupport'
  BY <1>25, <1>a DEF EndSession, SettledBehind, SettledSupport, AllSettled,
     SetStatus, Statuses, taskVars, runVars
<1>25a. ASSUME NEW s \in Sessions, LapseSession(s)
       PROVE  SettledBehind' /\ SettledSupport'
  BY <1>25a, <1>a DEF LapseSession, SettledBehind, SettledSupport, AllSettled,
     SetStatus, Statuses, taskVars, runVars
<1>26. ASSUME NEW h \in Humans, NEW r \in RoleChoices, NEW on \in BOOLEAN,
              ChangeMember(h, r, on)
       PROVE  SettledBehind' /\ SettledSupport'
  BY <1>26, <1>a DEF ChangeMember, SettledBehind, SettledSupport, AllSettled,
     SetStatus, Statuses, taskVars, runVars
<1>27. ASSUME NEW h \in Humans, NEW on \in BOOLEAN, ChangeAccount(h, on)
       PROVE  SettledBehind' /\ SettledSupport'
  BY <1>27, <1>a DEF ChangeAccount, SettledBehind, SettledSupport, AllSettled,
     SetStatus, Statuses, taskVars, runVars
<1>28. ASSUME NEW t \in Tasks, NEW n \in Attempts, AgeLease(t, n)
       PROVE  SettledBehind' /\ SettledSupport'
  BY <1>28, <1>a DEF AgeLease, SettledBehind, SettledSupport, AllSettled,
     SetStatus, Statuses, taskVars, runVars
<1>29. ASSUME NEW t \in Tasks, NEW n \in Attempts, SettleInvocations(t, n)
       PROVE  SettledBehind' /\ SettledSupport'
  BY <1>29, <1>a DEF SettleInvocations, SettledBehind, SettledSupport,
     AllSettled, SetStatus, Statuses, taskVars, runVars
<1>30. ASSUME Reconcile
       PROVE  SettledBehind' /\ SettledSupport'
  <2>1. \A t \in Lost : status[t] = "RUNNING" /\ t \notin authorized
    BY LostIsRunning DEF Lost, NoGrantWhileRunning
  <2> QED
    BY <1>30, <2>1
       DEF Reconcile, Waiting, SettledBehind, SettledSupport, AllSettled
<1>31. CASE UNCHANGED vars
  BY <1>31 DEF vars, SettledBehind, SettledSupport, AllSettled, SetStatus,
     Statuses, taskVars, runVars, vars
<1> QED
  BY <1>1, <1>2, <1>3, <1>4, <1>5, <1>6, <1>7, <1>8, <1>9, <1>10, <1>11, <1>12,
     <1>13, <1>14, <1>15, <1>16, <1>17, <1>18, <1>19, <1>20, <1>21, <1>22,
     <1>23, <1>24, <1>25, <1>25a, <1>26, <1>27, <1>28, <1>29, <1>30, <1>31
     DEF Next, HumanStep, AgentStep, StandingStep, EnvironmentStep

-----------------------------------------------------------------------------
(***************************************************************************)
(* The dependency graph.                                                   *)
(***************************************************************************)
\* A new edge from p to t, where p is not reachable from t, closes no cycle: a
\* set S closed under successors that holds t but not p separates them, and the
\* member of U \ S that waits for nothing in U \ S waits for nothing in U.
LEMMA EdgeKeepsAcyclic ==
  ASSUME TypeOK, Acyclic, NEW t \in Tasks, NEW p \in Tasks, NEW c,
         ~Reaches(t, p), dep' = [dep EXCEPT ![t] = [dep[t] EXCEPT ![p] = c]]
  PROVE  Acyclic'
<1>1. PICK S \in SUBSET Tasks :
        /\ t \in S /\ p \notin S
        /\ \A u \in S, v \in Tasks : dep[v][u] # "NONE" => v \in S
  BY DEF Reaches
<1>2. ASSUME NEW U \in SUBSET Tasks, U # {}
      PROVE  \E u \in U : \A q \in U : dep'[u][q] = "NONE"
  <2>1. CASE p \in U
    <3>1. PICK w \in U \ S : \A q \in U \ S : dep[w][q] = "NONE"
      BY <1>1, <2>1 DEF Acyclic
    <3>2. \A q \in U : dep[w][q] = "NONE"
      BY <1>1, <3>1
    <3>3. w # t
      BY <1>1, <3>1
    <3> QED
      BY <3>1, <3>2, <3>3 DEF TypeOK
  <2>2. CASE p \notin U
    <3>1. PICK w \in U : \A q \in U : dep[w][q] = "NONE"
      BY <1>2 DEF Acyclic
    <3>2. \A q \in U : dep'[w][q] = dep[w][q]
      BY <2>2 DEF TypeOK
    <3> QED
      BY <3>1, <3>2
  <2> QED
    BY <2>1, <2>2
<1> QED
  BY <1>2 DEF Acyclic

LEMMA AcyclicStep == TypeOK /\ Acyclic /\ [Next]_vars => Acyclic'
<1> SUFFICES ASSUME TypeOK, Acyclic, [Next]_vars
             PROVE  Acyclic'
  OBVIOUS
<1>1. ASSUME NEW t \in Tasks, NEW h \in Humans, NEW v \in Versions,
             CreateTask(t, h, v)
      PROVE  Acyclic'
  BY <1>1 DEF CreateTask, Acyclic, depVars
<1>2. ASSUME NEW t \in Tasks, NEW a \in Agents \cup {General}, AssignTask(t, a)
      PROVE  Acyclic'
  BY <1>2 DEF AssignTask, Acyclic, depVars
<1>3. ASSUME NEW t \in Tasks, NEW p \in Tasks, NEW c \in Conditions \ {"NONE"},
             AddDependency(t, p, c)
      PROVE  Acyclic'
  BY <1>3, EdgeKeepsAcyclic DEF AddDependency
<1>4. ASSUME NEW t \in Tasks, NEW p \in Tasks, RemoveDependency(t, p)
      PROVE  Acyclic'
  <2>1. \A u, q \in Tasks : dep'[u][q] = "NONE" \/ dep'[u][q] = dep[u][q]
    BY <1>4 DEF RemoveDependency, TypeOK
  <2> QED
    BY <2>1 DEF Acyclic
<1>5. ASSUME NEW t \in Tasks, Submit(t)
      PROVE  Acyclic'
  BY <1>5 DEF Submit, Authorize, Acyclic, depVars
<1>6. ASSUME NEW t \in Tasks, Retry(t)
      PROVE  Acyclic'
  BY <1>6 DEF Retry, Authorize, Acyclic, depVars
<1>7. ASSUME NEW t \in Tasks, Cancel(t)
      PROVE  Acyclic'
  BY <1>7 DEF Cancel, Acyclic, depVars
<1>8. ASSUME NEW t \in Tasks, Archive(t)
      PROVE  Acyclic'
  BY <1>8 DEF Archive, Acyclic, depVars
<1>9. ASSUME NEW t \in Tasks, Restore(t)
      PROVE  Acyclic'
  BY <1>9 DEF Restore, Acyclic, depVars
<1>10. ASSUME NEW t \in Tasks, NEW v \in Versions, EditTask(t, v)
       PROVE  Acyclic'
  BY <1>10 DEF EditTask, Acyclic, depVars
<1>11. ASSUME NEW t \in Tasks, NEW h \in Humans, TransferTask(t, h)
       PROVE  Acyclic'
  BY <1>11 DEF TransferTask, Acyclic, depVars
<1>12. ASSUME NEW v \in Versions, PublishVersion(v)
       PROVE  Acyclic'
  BY <1>12 DEF PublishVersion, Acyclic, depVars
<1>13. ASSUME NEW a \in Artifacts, NEW b \in BOOLEAN, VerifyArtifact(a, b)
       PROVE  Acyclic'
  BY <1>13 DEF VerifyArtifact, Acyclic, depVars
<1>14. ASSUME NEW a \in Artifacts, NEW b \in BOOLEAN, ReviewArtifact(a, b)
       PROVE  Acyclic'
  BY <1>14 DEF ReviewArtifact, Acyclic, depVars
<1>15. ASSUME NEW t \in Tasks, NEW refs \in SUBSET Artifacts,
              AcceptTask(t, refs)
       PROVE  Acyclic'
  BY <1>15 DEF AcceptTask, Acyclic, depVars
<1>16. ASSUME NEW t \in Tasks, NEW refs \in SUBSET Artifacts,
              ReturnTask(t, refs)
       PROVE  Acyclic'
  BY <1>16 DEF ReturnTask, Acyclic, depVars
<1>17. ASSUME NEW s \in Sessions, NEW t \in Tasks, ClaimRun(s, t)
       PROVE  Acyclic'
  BY <1>17 DEF ClaimRun, Acyclic, depVars
<1>18. ASSUME NEW s \in Sessions, NEW t \in Tasks, NEW n \in Attempts,
              HeartbeatRun(s, t, n)
       PROVE  Acyclic'
  BY <1>18 DEF HeartbeatRun, Acyclic, depVars
<1>19. ASSUME NEW s \in Sessions, NEW t \in Tasks, NEW n \in Attempts,
              ReportFailure(s, t, n)
       PROVE  Acyclic'
  BY <1>19 DEF ReportFailure, Acyclic, depVars
<1>20. ASSUME NEW s \in Sessions, NEW t \in Tasks, NEW n \in Attempts,
              RequestInvocation(s, t, n)
       PROVE  Acyclic'
  BY <1>20 DEF RequestInvocation, Acyclic, depVars
<1>21. ASSUME NEW s \in Sessions, NEW t \in Tasks, NEW n \in Attempts,
              NEW refs \in SUBSET Artifacts, ReportCompletion(s, t, n, refs)
       PROVE  Acyclic'
  BY <1>21 DEF ReportCompletion, Acyclic, depVars
<1>22. ASSUME NEW s \in Sessions, NEW t \in Tasks, NEW n \in Attempts,
              NEW a \in Artifacts, NEW git \in GitKinds,
              RegisterArtifact(s, t, n, a, git)
       PROVE  Acyclic'
  BY <1>22 DEF RegisterArtifact, Acyclic, depVars
<1>23. ASSUME NEW s \in Sessions, CreateSession(s)
       PROVE  Acyclic'
  BY <1>23 DEF CreateSession, Acyclic, depVars
<1>24. ASSUME NEW s \in Sessions, Handshake(s)
       PROVE  Acyclic'
  BY <1>24 DEF Handshake, Acyclic, depVars
<1>25. ASSUME NEW s \in Sessions, EndSession(s)
       PROVE  Acyclic'
  BY <1>25 DEF EndSession, Acyclic, depVars
<1>25a. ASSUME NEW s \in Sessions, LapseSession(s)
       PROVE  Acyclic'
  BY <1>25a DEF LapseSession, Acyclic, depVars
<1>26. ASSUME NEW h \in Humans, NEW r \in RoleChoices, NEW on \in BOOLEAN,
              ChangeMember(h, r, on)
       PROVE  Acyclic'
  BY <1>26 DEF ChangeMember, Acyclic, depVars
<1>27. ASSUME NEW h \in Humans, NEW on \in BOOLEAN, ChangeAccount(h, on)
       PROVE  Acyclic'
  BY <1>27 DEF ChangeAccount, Acyclic, depVars
<1>28. ASSUME NEW t \in Tasks, NEW n \in Attempts, AgeLease(t, n)
       PROVE  Acyclic'
  BY <1>28 DEF AgeLease, Acyclic, depVars
<1>29. ASSUME NEW t \in Tasks, NEW n \in Attempts, SettleInvocations(t, n)
       PROVE  Acyclic'
  BY <1>29 DEF SettleInvocations, Acyclic, depVars
<1>30. ASSUME Reconcile
       PROVE  Acyclic'
  BY <1>30 DEF Reconcile, Acyclic, depVars
<1>31. CASE UNCHANGED vars
  BY <1>31 DEF vars, Acyclic, depVars, vars
<1> QED
  BY <1>1, <1>2, <1>3, <1>4, <1>5, <1>6, <1>7, <1>8, <1>9, <1>10, <1>11, <1>12,
     <1>13, <1>14, <1>15, <1>16, <1>17, <1>18, <1>19, <1>20, <1>21, <1>22,
     <1>23, <1>24, <1>25, <1>25a, <1>26, <1>27, <1>28, <1>29, <1>30, <1>31
     DEF Next, HumanStep, AgentStep, StandingStep, EnvironmentStep

-----------------------------------------------------------------------------
(***************************************************************************)
(* The invariant, and what it implies.                                     *)
(***************************************************************************)
IInv == /\ TypeOK /\ RunTaskAgreement
        /\ HumanGrant /\ NoGrantWhileRunning
        /\ SettledBehind /\ SettledSupport
        /\ Acyclic

LEMMA InitIInv == Init => IInv
<1> SUFFICES ASSUME Init PROVE IInv
  OBVIOUS
<1>1. TypeOK
  <2>1. NoRun \in Run /\ NoArtifact \in Artifact
    BY DEF NoRun, Run, RunStatuses, NoArtifact, Artifact
  <2> QED
    BY <2>1 DEF Init, TypeOK, Statuses, Conditions
<1>2. RunTaskAgreement
  BY DEF Init, RunTaskAgreement, HasRun, NoRun
<1>3. HumanGrant /\ NoGrantWhileRunning
  BY DEF Init, HumanGrant, NoGrantWhileRunning
<1>4. SettledBehind /\ SettledSupport
  BY DEF Init, SettledBehind, SettledSupport, AllSettled
<1>5. Acyclic
  BY DEF Init, Acyclic
<1> QED
  BY <1>1, <1>2, <1>3, <1>4, <1>5 DEF IInv

LEMMA Inductive == Spec => []IInv
<1>1. IInv /\ [Next]_vars => IInv'
  BY TypeStep, AgreementStep, GrantStep, SettledStep, AcyclicStep DEF IInv
<1> QED
  BY InitIInv, <1>1, PTL DEF Spec

\* Every row keeps the type its column and document have, whatever the order of
\* requests, reports and scans.
THEOREM TypeCorrect == Spec => []TypeOK
<1>1. IInv => TypeOK
  BY DEF IInv
<1> QED
  BY Inductive, <1>1, PTL

\* The status of a task and of its Runs agree, at most one Run is RUNNING and
\* the latest holds the highest fence (tasks_execution.go, reconcile.go).
THEOREM RunTaskAgreementHolds == Spec => []RunTaskAgreement
<1>1. IInv => RunTaskAgreement
  BY DEF IInv
<1> QED
  BY Inductive, <1>1, PTL

\* Every attempt the worker may release, or an agent claim, was submitted by a
\* human after the last Run and the last change of inputs (reconcile.go:12).
THEOREM HumanGrantHolds == Spec => []HumanGrant
<1>1. IInv => HumanGrant
  BY DEF IInv
<1> QED
  BY Inductive, <1>1, PTL

\* No attempt is released, accepted or archived over a tool operation of an
\* earlier Run that may still take effect (tasks_execution.go:173).
THEOREM SettledBehindHolds == Spec => []SettledBehind
<1>1. IInv => SettledBehind
  BY DEF IInv
<1> QED
  BY Inductive, <1>1, PTL

\* The reachability query of addDependency keeps the graph free of cycles,
\* however many tasks there are (tasks_execution.go:107).
THEOREM AcyclicHolds == Spec => []Acyclic
<1>1. IInv => Acyclic
  BY DEF IInv
<1> QED
  BY Inductive, <1>1, PTL
=============================================================================
