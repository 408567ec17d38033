--------------------------- MODULE EvidenceProofs ---------------------------
(***************************************************************************)
(* What TaskRuns promises about the work itself: its inputs stay frozen,   *)
(* its dependencies hold, it is done on evidence, what has ended does not  *)
(* change, and nobody writes without authority.  The proofs rest on the    *)
(* invariant of TaskRunsProofs.                                            *)
(***************************************************************************)
EXTENDS TaskRunsProofs

USE ConstantsAssumption DEF RoleNames, Attempts

-----------------------------------------------------------------------------
(***************************************************************************)
(* What a step does to one task.                                           *)
(***************************************************************************)
Working == {"RUNNING", "IN_REVIEW", "DONE"}

\* The inputs of t, and the copy of them in its latest Run, are as before.
Same(t) ==
  /\ owner'[t] = owner[t] /\ ctx'[t] = ctx[t]
  /\ dep'[t] = dep[t] /\ evidence'[t] = evidence[t]
  /\ attempts'[t] = attempts[t]
  /\ HasRun(t) =>
       /\ run'[t][attempts[t]].owner = Latest(t).owner
       /\ run'[t][attempts[t]].input = Latest(t).input
       /\ run'[t][attempts[t]].evidence = Latest(t).evidence

\* Nothing happens to t that its work would notice.
Keeps(t) ==
  /\ Same(t) /\ status'[t] = status[t]
  /\ HasRun(t) /\ status[t] \in {"IN_REVIEW", "DONE"} =>
       run'[t][attempts[t]].status = Latest(t).status
\* t is not worked on after the step.
Idles(t) ==
  /\ status'[t] \notin Working /\ status[t] # "DONE"
  /\ status[t] = "CANCELED" => status'[t] = "CANCELED"
\* A session claims t.
Claims(t) ==
  /\ status[t] = "READY" /\ status'[t] = "RUNNING" /\ Ready(t)
  /\ owner'[t] = owner[t] /\ ctx'[t] = ctx[t] /\ dep'[t] = dep[t]
  /\ evidence'[t] = ResolvedEvidence(t)
  /\ attempts'[t] > 0
  /\ run'[t][attempts'[t]].owner = owner[t]
  /\ run'[t][attempts'[t]].input = ctx[t]
  /\ run'[t][attempts'[t]].evidence =
       {ResolvedEvidence(t)[p] : p \in Tasks} \ {None}
\* Its Run reports completion.
Completes(t) ==
  /\ Same(t) /\ status[t] = "RUNNING" /\ status'[t] = "IN_REVIEW"
  /\ HasRun(t) /\ run'[t][attempts[t]].status = "SUCCEEDED"
\* Its owner accepts the work.
Accepts(t) ==
  /\ Same(t) /\ status[t] = "IN_REVIEW" /\ status'[t] = "DONE"
  /\ HasRun(t) /\ run'[t][attempts[t]].status = "SUCCEEDED"
  /\ \E a \in Artifacts : /\ art'[a].task = t /\ art'[a].attempt = attempts[t]
                          /\ art'[a].verification = "VERIFIED"
                          /\ art'[a].acceptance = "ACCEPTED"

Moves(t) == Keeps(t) \/ Idles(t) \/ Claims(t) \/ Completes(t) \/ Accepts(t)

\* Changing the status or the lease of a Run leaves the rest of it alone.
LEMMA StatusOnly ==
  ASSUME TypeOK, NEW t \in Tasks, NEW n \in Attempts, NEW x,
         run' = [run EXCEPT ![t][n].status = x]
  PROVE  \A u \in Tasks, m \in Attempts :
           /\ run'[u][m].owner = run[u][m].owner
           /\ run'[u][m].input = run[u][m].input
           /\ run'[u][m].evidence = run[u][m].evidence
           /\ run'[u][m].fence = run[u][m].fence
           /\ run'[u][m].status = IF u = t /\ m = n THEN x
                                                    ELSE run[u][m].status
<1> TAKE u \in Tasks, m \in Attempts
<1>1. run'[u][m] = IF u = t /\ m = n THEN [run[t][n] EXCEPT !.status = x]
                                     ELSE run[u][m]
  BY DEF TypeOK
<1>2. run[t][n] \in Run
  BY DEF TypeOK
<1>3. /\ [run[t][n] EXCEPT !.status = x].status = x
      /\ [run[t][n] EXCEPT !.status = x].owner = run[t][n].owner
      /\ [run[t][n] EXCEPT !.status = x].input = run[t][n].input
      /\ [run[t][n] EXCEPT !.status = x].evidence = run[t][n].evidence
      /\ [run[t][n] EXCEPT !.status = x].fence = run[t][n].fence
  BY <1>2 DEF Run
<1>4. CASE u = t /\ m = n
  BY <1>1, <1>3, <1>4
<1>5. CASE ~(u = t /\ m = n)
  BY <1>1, <1>5
<1> QED
  BY <1>4, <1>5

LEMMA LeaseOnly ==
  ASSUME TypeOK, NEW t \in Tasks, NEW n \in Attempts, NEW x,
         run' = [run EXCEPT ![t][n].lease = x]
  PROVE  \A u \in Tasks, m \in Attempts :
           /\ run'[u][m].owner = run[u][m].owner
           /\ run'[u][m].input = run[u][m].input
           /\ run'[u][m].evidence = run[u][m].evidence
           /\ run'[u][m].fence = run[u][m].fence
           /\ run'[u][m].status = run[u][m].status
<1> TAKE u \in Tasks, m \in Attempts
<1>1. run'[u][m] = IF u = t /\ m = n THEN [run[t][n] EXCEPT !.lease = x]
                                     ELSE run[u][m]
  BY DEF TypeOK
<1>2. run[t][n] \in Run
  BY DEF TypeOK
<1>3. /\ [run[t][n] EXCEPT !.lease = x].status = run[t][n].status
      /\ [run[t][n] EXCEPT !.lease = x].owner = run[t][n].owner
      /\ [run[t][n] EXCEPT !.lease = x].input = run[t][n].input
      /\ [run[t][n] EXCEPT !.lease = x].evidence = run[t][n].evidence
      /\ [run[t][n] EXCEPT !.lease = x].fence = run[t][n].fence
  BY <1>2 DEF Run
<1> QED
  BY <1>1, <1>3

\* Steps that leave the task rows and Runs alone.
LEMMA Untouched ==
  ASSUME UNCHANGED <<status, owner, ctx, dep, evidence, attempts, run>>
  PROVE  \A u \in Tasks : Moves(u)
BY DEF Moves, Keeps, Same, HasRun, Latest

\* Steps that touch only the row of t, while it is not worked on.
LEMMA OneIdles ==
  ASSUME TypeOK, NEW t \in Tasks, UNCHANGED <<attempts, run>>,
         \A u \in Tasks \ {t} :
           /\ status'[u] = status[u] /\ owner'[u] = owner[u]
           /\ ctx'[u] = ctx[u] /\ dep'[u] = dep[u]
           /\ evidence'[u] = evidence[u],
         Idles(t)
  PROVE  \A u \in Tasks : Moves(u)
<1> TAKE u \in Tasks
<1>1. CASE u = t
  BY <1>1 DEF Moves
<1>2. CASE u # t
  BY <1>2 DEF Moves, Keeps, Same, HasRun, Latest
<1> QED
  BY <1>1, <1>2

LEMMA TaskMoves ==
  ASSUME IInv, [Next]_vars
  PROVE  \A u \in Tasks : Moves(u)
<1>a. /\ TypeOK /\ RunTaskAgreement
      /\ status \in [Tasks -> Statuses]
      /\ attempts \in [Tasks -> 0 .. MaxAttempts]
  BY DEF IInv, TypeOK
<1>1. ASSUME NEW t \in Tasks, NEW h \in Humans, NEW v \in Versions,
             CreateTask(t, h, v)
      PROVE  \A u \in Tasks : Moves(u)
  <2>1. Idles(t)
    BY <1>1, <1>a DEF CreateTask, SetStatus, Idles, Working
  <2> QED
    BY <1>1, <1>a, <2>1, OneIdles
       DEF CreateTask, SetStatus, depVars, runVars, TypeOK
<1>2. ASSUME NEW t \in Tasks, NEW a \in Agents \cup {General}, AssignTask(t, a)
      PROVE  \A u \in Tasks : Moves(u)
  BY <1>2, Untouched DEF AssignTask, depVars, runVars
<1>3. ASSUME NEW t \in Tasks, NEW p \in Tasks, NEW c \in Conditions \ {"NONE"},
             AddDependency(t, p, c)
      PROVE  \A u \in Tasks : Moves(u)
  <2>1. status'[t] \in {status[t], "READY", "BLOCKED"}
        /\ status[t] \in {"DRAFT", "READY", "BLOCKED"}
        /\ \A u \in Tasks \ {t} : status'[u] = status[u]
    BY <1>3, <1>a DEF AddDependency, SetStatus, Editable
  <2>2. Idles(t)
    BY <2>1 DEF Idles, Working
  <2>3. \A u \in Tasks \ {t} :
          dep'[u] = dep[u] /\ evidence'[u] = evidence[u]
    <3>1. \A u \in Tasks \ {t} : dep'[u] = dep[u]
      BY <1>3, <1>a DEF AddDependency, TypeOK
    <3>2. \/ UNCHANGED evidence
          \/ \E x : evidence' = [evidence EXCEPT ![t] = x]
      BY <1>3 DEF AddDependency
    <3>3. \A u \in Tasks \ {t} : evidence'[u] = evidence[u]
      BY <1>a, <3>2 DEF TypeOK
    <3> QED
      BY <3>1, <3>3
  <2> QED
    BY <1>3, <1>a, <2>1, <2>2, <2>3, OneIdles DEF AddDependency, runVars
<1>4. ASSUME NEW t \in Tasks, NEW p \in Tasks, RemoveDependency(t, p)
      PROVE  \A u \in Tasks : Moves(u)
  <2>1. Idles(t)
    BY <1>4 DEF RemoveDependency, Editable, taskVars, Idles, Working
  <2> QED
    BY <1>4, <1>a, <2>1, OneIdles
       DEF RemoveDependency, taskVars, runVars, TypeOK
<1>5. ASSUME NEW t \in Tasks, NEW retry, Authorize(t, retry)
      PROVE  \A u \in Tasks : Moves(u)
  <2>1. /\ status'[t] \in {"READY", "BLOCKED"}
        /\ status[t] \in {"DRAFT", "BLOCKED"}
        /\ \A u \in Tasks \ {t} : status'[u] = status[u]
    BY <1>5, <1>a DEF Authorize, SetStatus
  <2>2. Idles(t)
    BY <2>1 DEF Idles, Working
  <2> QED
    BY <1>5, <1>a, <2>1, <2>2, OneIdles DEF Authorize, runVars, TypeOK
<1>7. ASSUME NEW t \in Tasks, Cancel(t)
      PROVE  \A u \in Tasks : Moves(u)
  <2>1. Idles(t)
    BY <1>7, <1>a DEF Cancel, SetStatus, Idles, Working
  <2>2. ASSUME NEW u \in Tasks \ {t}
        PROVE  Keeps(u)
    <3>1. run'[u] = run[u]
      BY <1>7, <1>a DEF Cancel, EndRun, TypeOK
    <3> QED
      BY <1>7, <1>a, <2>2, <3>1
         DEF Cancel, SetStatus, depVars, Keeps, Same, HasRun, Latest
  <2> QED
    BY <2>1, <2>2 DEF Moves
<1>8. ASSUME NEW t \in Tasks, Archive(t)
      PROVE  \A u \in Tasks : Moves(u)
  BY <1>8, Untouched DEF Archive, depVars, runVars
<1>9. ASSUME NEW t \in Tasks, Restore(t)
      PROVE  \A u \in Tasks : Moves(u)
  BY <1>9, Untouched DEF Restore, depVars, runVars
<1>10. ASSUME NEW t \in Tasks, NEW v \in Versions, EditTask(t, v)
       PROVE  \A u \in Tasks : Moves(u)
  <2>1. Idles(t)
    BY <1>10, <1>a DEF EditTask, Editable, SetStatus, Idles, Working
  <2> QED
    BY <1>10, <1>a, <2>1, OneIdles
       DEF EditTask, SetStatus, depVars, runVars, TypeOK
<1>11. ASSUME NEW t \in Tasks, NEW h \in Humans, TransferTask(t, h)
       PROVE  \A u \in Tasks : Moves(u)
  <2>1. Idles(t)
    BY <1>11, <1>a DEF TransferTask, Editable, SetStatus, Idles, Working
  <2> QED
    BY <1>11, <1>a, <2>1, OneIdles
       DEF TransferTask, SetStatus, depVars, runVars, TypeOK
<1>12. ASSUME \/ \E v \in Versions : PublishVersion(v)
              \/ \E a \in Artifacts, b \in BOOLEAN :
                    VerifyArtifact(a, b) \/ ReviewArtifact(a, b)
       PROVE  \A u \in Tasks : Moves(u)
  BY <1>12, Untouched
     DEF PublishVersion, VerifyArtifact, ReviewArtifact, taskVars, depVars,
         runVars
<1>15. ASSUME NEW t \in Tasks, NEW refs \in SUBSET Artifacts,
              AcceptTask(t, refs)
       PROVE  \A u \in Tasks : Moves(u)
  <2>1. /\ status[t] = "IN_REVIEW" /\ status'[t] = "DONE"
        /\ HasRun(t) /\ Latest(t).status = "SUCCEEDED"
        /\ \A u \in Tasks \ {t} : status'[u] = status[u]
        /\ UNCHANGED <<owner, ctx, dep, evidence, attempts, run>>
    BY <1>15, <1>a DEF AcceptTask, Reviewed, SetStatus, depVars, runVars
  <2>2. \A u \in Tasks : Same(u)
    BY <2>1 DEF Same, HasRun, Latest
  <2>3. PICK a \in refs : art[a].task = t /\ art[a].attempt = attempts[t]
                          /\ art[a].verification = "VERIFIED"
    BY <1>15 DEF AcceptTask, Reviewed
  <2>4. art[a] \in Artifact /\ a \in Artifacts
    BY <1>a DEF TypeOK
  <2>5. art'[a] = [art[a] EXCEPT !.acceptance = "ACCEPTED"]
    BY <1>15, <2>4 DEF AcceptTask
  <2>6. /\ art'[a].task = t /\ art'[a].attempt = attempts[t]
        /\ art'[a].verification = "VERIFIED" /\ art'[a].acceptance = "ACCEPTED"
    BY <2>3, <2>4, <2>5 DEF Artifact
  <2>7. Accepts(t)
    BY <2>1, <2>2, <2>4, <2>6 DEF Accepts, Latest
  <2>8. \A u \in Tasks \ {t} : Keeps(u)
    BY <2>1, <2>2 DEF Keeps, Latest
  <2> QED
    BY <2>7, <2>8 DEF Moves
<1>16. ASSUME NEW t \in Tasks, NEW refs \in SUBSET Artifacts,
              ReturnTask(t, refs)
       PROVE  \A u \in Tasks : Moves(u)
  <2>1. Idles(t)
    BY <1>16, <1>a DEF ReturnTask, Reviewed, SetStatus, Idles, Working
  <2> QED
    BY <1>16, <1>a, <2>1, OneIdles DEF ReturnTask, SetStatus, depVars, runVars
<1>17. ASSUME NEW s \in Sessions, NEW t \in Tasks, ClaimRun(s, t)
       PROVE  \A u \in Tasks : Moves(u)
  <2> DEFINE k == attempts[t] + 1
  <2>1. /\ k \in Attempts /\ attempts' = [attempts EXCEPT ![t] = k]
    BY <1>17, <1>a DEF ClaimRun
  <2>2. /\ run'[t][k].owner = owner[t] /\ run'[t][k].input = ctx[t]
        /\ run'[t][k].evidence =
             {ResolvedEvidence(t)[p] : p \in Tasks} \ {None}
    BY <1>17, <1>a, <2>1 DEF ClaimRun, TypeOK
  <2>3. \A u \in Tasks \ {t} : run'[u] = run[u]
    BY <1>17, <1>a DEF ClaimRun, TypeOK
  <2>4. attempts'[t] = k /\ k > 0
    BY <1>a, <2>1
  <2>5. /\ status[t] = "READY" /\ status'[t] = "RUNNING" /\ Ready(t)
        /\ UNCHANGED <<owner, ctx, dep>>
        /\ evidence'[t] = ResolvedEvidence(t)
        /\ \A u \in Tasks \ {t} :
             status'[u] = status[u] /\ evidence'[u] = evidence[u]
    BY <1>17, <1>a DEF ClaimRun, SetStatus, TypeOK
  <2>6. Claims(t)
    BY <2>2, <2>4, <2>5 DEF Claims
  <2>7. \A u \in Tasks \ {t} : Keeps(u)
    BY <1>a, <2>1, <2>3, <2>5 DEF Keeps, Same, HasRun, Latest
  <2> QED
    BY <2>6, <2>7 DEF Moves
<1>18. ASSUME NEW t \in Tasks, NEW n \in Attempts,
              \/ AgeLease(t, n)
              \/ \E s \in Sessions : HeartbeatRun(s, t, n)
       PROVE  \A u \in Tasks : Moves(u)
  <2>1. PICK x : run' = [run EXCEPT ![t][n].lease = x]
    BY <1>18 DEF AgeLease, HeartbeatRun
  <2>2. UNCHANGED <<taskVars, depVars, attempts>>
    BY <1>18 DEF AgeLease, HeartbeatRun
  <2>3. \A u \in Tasks : HasRun(u) => attempts[u] \in Attempts
    BY <1>a DEF HasRun
  <2> QED
    BY <1>a, <2>1, <2>2, <2>3, LeaseOnly
       DEF taskVars, depVars, Moves, Keeps, Same, Latest
<1>19. ASSUME NEW s \in Sessions, NEW t \in Tasks, NEW n \in Attempts,
              ReportFailure(s, t, n)
       PROVE  \A u \in Tasks : Moves(u)
  <2>1. status[t] = "RUNNING"
    BY <1>19, <1>a, LiveRunIsLatest DEF ReportFailure
  <2>2. Idles(t)
    BY <1>19, <1>a, <2>1 DEF ReportFailure, SetStatus, Idles, Working
  <2>3. ASSUME NEW u \in Tasks \ {t}
        PROVE  Keeps(u)
    <3>1. run'[u] = run[u]
      BY <1>19, <1>a DEF ReportFailure, TypeOK
    <3> QED
      BY <1>19, <1>a, <3>1
         DEF ReportFailure, SetStatus, depVars, Keeps, Same, HasRun, Latest
  <2> QED
    BY <2>2, <2>3 DEF Moves
<1>20. ASSUME NEW s \in Sessions, NEW t \in Tasks, NEW n \in Attempts,
              \/ RequestInvocation(s, t, n)
              \/ \E a \in Artifacts, git \in GitKinds :
                    RegisterArtifact(s, t, n, a, git)
       PROVE  \A u \in Tasks : Moves(u)
  BY <1>20, Untouched
     DEF RequestInvocation, RegisterArtifact, taskVars, depVars, runVars
<1>21. ASSUME NEW s \in Sessions, NEW t \in Tasks, NEW n \in Attempts,
              NEW refs \in SUBSET Artifacts, ReportCompletion(s, t, n, refs)
       PROVE  \A u \in Tasks : Moves(u)
  <2>1. n = attempts[t] /\ status[t] = "RUNNING" /\ HasRun(t)
    BY <1>21, <1>a, LiveRunIsLatest DEF ReportCompletion, HasRun
  <2>2. /\ run' = [run EXCEPT ![t][n].status = "SUCCEEDED"]
        /\ status'[t] = "IN_REVIEW"
        /\ \A u \in Tasks \ {t} : status'[u] = status[u]
        /\ UNCHANGED <<owner, ctx, dep, evidence, attempts>>
    BY <1>21, <1>a DEF ReportCompletion, SetStatus, depVars
  <2>3. \A u \in Tasks : HasRun(u) => attempts[u] \in Attempts
    BY <1>a DEF HasRun
  <2>4. \A u \in Tasks : Same(u)
    BY <1>a, <2>2, <2>3, StatusOnly DEF Same, Latest
  <2>5. \A u \in Tasks : HasRun(u) =>
          run'[u][attempts[u]].status =
            IF u = t THEN "SUCCEEDED" ELSE Latest(u).status
    <3> SUFFICES ASSUME NEW u \in Tasks, HasRun(u)
                 PROVE  run'[u][attempts[u]].status =
                          IF u = t THEN "SUCCEEDED" ELSE Latest(u).status
      OBVIOUS
    <3>1. attempts[u] \in Attempts
      BY <2>3
    <3>2. run' = [run EXCEPT ![t][n].status = "SUCCEEDED"]
      BY <2>2
    <3>3. run'[u][attempts[u]].status =
            IF u = t /\ attempts[u] = n THEN "SUCCEEDED"
                                        ELSE run[u][attempts[u]].status
      <4>1. run'[u][attempts[u]] =
              IF u = t /\ attempts[u] = n
              THEN [run[t][n] EXCEPT !.status = "SUCCEEDED"]
              ELSE run[u][attempts[u]]
        BY <1>a, <3>1, <3>2 DEF TypeOK
      <4>2. run[t][n] \in Run
        BY <1>a DEF TypeOK
      <4>3. [run[t][n] EXCEPT !.status = "SUCCEEDED"].status = "SUCCEEDED"
        BY <4>2 DEF Run
      <4> QED
        BY <4>1, <4>3
    <3> QED
      BY <2>1, <3>3 DEF Latest
  <2>6. Completes(t)
    BY <2>1, <2>2, <2>4, <2>5 DEF Completes
  <2>7. \A u \in Tasks \ {t} : Keeps(u)
    BY <2>2, <2>4, <2>5 DEF Keeps
  <2> QED
    BY <2>6, <2>7 DEF Moves
<1>23. ASSUME StandingStep
       PROVE  \A u \in Tasks : Moves(u)
  BY <1>23, Untouched
     DEF StandingStep, CreateSession, Handshake, LapseSession, EndSession,
         ChangeMember, ChangeAccount, taskVars, depVars, runVars
<1>29. ASSUME NEW t \in Tasks, NEW n \in Attempts, SettleInvocations(t, n)
       PROVE  \A u \in Tasks : Moves(u)
  BY <1>29, Untouched DEF SettleInvocations, taskVars, depVars, runVars
<1>30. ASSUME Reconcile
       PROVE  \A u \in Tasks : Moves(u)
  <2> TAKE u \in Tasks
  <2>1. UNCHANGED <<owner, ctx, dep, attempts>>
    BY <1>30 DEF Reconcile
  <2>2. CASE u \in Lost \/ u \in Waiting
    <3>1. status[u] \in {"RUNNING", "BLOCKED"}
      BY <1>a, <2>2, LostIsRunning DEF Lost, Waiting
    <3>2. status'[u] \in {"READY", "BLOCKED"}
      BY <1>30, <2>2, <3>1 DEF Reconcile, Waiting
    <3> QED
      BY <3>1, <3>2 DEF Moves, Idles, Working
  <2>3. CASE u \notin Lost /\ u \notin Waiting
    <3>1. status'[u] = status[u] /\ evidence'[u] = evidence[u]
      BY <1>30, <2>3 DEF Reconcile
    <3>2. \A n \in Attempts : run'[u][n] = run[u][n]
      BY <1>30, <2>3 DEF Reconcile, Lost
    <3>3. HasRun(u) => attempts[u] \in Attempts
      BY <1>a DEF HasRun
    <3> QED
      BY <2>1, <3>1, <3>2, <3>3 DEF Moves, Keeps, Same, Latest
  <2> QED
    BY <2>2, <2>3
<1>31. CASE UNCHANGED vars
  BY <1>31, Untouched DEF vars, taskVars, depVars, runVars
<1> QED
  BY <1>1, <1>2, <1>3, <1>4, <1>5, <1>7, <1>8, <1>9, <1>10, <1>11, <1>12,
     <1>15, <1>16, <1>17, <1>18, <1>19, <1>20, <1>21, <1>23, <1>29, <1>30,
     <1>31
     DEF Next, HumanStep, AgentStep, EnvironmentStep, Submit, Retry

-----------------------------------------------------------------------------
(***************************************************************************)
(* What a step does to evidence and to Runs that have ended.               *)
(***************************************************************************)
\* Only what is registered is decided.
Undecided ==
  \A a \in Artifacts : art[a].task = None => art[a].acceptance = "PENDING"

\* A decided artifact keeps every field.
ArtifactsKept ==
  \A a \in Artifacts : art[a].acceptance # "PENDING" => art'[a] = art[a]

LEMMA ArtifactsStep ==
  ASSUME TypeOK, Undecided, [Next]_vars
  PROVE  ArtifactsKept /\ Undecided'
<1>a. art \in [Artifacts -> Artifact] /\ None \notin Tasks
  BY DEF TypeOK
<1>1. CASE UNCHANGED art
  BY <1>1 DEF ArtifactsKept, Undecided
<1>2. ASSUME NEW s \in Sessions, NEW t \in Tasks, NEW n \in Attempts,
             NEW a \in Artifacts, NEW git \in GitKinds,
             RegisterArtifact(s, t, n, a, git)
      PROVE  ArtifactsKept /\ Undecided'
  <2>1. art[a].acceptance = "PENDING"
    BY <1>2 DEF RegisterArtifact, Undecided
  <2>2. /\ art'[a].task = t
        /\ \A b \in Artifacts \ {a} : art'[b] = art[b]
    BY <1>2, <1>a DEF RegisterArtifact
  <2> QED
    BY <1>a, <2>1, <2>2 DEF ArtifactsKept, Undecided
<1>3. ASSUME NEW a \in Artifacts, NEW b \in BOOLEAN,
             VerifyArtifact(a, b) \/ ReviewArtifact(a, b)
      PROVE  ArtifactsKept /\ Undecided'
  <2>1. art[a].acceptance = "PENDING" /\ art[a].task # None
    BY <1>3 DEF VerifyArtifact, ReviewArtifact, Reviewable
  <2>2. /\ art'[a].task = art[a].task
        /\ \A c \in Artifacts \ {a} : art'[c] = art[c]
    BY <1>3, <1>a DEF VerifyArtifact, ReviewArtifact, Artifact
  <2> QED
    BY <1>a, <2>1, <2>2 DEF ArtifactsKept, Undecided
<1>4. ASSUME NEW t \in Tasks, NEW refs \in SUBSET Artifacts,
             AcceptTask(t, refs)
      PROVE  ArtifactsKept /\ Undecided'
  <2>1. \A a \in Artifacts :
          art'[a] = IF a \in refs
                    THEN [art[a] EXCEPT !.acceptance = "ACCEPTED"] ELSE art[a]
    BY <1>4 DEF AcceptTask
  <2>2. \A a \in refs : /\ art[a].task = t
                         /\ art[a].acceptance \in {"PENDING", "ACCEPTED"}
    BY <1>4 DEF AcceptTask, Reviewed
  <2>3. \A r \in Artifact :
          /\ [r EXCEPT !.acceptance = "ACCEPTED"].task = r.task
          /\ r.acceptance = "ACCEPTED" =>
               [r EXCEPT !.acceptance = "ACCEPTED"] = r
    BY DEF Artifact
  <2>4. ArtifactsKept
    BY <1>a, <2>1, <2>2, <2>3 DEF ArtifactsKept
  <2>5. \A a \in Artifacts : art'[a].task = art[a].task
    BY <1>a, <2>1, <2>3
  <2>6. \A a \in refs : art'[a].task # None
    BY <1>a, <2>2, <2>5
  <2>7. Undecided'
    BY <2>1, <2>5, <2>6 DEF Undecided
  <2> QED
    BY <2>4, <2>7
<1>5. CASE HumanStep
  BY <1>1, <1>3, <1>4, <1>5
     DEF HumanStep, CreateTask, AssignTask, AddDependency, RemoveDependency,
         Submit, Retry, Authorize, Cancel, Archive, Restore, EditTask,
         TransferTask, PublishVersion, ReturnTask
<1>6. CASE AgentStep
  <2>1. ASSUME NEW s \in Sessions, NEW t \in Tasks,
               \/ ClaimRun(s, t)
               \/ \E n \in Attempts :
                    \/ HeartbeatRun(s, t, n) \/ ReportFailure(s, t, n)
                    \/ RequestInvocation(s, t, n)
                    \/ \E refs \in SUBSET Artifacts :
                          ReportCompletion(s, t, n, refs)
        PROVE  UNCHANGED art
    BY <2>1 DEF ClaimRun, HeartbeatRun, ReportFailure, RequestInvocation,
                ReportCompletion
  <2> QED
    BY <1>1, <1>2, <1>6, <2>1 DEF AgentStep
<1>7. CASE StandingStep \/ EnvironmentStep \/ Reconcile \/ UNCHANGED vars
  BY <1>1, <1>7
     DEF StandingStep, EnvironmentStep, CreateSession, Handshake,
         LapseSession, EndSession, ChangeMember, ChangeAccount, AgeLease,
         SettleInvocations, Reconcile,
         vars
<1> QED
  BY <1>5, <1>6, <1>7 DEF Next

\* A Run that has ended keeps every field.
RunsKept ==
  \A t \in Tasks, n \in Attempts :
    run[t][n].status \notin {"NONE", "RUNNING"} => run'[t][n] = run[t][n]

LEMMA RunsStep ==
  ASSUME TypeOK, RunTaskAgreement, [Next]_vars
  PROVE  RunsKept
<1>a. run \in [Tasks -> [Attempts -> Run]]
      /\ attempts \in [Tasks -> 0 .. MaxAttempts]
  BY DEF TypeOK
<1>1. CASE UNCHANGED run
  BY <1>1 DEF RunsKept
<1>3. ASSUME NEW t \in Tasks, Cancel(t)
      PROVE  RunsKept
  <2>1. CASE HasRun(t) /\ Latest(t).status = "RUNNING"
    <3>1. attempts[t] \in Attempts
      BY <1>a, <2>1 DEF HasRun
    <3>2. EndRun(t, "CANCELED")
      BY <1>3, <2>1 DEF Cancel
    <3>3. \A u \in Tasks, m \in Attempts :
            ~(u = t /\ m = attempts[t]) => run'[u][m] = run[u][m]
      BY <1>a, <3>1, <3>2 DEF EndRun
    <3> QED
      BY <2>1, <3>3 DEF Latest, RunsKept
  <2>2. CASE ~(HasRun(t) /\ Latest(t).status = "RUNNING")
    BY <1>1, <1>3, <2>2 DEF Cancel
  <2> QED
    BY <2>1, <2>2
<1>4. ASSUME NEW s \in Sessions, NEW t \in Tasks, ClaimRun(s, t)
      PROVE  RunsKept
  <2>1. attempts[t] + 1 \in Attempts
    BY <1>4, <1>a DEF ClaimRun
  <2>2. run[t][attempts[t] + 1].status = "NONE"
    BY <1>a, <2>1 DEF RunTaskAgreement
  <2>3. \A u \in Tasks, m \in Attempts :
          ~(u = t /\ m = attempts[t] + 1) => run'[u][m] = run[u][m]
    BY <1>4, <1>a DEF ClaimRun
  <2> QED
    BY <2>2, <2>3 DEF RunsKept
<1>5. ASSUME NEW t \in Tasks, NEW n \in Attempts, AgeLease(t, n)
      PROVE  RunsKept
  <2>1. run[t][n].status = "RUNNING"
    BY <1>5 DEF AgeLease
  <2>2. \A u \in Tasks, m \in Attempts :
          ~(u = t /\ m = n) => run'[u][m] = run[u][m]
    BY <1>5, <1>a DEF AgeLease
  <2> QED
    BY <2>1, <2>2 DEF RunsKept
<1>6. ASSUME NEW s \in Sessions, NEW t \in Tasks, NEW n \in Attempts,
             \/ HeartbeatRun(s, t, n) \/ ReportFailure(s, t, n)
             \/ \E refs \in SUBSET Artifacts : ReportCompletion(s, t, n, refs)
      PROVE  RunsKept
  <2>1. run[t][n].status = "RUNNING"
    BY <1>6 DEF HeartbeatRun, ReportFailure, ReportCompletion, LiveRun
  <2>2. \A u \in Tasks, m \in Attempts :
          ~(u = t /\ m = n) => run'[u][m] = run[u][m]
    BY <1>6, <1>a DEF HeartbeatRun, ReportFailure, ReportCompletion
  <2> QED
    BY <2>1, <2>2 DEF RunsKept
<1>7. CASE Reconcile
  BY <1>7 DEF Reconcile, AuthorityLost, RunsKept
<1>8. CASE HumanStep
  BY <1>1, <1>3, <1>8
     DEF HumanStep, CreateTask, AssignTask, AddDependency, RemoveDependency,
         Submit, Retry, Authorize, Archive, Restore, EditTask, TransferTask,
         PublishVersion, VerifyArtifact, ReviewArtifact, AcceptTask,
         ReturnTask, runVars
<1>9. CASE AgentStep
  BY <1>1, <1>4, <1>6, <1>9
     DEF AgentStep, RequestInvocation, RegisterArtifact, runVars
<1>10. CASE StandingStep \/ EnvironmentStep \/ UNCHANGED vars
  BY <1>1, <1>5, <1>10
     DEF StandingStep, EnvironmentStep, CreateSession, Handshake,
         LapseSession, EndSession, ChangeMember, ChangeAccount,
         SettleInvocations, vars, runVars
<1> QED
  BY <1>7, <1>8, <1>9, <1>10 DEF Next

\* Versions stay published.
LEMMA PublishedStep ==
  ASSUME [Next]_vars
  PROVE  published \subseteq published'
<1>1. CASE HumanStep
  BY <1>1
     DEF HumanStep, CreateTask, AssignTask, AddDependency, RemoveDependency,
         Submit, Retry, Authorize, Cancel, Archive, Restore, EditTask,
         TransferTask, PublishVersion, VerifyArtifact, ReviewArtifact,
         AcceptTask, ReturnTask
<1>2. CASE AgentStep
  <2>1. ASSUME NEW s \in Sessions, NEW t \in Tasks,
               \/ ClaimRun(s, t)
               \/ \E n \in Attempts :
                    \/ HeartbeatRun(s, t, n) \/ ReportFailure(s, t, n)
                    \/ RequestInvocation(s, t, n)
                    \/ \E refs \in SUBSET Artifacts :
                          ReportCompletion(s, t, n, refs)
                    \/ \E a \in Artifacts, git \in GitKinds :
                          RegisterArtifact(s, t, n, a, git)
        PROVE  UNCHANGED published
    BY <2>1 DEF ClaimRun, HeartbeatRun, ReportFailure, RequestInvocation,
                ReportCompletion, RegisterArtifact
  <2> QED
    BY <1>2, <2>1 DEF AgentStep
<1>3. CASE StandingStep \/ EnvironmentStep \/ Reconcile \/ UNCHANGED vars
  BY <1>3
     DEF StandingStep, EnvironmentStep, CreateSession, Handshake,
         LapseSession, EndSession, ChangeMember, ChangeAccount, AgeLease,
         SettleInvocations, Reconcile,
         vars
<1> QED
  BY <1>1, <1>2, <1>3 DEF Next

-----------------------------------------------------------------------------
(***************************************************************************)
(* What the work of a task rests on.                                       *)
(***************************************************************************)
LEMMA DoneOnEvidenceStep ==
  ASSUME TypeOK, DoneOnEvidence, ArtifactsKept, \A u \in Tasks : Moves(u)
  PROVE  DoneOnEvidence'
<1> SUFFICES ASSUME NEW t \in Tasks
             PROVE
    /\ status'[t] \in {"IN_REVIEW", "DONE"} =>
         attempts'[t] > 0 /\ run'[t][attempts'[t]].status = "SUCCEEDED"
    /\ status'[t] = "DONE" =>
         \E a \in Artifacts :
           /\ art'[a].task = t /\ art'[a].attempt = attempts'[t]
           /\ art'[a].verification = "VERIFIED"
           /\ art'[a].acceptance = "ACCEPTED"
  BY DEF DoneOnEvidence, HasRun, Latest, Accepted
<1>1. Moves(t)
  OBVIOUS
<1>2. CASE Keeps(t)
  <2>1. status[t] = "DONE" =>
          \E a \in Artifacts : /\ art'[a] = art[a] /\ art[a].task = t
                              /\ art[a].attempt = attempts[t] /\ Accepted(a)
    BY DEF DoneOnEvidence, ArtifactsKept, Accepted
  <2> QED
    BY <1>2, <2>1
       DEF Keeps, Same, DoneOnEvidence, HasRun, Latest, Accepted
<1>3. CASE Idles(t) \/ Claims(t)
  BY <1>3 DEF Idles, Claims, Working
<1>4. CASE Completes(t)
  BY <1>4 DEF Completes, Same, HasRun
<1>5. CASE Accepts(t)
  BY <1>5 DEF Accepts, Same, HasRun
<1> QED
  BY <1>1, <1>2, <1>3, <1>4, <1>5 DEF Moves

LEMMA FrozenInputsStep ==
  ASSUME FrozenInputs, published \subseteq published',
         \A u \in Tasks : Moves(u)
  PROVE  FrozenInputs'
<1> SUFFICES ASSUME NEW t \in Tasks, status'[t] \in Working
             PROVE  /\ attempts'[t] > 0
                    /\ run'[t][attempts'[t]].owner = owner'[t]
                    /\ run'[t][attempts'[t]].input = ctx'[t]
                    /\ ctx'[t] \in published'
                    /\ run'[t][attempts'[t]].evidence =
                         {evidence'[t][p] : p \in Tasks} \ {None}
  BY DEF FrozenInputs, HasRun, Latest, Working
<1>1. Moves(t)
  OBVIOUS
<1>2. CASE Same(t) /\ status[t] \in Working
  <2>1. /\ attempts[t] > 0 /\ HasRun(t)
        /\ Latest(t).owner = owner[t]
        /\ Latest(t).input = ctx[t] /\ ctx[t] \in published
        /\ Latest(t).evidence = {evidence[t][p] : p \in Tasks} \ {None}
    BY <1>2 DEF FrozenInputs, HasRun, Working
  <2>2. {evidence'[t][p] : p \in Tasks} = {evidence[t][p] : p \in Tasks}
    BY <1>2 DEF Same
  <2> QED
    BY <1>2, <2>1, <2>2 DEF Same
<1>3. CASE Idles(t)
  BY <1>3 DEF Idles
<1>4. CASE Claims(t)
  BY <1>4 DEF Claims, Ready, TaskReady
<1> QED
  BY <1>1, <1>2, <1>3, <1>4 DEF Moves, Keeps, Completes, Accepts, Working

\* What is done stays done, and what is accepted stays as it is.
LEMMA DependenciesStep ==
  ASSUME TypeOK, DependenciesHold, ArtifactsKept, \A u \in Tasks : Moves(u)
  PROVE  DependenciesHold'
<1> SUFFICES ASSUME NEW t \in Tasks, status'[t] \in Working, NEW p \in Tasks
             PROVE  Satisfied(dep[t][p], p, evidence[t][p])'
  BY DEF DependenciesHold, Working
<1>1. Moves(t)
  OBVIOUS
<1>2. status[p] = "DONE" => status'[p] = "DONE"
  BY DEF Moves, Keeps, Idles, Claims, Completes, Accepts
<1>3. \A a \in Artifacts : Accepted(a) => art'[a] = art[a]
  BY DEF Accepted, ArtifactsKept
<1>4. ASSUME NEW a \in Artifacts \cup {None}, Satisfied(dep[t][p], p, a),
             dep'[t][p] = dep[t][p], evidence'[t][p] = a
      PROVE  Satisfied(dep[t][p], p, evidence[t][p])'
  <2>1. a # None /\ Accepted(a) =>
          /\ art'[a].task = art[a].task
          /\ art'[a].verification = "VERIFIED"
          /\ art'[a].acceptance = "ACCEPTED"
    BY <1>3 DEF Accepted
  <2> QED
    BY <1>2, <1>4, <2>1 DEF Satisfied, Accepted
<1>5. evidence[t] \in [Tasks -> Artifacts \cup {None}]
  BY DEF TypeOK
<1>6. CASE Same(t) /\ status[t] \in Working
  <2>1. Satisfied(dep[t][p], p, evidence[t][p])
    BY <1>6 DEF DependenciesHold, Working
  <2>2. dep'[t][p] = dep[t][p] /\ evidence'[t][p] = evidence[t][p]
    BY <1>6 DEF Same
  <2>3. evidence[t][p] \in Artifacts \cup {None}
    BY <1>5
  <2> QED
    BY <1>4, <2>1, <2>2, <2>3
<1>7. CASE Idles(t)
  BY <1>7 DEF Idles
<1>8. CASE Claims(t)
  <2>1. Satisfied(dep[t][p], p, ResolvedEvidence(t)[p])
    BY <1>8 DEF Claims, Ready, TaskReady, ResolvedEvidence
  <2>2. ResolvedEvidence(t)[p] \in Artifacts \cup {None}
    BY <1>5, ResolveType DEF ResolvedEvidence
  <2>3. dep'[t][p] = dep[t][p] /\ evidence'[t][p] = ResolvedEvidence(t)[p]
    BY <1>8 DEF Claims
  <2> QED
    BY <1>4, <2>1, <2>2, <2>3
<1> QED
  BY <1>1, <1>6, <1>7, <1>8 DEF Moves, Keeps, Completes, Accepts, Working

-----------------------------------------------------------------------------
(***************************************************************************)
(* Announcements, evidence taken, and writes without authority.            *)
(***************************************************************************)
\* Every command that leaves the task CANCELED says so, and no other does.
LEMMA AnnouncedStep ==
  ASSUME TypeOK, CanceledAnnounced, [Next]_vars, \A u \in Tasks : Moves(u)
  PROVE  CanceledAnnounced'
<1>a. /\ cancelEvents \in [Tasks -> 0 .. MaxCancelEvents]
      /\ status \in [Tasks -> Statuses]
  BY DEF TypeOK
<1>b. \A u \in Tasks : status[u] = "CANCELED" => status'[u] = "CANCELED"
  BY DEF Moves, Keeps, Idles, Claims, Completes, Accepts
<1>1. ASSUME UNCHANGED cancelEvents,
             \A u \in Tasks : status'[u] = status[u] \/ status'[u] # "CANCELED"
      PROVE  CanceledAnnounced'
  BY <1>b, <1>1 DEF CanceledAnnounced
<1>2. ASSUME NEW t \in Tasks, EmitCanceled(t), status'[t] = "CANCELED",
             \A u \in Tasks \ {t} : status'[u] = status[u]
      PROVE  CanceledAnnounced'
  BY <1>a, <1>2 DEF EmitCanceled, CanceledAnnounced
<1>3. ASSUME NEW t \in Tasks, Cancel(t) \/ Archive(t) \/ Restore(t)
      PROVE  CanceledAnnounced'
  <2>1. CASE Cancel(t)
    BY <1>a, <1>2, <2>1 DEF Cancel, SetStatus
  <2>2. CASE (Archive(t) \/ Restore(t)) /\ status[t] = "CANCELED"
    BY <1>2, <2>2 DEF Archive, Restore
  <2>3. CASE (Archive(t) \/ Restore(t)) /\ status[t] # "CANCELED"
    BY <1>1, <2>3 DEF Archive, Restore
  <2> QED
    BY <1>3, <2>1, <2>2, <2>3
<1>4. ASSUME NEW t \in Tasks, NEW s, SetStatus(t, s), s # "CANCELED",
             UNCHANGED cancelEvents
      PROVE  CanceledAnnounced'
  <2>1. \A u \in Tasks : status'[u] = status[u] \/ status'[u] = s
    BY <1>a, <1>4 DEF SetStatus
  <2> QED
    BY <1>1, <1>4, <2>1
<1>5. CASE UNCHANGED <<status, cancelEvents>>
  BY <1>1, <1>5
<1>6. ASSUME NEW t \in Tasks,
             \/ \E h \in Humans, v \in Versions : CreateTask(t, h, v)
             \/ \E v \in Versions : EditTask(t, v)
             \/ \E h \in Humans : TransferTask(t, h)
      PROVE  CanceledAnnounced'
  <2>1. SetStatus(t, "DRAFT") /\ UNCHANGED cancelEvents
    BY <1>6 DEF CreateTask, EditTask, TransferTask
  <2> QED
    BY <1>4, <2>1
<1>7. ASSUME NEW t \in Tasks, NEW p \in Tasks, NEW c \in Conditions \ {"NONE"},
             AddDependency(t, p, c)
      PROVE  CanceledAnnounced'
  <2>1. /\ UNCHANGED cancelEvents
        /\ UNCHANGED status \/ SetStatus(t, "READY") \/ SetStatus(t, "BLOCKED")
    BY <1>7 DEF AddDependency
  <2> QED
    BY <1>4, <1>5, <2>1
<1>8. ASSUME NEW t \in Tasks, NEW retry, Authorize(t, retry)
      PROVE  CanceledAnnounced'
  <2>1. /\ UNCHANGED cancelEvents
        /\ SetStatus(t, "READY") \/ SetStatus(t, "BLOCKED")
    BY <1>8 DEF Authorize
  <2> QED
    BY <1>4, <2>1
<1>9. ASSUME NEW t \in Tasks, NEW refs \in SUBSET Artifacts,
             AcceptTask(t, refs) \/ ReturnTask(t, refs)
      PROVE  CanceledAnnounced'
  <2>1. /\ UNCHANGED cancelEvents
        /\ SetStatus(t, "DONE") \/ SetStatus(t, "BLOCKED")
    BY <1>9 DEF AcceptTask, ReturnTask
  <2> QED
    BY <1>4, <2>1
<1>10. CASE \/ \E t \in Tasks, a \in Agents \cup {General} : AssignTask(t, a)
            \/ \E t, p \in Tasks : RemoveDependency(t, p)
            \/ \E v \in Versions : PublishVersion(v)
            \/ \E a \in Artifacts, b \in BOOLEAN :
                  VerifyArtifact(a, b) \/ ReviewArtifact(a, b)
  BY <1>5, <1>10
     DEF AssignTask, RemoveDependency, PublishVersion, VerifyArtifact,
         ReviewArtifact, taskVars
<1>11. ASSUME NEW s \in Sessions, NEW t \in Tasks, ClaimRun(s, t)
       PROVE  CanceledAnnounced'
  BY <1>4, <1>11 DEF ClaimRun
<1>12. ASSUME NEW s \in Sessions, NEW t \in Tasks, NEW n \in Attempts,
              \/ ReportFailure(s, t, n)
              \/ \E refs \in SUBSET Artifacts : ReportCompletion(s, t, n, refs)
       PROVE  CanceledAnnounced'
  <2>1. /\ UNCHANGED cancelEvents
        /\ SetStatus(t, "BLOCKED") \/ SetStatus(t, "IN_REVIEW")
    BY <1>12 DEF ReportFailure, ReportCompletion
  <2> QED
    BY <1>4, <2>1
<1>13. ASSUME NEW s \in Sessions, NEW t \in Tasks, NEW n \in Attempts,
              \/ HeartbeatRun(s, t, n) \/ RequestInvocation(s, t, n)
              \/ \E a \in Artifacts, git \in GitKinds :
                   RegisterArtifact(s, t, n, a, git)
       PROVE  CanceledAnnounced'
  BY <1>5, <1>13
     DEF HeartbeatRun, RequestInvocation, RegisterArtifact, taskVars
<1>14. CASE StandingStep \/ EnvironmentStep \/ UNCHANGED vars
  BY <1>5, <1>14
     DEF StandingStep, EnvironmentStep, CreateSession, Handshake,
         LapseSession, EndSession, ChangeMember, ChangeAccount, AgeLease,
         SettleInvocations, vars,
         taskVars
<1>15. CASE Reconcile
  BY <1>1, <1>15 DEF Reconcile
<1> QED
  BY <1>3, <1>6, <1>7, <1>8, <1>9, <1>10, <1>11, <1>12, <1>13, <1>14, <1>15
     DEF Next, HumanStep, AgentStep, Submit, Retry

\* A reference that was taken stays while its condition does.
LEMMA EvidenceStep ==
  ASSUME TypeOK, [Next]_vars, NEW t \in Tasks, NEW p \in Tasks,
         evidence[t][p] # None, dep'[t][p] = dep[t][p]
  PROVE  evidence'[t][p] = evidence[t][p]
<1>a. /\ evidence \in [Tasks -> [Tasks -> Artifacts \cup {None}]]
      /\ dep \in [Tasks -> [Tasks -> Conditions]]
  BY DEF TypeOK
<1>b. \A d : Resolve(d, evidence[t])[p] = evidence[t][p]
  BY DEF Resolve
<1>1. CASE UNCHANGED evidence
  BY <1>1
<1>2. ASSUME NEW u \in Tasks, NEW d,
             evidence' = [evidence EXCEPT ![u] = Resolve(d, evidence[u])]
      PROVE  evidence'[t][p] = evidence[t][p]
  BY <1>a, <1>b, <1>2
<1>3. ASSUME NEW u \in Tasks, NEW q \in Tasks, NEW c \in Conditions \ {"NONE"},
             AddDependency(u, q, c)
      PROVE  evidence'[t][p] = evidence[t][p]
  <2>1. \/ UNCHANGED evidence
        \/ evidence' = [evidence EXCEPT
              ![u] = Resolve([dep[u] EXCEPT ![q] = c], evidence[u])]
    BY <1>3 DEF AddDependency
  <2> QED
    BY <1>1, <1>2, <2>1
<1>4. ASSUME NEW u \in Tasks, NEW q \in Tasks, RemoveDependency(u, q)
      PROVE  evidence'[t][p] = evidence[t][p]
  <2>1. ~(u = t /\ q = p)
    BY <1>a, <1>4 DEF RemoveDependency
  <2> QED
    BY <1>a, <1>4, <2>1 DEF RemoveDependency
<1>5. ASSUME NEW u \in Tasks,
             \/ \E retry \in BOOLEAN : Authorize(u, retry)
             \/ \E s \in Sessions : ClaimRun(s, u)
      PROVE  evidence'[t][p] = evidence[t][p]
  BY <1>2, <1>5 DEF Authorize, ClaimRun, ResolvedEvidence
<1>6. CASE Reconcile
  BY <1>b, <1>6 DEF Reconcile, ResolvedEvidence
<1>7. CASE HumanStep
  <2>1. ASSUME \/ \E u \in Tasks, h \in Humans, v \in Versions :
                    CreateTask(u, h, v)
               \/ \E u \in Tasks, h \in Humans : TransferTask(u, h)
               \/ \E u \in Tasks, v \in Versions : EditTask(u, v)
               \/ \E u \in Tasks, a \in Agents \cup {General} :
                    AssignTask(u, a)
               \/ \E u \in Tasks : Cancel(u) \/ Archive(u) \/ Restore(u)
        PROVE  UNCHANGED evidence
    BY <2>1 DEF CreateTask, TransferTask, EditTask, AssignTask, Cancel,
                Archive, Restore, depVars
  <2>2. ASSUME \/ \E v \in Versions : PublishVersion(v)
               \/ \E a \in Artifacts, b \in BOOLEAN :
                    VerifyArtifact(a, b) \/ ReviewArtifact(a, b)
               \/ \E u \in Tasks, refs \in SUBSET Artifacts :
                    AcceptTask(u, refs) \/ ReturnTask(u, refs)
        PROVE  UNCHANGED evidence
    BY <2>2 DEF PublishVersion, VerifyArtifact, ReviewArtifact, AcceptTask,
                ReturnTask, depVars
  <2> QED
    BY <1>1, <1>3, <1>4, <1>5, <1>7, <2>1, <2>2
       DEF HumanStep, Submit, Retry
<1>8. CASE AgentStep
  <2>1. ASSUME NEW s \in Sessions, NEW u \in Tasks, NEW n \in Attempts,
               \/ HeartbeatRun(s, u, n) \/ ReportFailure(s, u, n)
               \/ RequestInvocation(s, u, n)
               \/ \E refs \in SUBSET Artifacts : ReportCompletion(s, u, n, refs)
               \/ \E a \in Artifacts, git \in GitKinds :
                    RegisterArtifact(s, u, n, a, git)
        PROVE  UNCHANGED evidence
    BY <2>1 DEF HeartbeatRun, ReportFailure, RequestInvocation,
                ReportCompletion, RegisterArtifact, depVars
  <2> QED
    BY <1>1, <1>5, <1>8, <2>1 DEF AgentStep
<1>9. CASE StandingStep \/ EnvironmentStep \/ UNCHANGED vars
  BY <1>1, <1>9
     DEF StandingStep, EnvironmentStep, CreateSession, Handshake,
         LapseSession, EndSession, ChangeMember, ChangeAccount, AgeLease,
         SettleInvocations, vars,
         depVars
<1> QED
  BY <1>6, <1>7, <1>8, <1>9 DEF Next

\* The checks of the request path are no more
\* lenient than what is recorded, nor than the clock furthest behind.
LEMMA LostIsDead ==
  ASSUME TypeOK, NEW t \in Tasks, NEW n \in Attempts, LostForGood(t, n),
         NEW s \in Sessions
  PROVE  ~LiveRun(s, t, n)
<1>1. run[t][n].lease \in Int /\ -ClockSkew \in Int
  BY ConstantsAssumption DEF TypeOK, Run
<1> QED
  BY <1>1 DEF LostForGood, StandingLost, LiveRun, SessionMayWrite

\* The next scan, by the database's clock, closes such a Run.
LEMMA LostIsClosed ==
  ASSUME TypeOK, NEW t \in Tasks, NEW n \in Attempts, LostForGood(t, n)
  PROVE  AuthorityLost(t, n)
<1>1. run[t][n].lease \in Int /\ -ClockSkew \in Int /\ -ClockSkew <= 0
  BY ConstantsAssumption DEF TypeOK, Run
<1> QED
  BY <1>1 DEF LostForGood, AuthorityLost

\* The Run itself is only cancelled, closed, or left to age.
LEMMA LostRunStep ==
  ASSUME TypeOK, RunTaskAgreement, [Next]_vars,
         NEW t \in Tasks, NEW n \in Attempts, LostForGood(t, n)
  PROVE  /\ run'[t][n].status \in {"RUNNING", "CANCELED", "LOST"}
         /\ run'[t][n].lease <= run[t][n].lease
<1> DEFINE Goal == /\ run'[t][n].status \in {"RUNNING", "CANCELED", "LOST"}
                   /\ run'[t][n].lease <= run[t][n].lease
<1>a. run \in [Tasks -> [Attempts -> Run]]
      /\ attempts \in [Tasks -> 0 .. MaxAttempts]
  BY DEF TypeOK
<1>b. /\ run[t][n] \in Run /\ run[t][n].status = "RUNNING"
      /\ run[t][n].lease \in Int
  BY <1>a, ConstantsAssumption DEF LostForGood, Run
<1>1. ASSUME run'[t][n] = run[t][n]
      PROVE  Goal
  BY <1>b, <1>1
<1>2. ASSUME NEW u \in Tasks, Cancel(u)
      PROVE  Goal
  <2>1. CASE HasRun(u) /\ Latest(u).status = "RUNNING"
    <3>1. attempts[u] \in Attempts
      BY <1>a, <2>1 DEF HasRun
    <3>2. run' = [run EXCEPT ![u][attempts[u]].status = "CANCELED"]
      BY <1>2, <2>1 DEF Cancel, EndRun
    <3>3. run'[t][n] = run[t][n]
          \/ run'[t][n] = [run[t][n] EXCEPT !.status = "CANCELED"]
      BY <1>a, <3>1, <3>2
    <3>4. /\ [run[t][n] EXCEPT !.status = "CANCELED"].status = "CANCELED"
          /\ [run[t][n] EXCEPT !.status = "CANCELED"].lease = run[t][n].lease
      BY <1>b DEF Run
    <3>5. CASE run'[t][n] = [run[t][n] EXCEPT !.status = "CANCELED"]
      <4>1. run'[t][n].status = "CANCELED"
            /\ run'[t][n].lease = run[t][n].lease
        BY <3>4, <3>5
      <4> QED
        BY <1>b, <4>1
    <3> QED
      BY <1>1, <3>3, <3>5
  <2>2. CASE ~(HasRun(u) /\ Latest(u).status = "RUNNING")
    BY <1>1, <1>2, <2>2 DEF Cancel
  <2> QED
    BY <2>1, <2>2
<1>3. ASSUME NEW s \in Sessions, NEW u \in Tasks, ClaimRun(s, u)
      PROVE  Goal
  <2>1. attempts[u] + 1 \in Attempts /\ attempts[u] + 1 > attempts[u]
    BY <1>3, <1>a DEF ClaimRun
  <2>2. run[u][attempts[u] + 1].status = "NONE"
    BY <2>1 DEF RunTaskAgreement
  <2>3. ~(u = t /\ n = attempts[u] + 1)
    BY <1>b, <2>2
  <2>4. run'[t][n] = run[t][n]
    BY <1>3, <1>a, <2>3 DEF ClaimRun
  <2> QED
    BY <1>1, <2>4
<1>4. ASSUME NEW u \in Tasks, NEW m \in Attempts, AgeLease(u, m)
      PROVE  Goal
  <2>1. CASE u = t /\ m = n
    <3>1. run'[t][n] = [run[t][n] EXCEPT !.lease = @ - 1]
      BY <1>4, <1>a, <2>1 DEF AgeLease
    <3>2. /\ run'[t][n].status = run[t][n].status
          /\ run'[t][n].lease = run[t][n].lease - 1
      BY <1>b, <3>1 DEF Run
    <3> QED
      BY <1>b, <3>2
  <2>2. CASE ~(u = t /\ m = n)
    BY <1>1, <1>4, <1>a, <2>2 DEF AgeLease
  <2> QED
    BY <2>1, <2>2
<1>5. ASSUME NEW s \in Sessions, NEW u \in Tasks, NEW m \in Attempts,
             \/ HeartbeatRun(s, u, m) \/ ReportFailure(s, u, m)
             \/ \E refs \in SUBSET Artifacts : ReportCompletion(s, u, m, refs)
      PROVE  Goal
  <2>1. ~(u = t /\ m = n)
    BY <1>5, LostIsDead DEF HeartbeatRun, ReportFailure, ReportCompletion
  <2> QED
    BY <1>1, <1>5, <1>a, <2>1
       DEF HeartbeatRun, ReportFailure, ReportCompletion
<1>6. CASE Reconcile
  <2>1. run'[t][n] = [run[t][n] EXCEPT !.status = "LOST"]
    BY <1>6, LostIsClosed DEF Reconcile
  <2>2. run'[t][n].status = "LOST" /\ run'[t][n].lease = run[t][n].lease
    BY <1>b, <2>1 DEF Run
  <2> QED
    BY <1>b, <2>2
<1>7. CASE HumanStep
  BY <1>1, <1>2, <1>7
     DEF HumanStep, CreateTask, AssignTask, AddDependency, RemoveDependency,
         Submit, Retry, Authorize, Archive, Restore, EditTask, TransferTask,
         PublishVersion, VerifyArtifact, ReviewArtifact, AcceptTask,
         ReturnTask, runVars
<1>8. CASE AgentStep
  BY <1>1, <1>3, <1>5, <1>8
     DEF AgentStep, RequestInvocation, RegisterArtifact, runVars
<1>9. CASE StandingStep \/ EnvironmentStep \/ UNCHANGED vars
  BY <1>1, <1>4, <1>9
     DEF StandingStep, EnvironmentStep, CreateSession, Handshake,
         LapseSession, EndSession, ChangeMember, ChangeAccount,
         SettleInvocations, vars, runVars
<1> QED
  BY <1>6, <1>7, <1>8, <1>9 DEF Next

\* Nothing is registered in it, and no operation requested.
LEMMA LostEvidenceStep ==
  ASSUME TypeOK, [Next]_vars,
         NEW t \in Tasks, NEW n \in Attempts, LostForGood(t, n)
  PROVE  /\ \A a \in Artifacts :
              art'[a].task = t /\ art'[a].attempt = n => art[a].task = t
         /\ <<t, n>> \in unsettled' => <<t, n>> \in unsettled
<1> DEFINE Goal ==
             /\ \A a \in Artifacts :
                  art'[a].task = t /\ art'[a].attempt = n => art[a].task = t
             /\ <<t, n>> \in unsettled' => <<t, n>> \in unsettled
<1>a. art \in [Artifacts -> Artifact]
  BY DEF TypeOK
<1>1. ASSUME \A a \in Artifacts : art'[a].task = art[a].task,
             unsettled' \subseteq unsettled
      PROVE  Goal
  BY <1>1
<1>2. CASE UNCHANGED <<art, unsettled>>
  BY <1>1, <1>2
<1>3. ASSUME NEW s \in Sessions, NEW u \in Tasks, NEW m \in Attempts,
             NEW a \in Artifacts, NEW git \in GitKinds,
             RegisterArtifact(s, u, m, a, git)
      PROVE  Goal
  <2>1. ~(u = t /\ m = n)
    BY <1>3, LostIsDead DEF RegisterArtifact
  <2>2. /\ art'[a].task = u /\ art'[a].attempt = m
        /\ \A b \in Artifacts \ {a} : art'[b] = art[b]
        /\ UNCHANGED unsettled
    BY <1>3, <1>a DEF RegisterArtifact
  <2> QED
    BY <2>1, <2>2
<1>4. ASSUME NEW s \in Sessions, NEW u \in Tasks, NEW m \in Attempts,
             RequestInvocation(s, u, m)
      PROVE  Goal
  <2>1. ~(u = t /\ m = n)
    BY <1>4, LostIsDead DEF RequestInvocation
  <2>2. <<t, n>> # <<u, m>>
    BY <2>1
  <2> QED
    BY <1>4, <2>2 DEF RequestInvocation
<1>5. ASSUME NEW u \in Tasks, NEW m \in Attempts, SettleInvocations(u, m)
      PROVE  Goal
  BY <1>1, <1>5 DEF SettleInvocations
<1>6. ASSUME NEW a \in Artifacts, NEW b \in BOOLEAN,
             VerifyArtifact(a, b) \/ ReviewArtifact(a, b)
      PROVE  Goal
  <2>1. UNCHANGED unsettled
    BY <1>6 DEF VerifyArtifact, ReviewArtifact
  <2>2. \A c \in Artifacts : art'[c].task = art[c].task
    BY <1>6, <1>a DEF VerifyArtifact, ReviewArtifact, Artifact
  <2> QED
    BY <1>1, <2>1, <2>2
<1>7. ASSUME NEW u \in Tasks, NEW refs \in SUBSET Artifacts,
             AcceptTask(u, refs)
      PROVE  Goal
  <2>1. UNCHANGED unsettled
    BY <1>7 DEF AcceptTask
  <2>2. \A c \in Artifacts : art'[c].task = art[c].task
    BY <1>7, <1>a DEF AcceptTask, Artifact
  <2> QED
    BY <1>1, <2>1, <2>2
<1>8. CASE HumanStep
  BY <1>2, <1>6, <1>7, <1>8
     DEF HumanStep, CreateTask, AssignTask, AddDependency, RemoveDependency,
         Submit, Retry, Authorize, Cancel, Archive, Restore, EditTask,
         TransferTask, PublishVersion, ReturnTask
<1>9. CASE AgentStep
  <2>1. ASSUME NEW s \in Sessions, NEW u \in Tasks,
               \/ ClaimRun(s, u)
               \/ \E m \in Attempts :
                    \/ HeartbeatRun(s, u, m) \/ ReportFailure(s, u, m)
                    \/ \E refs \in SUBSET Artifacts :
                          ReportCompletion(s, u, m, refs)
        PROVE  UNCHANGED <<art, unsettled>>
    BY <2>1 DEF ClaimRun, HeartbeatRun, ReportFailure, ReportCompletion
  <2> QED
    BY <1>2, <1>3, <1>4, <1>9, <2>1 DEF AgentStep
<1>10. CASE StandingStep \/ EnvironmentStep \/ Reconcile \/ UNCHANGED vars
  BY <1>2, <1>5, <1>10
     DEF StandingStep, EnvironmentStep, CreateSession, Handshake,
         LapseSession, EndSession, ChangeMember, ChangeAccount, AgeLease,
         Reconcile, vars
<1> QED
  BY <1>8, <1>9, <1>10 DEF Next

-----------------------------------------------------------------------------
(***************************************************************************)
(* The invariant of TaskRunsProofs, with what the work rests on.           *)
(***************************************************************************)
EInv == /\ IInv
        /\ Undecided
        /\ DoneOnEvidence /\ FrozenInputs /\ DependenciesHold
        /\ CanceledAnnounced

LEMMA InitEInv == Init => EInv
<1> SUFFICES ASSUME Init PROVE EInv
  OBVIOUS
<1>1. \A t \in Tasks : status[t] = "NONE" /\ cancelEvents[t] = 0
  BY DEF Init
<1>2. Undecided
  BY DEF Init, Undecided, NoArtifact
<1>3. DoneOnEvidence /\ FrozenInputs /\ DependenciesHold
  BY <1>1 DEF DoneOnEvidence, FrozenInputs, DependenciesHold
<1>4. CanceledAnnounced
  BY <1>1 DEF CanceledAnnounced
<1> QED
  BY <1>2, <1>3, <1>4, InitIInv DEF EInv

LEMMA EInvStep == EInv /\ [Next]_vars => EInv'
<1> SUFFICES ASSUME EInv, [Next]_vars PROVE EInv'
  OBVIOUS
<1>1. IInv /\ IInv' /\ TypeOK
  BY TypeStep, AgreementStep, GrantStep, SettledStep, AcyclicStep
     DEF EInv, IInv
<1>2. ArtifactsKept /\ Undecided'
  BY <1>1, ArtifactsStep DEF EInv
<1>3. \A u \in Tasks : Moves(u)
  BY <1>1, TaskMoves
<1>4. published \subseteq published'
  BY PublishedStep
<1>5. DoneOnEvidence' /\ FrozenInputs' /\ DependenciesHold'
  BY <1>1, <1>2, <1>3, <1>4, DoneOnEvidenceStep, FrozenInputsStep,
     DependenciesStep DEF EInv
<1>6. CanceledAnnounced'
  BY <1>1, <1>3, AnnouncedStep DEF EInv
<1> QED
  BY <1>1, <1>2, <1>5, <1>6 DEF EInv

LEMMA EInvHolds == Spec => []EInv
BY InitEInv, EInvStep, PTL DEF Spec

-----------------------------------------------------------------------------
(***************************************************************************)
(* The theorems.                                                           *)
(***************************************************************************)
\* What a Run executes, a review judges and a finished task claims are the
\* inputs claimRun and freezeSnapshot froze: no edit, transfer,
\* dependency change or scan in between touches them.
THEOREM FrozenInputsHold == Spec => []FrozenInputs
<1>1. EInv => FrozenInputs
  BY DEF EInv
<1> QED
  BY <1>1, EInvHolds, PTL

\* The dependencies checked at claim hold for as long as the work they released
\* runs, is reviewed or counts as done (taskReady, called by claimRun).
THEOREM DependenciesStayHeld == Spec => []DependenciesHold
<1>1. EInv => DependenciesHold
  BY DEF EInv
<1> QED
  BY <1>1, EInvHolds, PTL

\* A task is under review on a successful latest Run, and done on evidence of
\* that Run which reviewTask found verified and accepted.
THEOREM DoneOnEvidenceHolds == Spec => []DoneOnEvidence
<1>1. EInv => DoneOnEvidence
  BY DEF EInv
<1> QED
  BY <1>1, EInvHolds, PTL

\* TASK_CANCELED is in the feed exactly for the cancelled tasks
\* (commandExecution), however often they are archived and restored.
THEOREM CanceledAnnouncedHolds == Spec => []CanceledAnnounced
<1>1. EInv => CanceledAnnounced
  BY DEF EInv
<1> QED
  BY <1>1, EInvHolds, PTL

\* Ended Runs and decided artifacts keep every field, and DONE and CANCELED are
\* final, without the triggers of migrations 002 and 003.
THEOREM HistoryImmutableHolds == Spec => HistoryImmutable
<1>1. EInv /\ [Next]_vars =>
        [/\ \A t \in Tasks, n \in Attempts :
              run[t][n].status \notin {"NONE", "RUNNING"}
                => run'[t][n] = run[t][n]
         /\ \A a \in Artifacts :
              art[a].acceptance # "PENDING" => art'[a] = art[a]
         /\ \A t \in Tasks :
              status[t] \in {"DONE", "CANCELED"} => status'[t] = status[t]]_vars
  <2> SUFFICES ASSUME EInv, [Next]_vars
               PROVE  /\ RunsKept /\ ArtifactsKept
                      /\ \A t \in Tasks : status[t] \in {"DONE", "CANCELED"} =>
                                            status'[t] = status[t]
    BY DEF RunsKept, ArtifactsKept
  <2>1. TypeOK /\ RunTaskAgreement /\ Undecided /\ IInv
    BY DEF EInv, IInv
  <2>2. RunsKept /\ ArtifactsKept
    BY <2>1, RunsStep, ArtifactsStep
  <2>3. \A t \in Tasks : Moves(t)
    BY <2>1, TaskMoves
  <2> QED
    BY <2>2, <2>3 DEF Moves, Keeps, Idles, Claims, Completes, Accepts
<1> QED
  BY <1>1, EInvHolds, PTL DEF Spec, HistoryImmutable

\* resolveDependencyEvidence fills resolved_artifact_id once: what is accepted
\* later never replaces it while the dependency stays.
THEOREM EvidenceKeptHolds == Spec => EvidenceKept
<1>1. EInv /\ [Next]_vars =>
        [\A t, p \in Tasks :
           evidence[t][p] # None /\ dep'[t][p] = dep[t][p]
             => evidence'[t][p] = evidence[t][p]]_vars
  <2>1. EInv => TypeOK
    BY DEF EInv, IInv
  <2> QED
    BY <2>1, EvidenceStep
<1> QED
  BY <1>1, EInvHolds, PTL DEF Spec, EvidenceKept

\* Once a Run is lost on record, or by the clock of every server, and until the
\* scan that closes it, its agent changes nothing: checkRun (tasks_execution.go)
\* refuses whatever server it runs on, however far its clock is behind.
THEOREM NoWriteAfterLossHolds == Spec => NoWriteAfterLoss
<1>1. EInv /\ [Next]_vars =>
        [\A t \in Tasks, n \in Attempts :
           LostForGood(t, n) =>
             /\ run'[t][n].status \in {"RUNNING", "CANCELED", "LOST"}
             /\ run'[t][n].lease <= run[t][n].lease
             /\ \A a \in Artifacts :
                  art'[a].task = t /\ art'[a].attempt = n => art[a].task = t
             /\ <<t, n>> \in unsettled' => <<t, n>> \in unsettled]_vars
  <2>1. EInv => TypeOK /\ RunTaskAgreement
    BY DEF EInv, IInv
  <2> QED
    BY <2>1, LostRunStep, LostEvidenceStep
<1> QED
  BY <1>1, EInvHolds, PTL DEF Spec, NoWriteAfterLoss
=============================================================================
