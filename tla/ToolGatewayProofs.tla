-------------------------- MODULE ToolGatewayProofs --------------------------
(***************************************************************************)
(* ToolGateway keeps its types, pairs decisions with operations, keeps     *)
(* authority through the effect and implements OperationLedger.            *)
(***************************************************************************)
EXTENDS ToolGateway, TLAPS

(***************************************************************************)
(* The strengthening: who is working on an operation, and what that says   *)
(* about it.                                                               *)
(***************************************************************************)
InHand(w, o) == IsCurrent(w, o) /\ pc[w] # "scan"

\* A worker without a batch is between operations.
Idle == \A w \in Workers : work[w] = {} => pc[w] = "scan"

\* Two workers never have the same operation in hand.
OneHand ==
  \A o \in Ops : \A v, w \in Workers : InHand(v, o) /\ InHand(w, o) => v = w

\* A merge may be closed by what others did while it is on its way.
Launchable(o) == inv[o] \in {"RUNNING", "UNKNOWN"}
                 \/ (IsMerge(o) /\ inv[o] = "SUCCEEDED")

\* What a worker has in hand and has not sent can still only be launched by it.
Unsent ==
  \A w \in Workers, o \in Ops : (InHand(w, o) /\ pc[w] # "sent") =>
    sends[o] = 0 /\ Launchable(o)

\* What a worker has in hand was started.
Begun ==
  \A w \in Workers, o \in Ops :
    InHand(w, o) => inv[o] \notin {"NONE", "AWAITING_APPROVAL", "READY"}

\* The external system knows what was sent; the rest was not.
Sent ==
  \A o \in Ops :
    /\ sends[o] = 0 <=> outcome[o] = "none"
    /\ inv[o] \in {"NONE", "AWAITING_APPROVAL", "READY", "CANCELED"} =>
         sends[o] = 0

Custody == Idle /\ OneHand /\ Unsent /\ Begun /\ Sent

GInv == TypeOK /\ DecisionsPaired /\ AuthorityThroughEffect /\ Custody

(***************************************************************************)
(* Batches.                                                                *)
(***************************************************************************)
\* The operation at hand is the smallest id of the batch, so there is one.
LEMMA OneCurrent ==
  ASSUME NEW w, NEW o \in Ops, NEW p \in Ops, IsCurrent(w, o), IsCurrent(w, p)
  PROVE  o = p
BY GatewayAssumption DEF IsCurrent

(***************************************************************************)
(* Types.                                                                  *)
(***************************************************************************)
\* Every step keeps the type of every variable.
LEMMA TypeStep == TypeOK /\ [Next]_vars => TypeOK'
<1> SUFFICES ASSUME TypeOK, [Next]_vars PROVE TypeOK'
  OBVIOUS
<1> USE GatewayAssumption
<1>1. ASSUME NEW t \in Tools, NEW on \in BOOLEAN,
             ChangePolicy(t, on)
      PROVE  TypeOK'
  BY <1>1 DEF TypeOK, Invocations, Approvals, ChangePolicy, Policy,
       opVars, timeVars, externalVars, toolVars, peopleVars, workerVars
<1>2. ASSUME NEW h \in Humans, NEW o \in Ops, NEW b \in BOOLEAN,
             DecideApproval(h, o, b)
      PROVE  TypeOK'
  BY <1>2 DEF TypeOK, Invocations, Approvals, DecideApproval,
       opVars, timeVars, externalVars, toolVars, peopleVars, workerVars
<1>3. ASSUME NEW o \in Ops,
             ReconcileInvocation(o)
      PROVE  TypeOK'
  BY <1>3 DEF TypeOK, Invocations, Approvals, ReconcileInvocation,
       opVars, timeVars, externalVars, toolVars, peopleVars, workerVars
<1>4. ASSUME NEW h \in Humans, NEW r \in RoleChoices, NEW on \in BOOLEAN,
             ChangeMember(h, r, on)
      PROVE  TypeOK'
  BY <1>4 DEF TypeOK, Invocations, Approvals, ChangeMember,
       opVars, timeVars, externalVars, toolVars, peopleVars, workerVars
<1>5. ASSUME NEW h \in Humans, NEW on \in BOOLEAN,
             ChangeAccount(h, on)
      PROVE  TypeOK'
  BY <1>5 DEF TypeOK, Invocations, Approvals, ChangeAccount,
       opVars, timeVars, externalVars, toolVars, peopleVars, workerVars
<1>6. ASSUME RevokeSession
      PROVE  TypeOK'
  BY <1>6 DEF TypeOK, Invocations, Approvals, RevokeSession,
       opVars, timeVars, externalVars, toolVars, peopleVars, workerVars
<1>7. ASSUME EndRun
      PROVE  TypeOK'
  BY <1>7 DEF TypeOK, Invocations, Approvals, EndRun,
       opVars, timeVars, externalVars, toolVars, peopleVars, workerVars
<1>8. ASSUME NEW o \in Ops,
             RequestInvocation(o)
      PROVE  TypeOK'
  BY <1>8 DEF TypeOK, Invocations, Approvals, RequestInvocation, Binding,
              Policy,
       opVars, timeVars, externalVars, toolVars, peopleVars, workerVars
<1>9. ASSUME LeaseLapses
      PROVE  TypeOK'
  BY <1>9 DEF TypeOK, Invocations, Approvals, LeaseLapses,
       opVars, timeVars, externalVars, toolVars, peopleVars, workerVars
<1>10. ASSUME SessionExpires
      PROVE  TypeOK'
  BY <1>10 DEF TypeOK, Invocations, Approvals, SessionExpires,
       opVars, timeVars, externalVars, toolVars, peopleVars, workerVars
<1>11. ASSUME NEW o \in Ops,
             BindingExpires(o)
      PROVE  TypeOK'
  BY <1>11 DEF TypeOK, Invocations, Approvals, BindingExpires,
       opVars, timeVars, externalVars, toolVars, peopleVars, workerVars
<1>12. ASSUME NEW o \in Ops,
             Ages(o)
      PROVE  TypeOK'
  BY <1>12 DEF TypeOK, Invocations, Approvals, Ages,
       opVars, timeVars, externalVars, toolVars, peopleVars, workerVars
<1>13. ASSUME NEW w \in Workers,
             LoseConnection(w)
      PROVE  TypeOK'
  BY <1>13 DEF TypeOK, Invocations, Approvals, LoseConnection,
       opVars, timeVars, externalVars, toolVars, peopleVars, workerVars
<1>14. ASSUME NEW o \in Ops, NEW r \in {"applied", "rejected"},
             Answer(o, r)
      PROVE  TypeOK'
  BY <1>14 DEF TypeOK, Invocations, Approvals, Answer,
       opVars, timeVars, externalVars, toolVars, peopleVars, workerVars
<1>15. ASSUME NEW t \in Tools, NEW c \in 1 .. MaxConfig,
             Redeploy(t, c)
      PROVE  TypeOK'
  BY <1>15 DEF TypeOK, Invocations, Approvals, Redeploy,
       opVars, timeVars, externalVars, toolVars, peopleVars, workerVars
<1>16. ASSUME NEW w \in Workers,
             List(w)
      PROVE  TypeOK'
  BY <1>16 DEF TypeOK, Invocations, Approvals, List, Batch, Eligible,
       opVars, timeVars, externalVars, toolVars, peopleVars, workerVars
<1>17. ASSUME NEW w \in Workers,
             Stop(w)
      PROVE  TypeOK'
  BY <1>17 DEF TypeOK, Invocations, Approvals, Stop,
       opVars, timeVars, externalVars, toolVars, peopleVars, workerVars
<1>18. ASSUME NEW w \in Workers, NEW o \in Ops,
             Skip(w, o)
      PROVE  TypeOK'
  BY <1>18 DEF TypeOK, Invocations, Approvals, Skip, Advance,
       opVars, timeVars, externalVars, toolVars, peopleVars, workerVars
<1>19. ASSUME NEW w \in Workers, NEW o \in Ops,
             Interrupt(w, o)
      PROVE  TypeOK'
  BY <1>19 DEF TypeOK, Invocations, Approvals, Interrupt, Advance,
       opVars, timeVars, externalVars, toolVars, peopleVars, workerVars
<1>20. ASSUME NEW w \in Workers, NEW o \in Ops,
             Refuse(w, o)
      PROVE  TypeOK'
  BY <1>20 DEF TypeOK, Invocations, Approvals, Refuse, CancelAt, Advance,
       opVars, timeVars, externalVars, toolVars, peopleVars, workerVars
<1>21. ASSUME NEW w \in Workers, NEW o \in Ops,
             Start(w, o)
      PROVE  TypeOK'
  BY <1>21 DEF TypeOK, Invocations, Approvals, Start,
       opVars, timeVars, externalVars, toolVars, peopleVars, workerVars
<1>22. ASSUME NEW w \in Workers, NEW o \in Ops,
             Enter(w, o)
      PROVE  TypeOK'
  BY <1>22 DEF TypeOK, Invocations, Approvals, Enter,
       opVars, timeVars, externalVars, toolVars, peopleVars, workerVars
<1>23. ASSUME NEW w \in Workers, NEW o \in Ops,
             RefuseLate(w, o)
      PROVE  TypeOK'
  BY <1>23 DEF TypeOK, Invocations, Approvals, RefuseLate, CancelAt, Advance,
       opVars, timeVars, externalVars, toolVars, peopleVars, workerVars
<1>24. ASSUME NEW w \in Workers, NEW o \in Ops,
             Send(w, o)
      PROVE  TypeOK'
  BY <1>24 DEF TypeOK, Invocations, Approvals, Send,
       opVars, timeVars, externalVars, toolVars, peopleVars, workerVars
<1>25. ASSUME NEW w \in Workers, NEW o \in Ops, NEW s \in {"SUCCEEDED",
     "UNKNOWN"},
             Finish(w, o, s)
      PROVE  TypeOK'
  BY <1>25 DEF TypeOK, Invocations, Approvals, Finish, Advance,
       opVars, timeVars, externalVars, toolVars, peopleVars, workerVars
<1>25a. ASSUME NEW q \in Ops, OthersMerge(PullOf[q])
       PROVE  TypeOK'
  BY <1>25a DEF TypeOK, Invocations, Approvals, OthersMerge,
       opVars, timeVars, externalVars, toolVars, peopleVars, workerVars
<1>26. CASE UNCHANGED vars
  BY <1>26 DEF TypeOK, vars, opVars, timeVars, externalVars, toolVars,
               peopleVars, workerVars
<1>27. QED
  BY <1>1, <1>2, <1>3, <1>4, <1>5, <1>6, <1>7, <1>8, <1>9, <1>10, <1>11,
       <1>12, <1>13, <1>14, <1>15, <1>16, <1>17, <1>18, <1>19, <1>20, <1>21,
            <1>22, <1>23, <1>24, <1>25, <1>25a, <1>26
     DEF Next, HumanStep, AgentStep, TimeStep, EnvironmentStep, WorkerStep,
         Judge,
         Perform

(***************************************************************************)
(* Authority through the effect.                                           *)
(***************************************************************************)
\* No step takes authority from under an effect.
LEMMA AuthorityStep ==
  ASSUME TypeOK, AuthorityThroughEffect, [Next]_vars
  PROVE  AuthorityThroughEffect'
<1> SUFFICES ASSUME NEW x \in Workers, lock' = x
             PROVE  (\E p \in Ops : /\ At(x, p, "cleared") \/ At(x, p, "sent")
                                    /\ inv[p] = "RUNNING"
                                    /\ LockedAuthority(p))'
  BY DEF AuthorityThroughEffect
<1> DEFINE Goal == (\E p \in Ops : /\ At(x, p, "cleared") \/ At(x, p, "sent")
                                   /\ inv[p] = "RUNNING"
                                   /\ LockedAuthority(p))'
<1> HIDE DEF Goal
<1>a. x # None
  BY GatewayAssumption
\* The holder stays where it is and nothing it relies on changes.
<1>f. ASSUME lock = x, UNCHANGED <<opVars, toolVars, member, roles>>,
             work'[x] = work[x],
             pc'[x] = pc[x] \/ pc'[x] = "sent",
             session' = "REVOKED" => session = "REVOKED",
             runState' = "ENDED" => runState = "ENDED"
      PROVE  Goal
  <2>1. PICK p \in Ops : /\ At(x, p, "cleared") \/ At(x, p, "sent")
                         /\ inv[p] = "RUNNING" /\ LockedAuthority(p)
    BY <1>f DEF AuthorityThroughEffect
  <2>2. At(x, p, "cleared")' \/ At(x, p, "sent")'
    BY <1>f, <2>1 DEF At, IsCurrent
  <2>3. LockedAuthority(p)'
    BY <1>f, <2>1 DEF LockedAuthority, Grants, PolicyStands, opVars, toolVars
  <2>4. QED
    BY <1>f, <2>1, <2>2, <2>3 DEF Goal, opVars
<1>h. ASSUME lock = x PROVE work[x] # {} /\ pc[x] \in {"cleared", "sent"}
  BY <1>h DEF AuthorityThroughEffect, At, IsCurrent
<1>1. ASSUME NEW t \in Tools, NEW on \in BOOLEAN,
             ChangePolicy(t, on)
      PROVE  Goal
  BY <1>1, <1>a DEF ChangePolicy, Unlocked, workerVars
<1>2. ASSUME NEW h \in Humans, NEW o \in Ops, NEW b \in BOOLEAN,
             DecideApproval(h, o, b)
      PROVE  Goal
  BY <1>2, <1>a DEF DecideApproval, Unlocked, workerVars
<1>3. ASSUME NEW o \in Ops,
             ReconcileInvocation(o)
      PROVE  Goal
  BY <1>3, <1>a DEF ReconcileInvocation, Unlocked, workerVars
<1>4. ASSUME NEW h \in Humans, NEW r \in RoleChoices, NEW on \in BOOLEAN,
             ChangeMember(h, r, on)
      PROVE  Goal
  BY <1>4, <1>a DEF ChangeMember, Unlocked, workerVars
<1>5. ASSUME NEW h \in Humans, NEW on \in BOOLEAN,
             ChangeAccount(h, on)
      PROVE  Goal
  BY <1>5, <1>a, <1>f, <1>h
     DEF ChangeAccount, TypeOK, opVars, timeVars, externalVars, toolVars,
         peopleVars, workerVars
<1>6. ASSUME RevokeSession
      PROVE  Goal
  BY <1>6, <1>a DEF RevokeSession, Unlocked, workerVars
<1>7. ASSUME EndRun
      PROVE  Goal
  BY <1>7, <1>a DEF EndRun, Unlocked, workerVars
<1>8. ASSUME NEW o \in Ops,
             RequestInvocation(o)
      PROVE  Goal
  BY <1>8, <1>a DEF RequestInvocation, Unlocked, workerVars
<1>9. ASSUME LeaseLapses
      PROVE  Goal
  BY <1>9, <1>a, <1>f, <1>h
     DEF LeaseLapses, TypeOK, opVars, timeVars, externalVars, toolVars,
         peopleVars, workerVars
<1>10. ASSUME SessionExpires
      PROVE  Goal
  BY <1>10, <1>a, <1>f, <1>h
     DEF SessionExpires, TypeOK, opVars, timeVars, externalVars, toolVars,
         peopleVars, workerVars
<1>11. ASSUME NEW o \in Ops,
             BindingExpires(o)
      PROVE  Goal
  BY <1>11, <1>a, <1>f, <1>h
     DEF BindingExpires, TypeOK, opVars, timeVars, externalVars, toolVars,
         peopleVars, workerVars
<1>12. ASSUME NEW o \in Ops,
             Ages(o)
      PROVE  Goal
  BY <1>12, <1>a, <1>f, <1>h
     DEF Ages, TypeOK, opVars, timeVars, externalVars, toolVars, peopleVars,
         workerVars
<1>13. ASSUME NEW w \in Workers,
             LoseConnection(w)
      PROVE  Goal
  BY <1>13, <1>a DEF LoseConnection
<1>14. ASSUME NEW o \in Ops, NEW r \in {"applied", "rejected"},
             Answer(o, r)
      PROVE  Goal
  BY <1>14, <1>a, <1>f, <1>h
     DEF Answer, TypeOK, opVars, timeVars, externalVars, toolVars, peopleVars,
         workerVars
<1>15. ASSUME NEW t \in Tools, NEW c \in 1 .. MaxConfig,
             Redeploy(t, c)
      PROVE  Goal
  BY <1>15, <1>a, <1>f, <1>h
     DEF Redeploy, TypeOK, opVars, timeVars, externalVars, toolVars,
         peopleVars, workerVars
<1>16. ASSUME NEW w \in Workers,
             List(w)
      PROVE  Goal
  BY <1>16, <1>a, <1>f, <1>h
     DEF List, TypeOK, opVars, timeVars, externalVars, toolVars, peopleVars,
         workerVars
<1>17. ASSUME NEW w \in Workers,
             Stop(w)
      PROVE  Goal
  BY <1>17, <1>a, <1>f, <1>h
     DEF Stop, TypeOK, opVars, timeVars, externalVars, toolVars, peopleVars,
         workerVars
<1>18. ASSUME NEW w \in Workers, NEW o \in Ops,
             Skip(w, o)
      PROVE  Goal
  BY <1>18, <1>a, <1>f, <1>h
     DEF Skip, Advance, At, TypeOK, opVars, timeVars, externalVars, toolVars,
         peopleVars, workerVars
<1>19. ASSUME NEW w \in Workers, NEW o \in Ops,
             Interrupt(w, o)
      PROVE  Goal
  BY <1>19, <1>a DEF Interrupt, Unlocked, workerVars
<1>20. ASSUME NEW w \in Workers, NEW o \in Ops,
             Refuse(w, o)
      PROVE  Goal
  BY <1>20, <1>a DEF Refuse, Unlocked, workerVars, CancelAt
<1>21. ASSUME NEW w \in Workers, NEW o \in Ops,
             Start(w, o)
      PROVE  Goal
  BY <1>21, <1>a DEF Start, Unlocked, workerVars
<1>22. ASSUME NEW w \in Workers, NEW o \in Ops,
             Enter(w, o)
      PROVE  Goal
  <2>1. w = x /\ IsCurrent(x, o)' /\ pc'[x] = "cleared"
    BY <1>22, <1>a DEF Enter, At, IsCurrent, TypeOK
  <2>2. inv'[o] = "RUNNING" /\ LockedAuthority(o)'
    BY <1>22 DEF Enter, Executable, Valid, Decided, LockedAuthority, Grants,
                 HasRole,
                Active, PolicyStands, opVars, toolVars, peopleVars
  <2>3. QED
    BY <2>1, <2>2 DEF Goal, At
<1>23. ASSUME NEW w \in Workers, NEW o \in Ops,
             RefuseLate(w, o)
      PROVE  Goal
  BY <1>23, <1>a DEF RefuseLate, Unlocked, workerVars, CancelAt
<1>24. ASSUME NEW w \in Workers, NEW o \in Ops,
             Send(w, o)
      PROVE  Goal
  BY <1>24, <1>a, <1>f, <1>h
     DEF Send, At, TypeOK, opVars, timeVars, externalVars, toolVars,
         peopleVars, workerVars
<1>25. ASSUME NEW w \in Workers, NEW o \in Ops, NEW s \in {"SUCCEEDED",
     "UNKNOWN"},
             Finish(w, o, s)
      PROVE  Goal
  BY <1>25, <1>a DEF Finish
<1>25a. ASSUME NEW q \in Ops, OthersMerge(PullOf[q])
       PROVE  Goal
  BY <1>25a, <1>a, <1>f, <1>h
     DEF OthersMerge, TypeOK, opVars, timeVars, toolVars, peopleVars,
         workerVars
<1>26. CASE UNCHANGED vars
  BY <1>26, <1>f DEF Goal, vars, opVars, toolVars, peopleVars, workerVars
<1>27. QED
  BY <1>1, <1>2, <1>3, <1>4, <1>5, <1>6, <1>7, <1>8, <1>9, <1>10,
     <1>11, <1>12, <1>13, <1>14, <1>15, <1>16, <1>17, <1>18, <1>19,
     <1>20, <1>21, <1>22, <1>23, <1>24, <1>25, <1>25a, <1>26
     DEF Goal, Next, HumanStep, AgentStep, TimeStep, EnvironmentStep,
         WorkerStep, Judge,
         Perform

(***************************************************************************)
(* Approvals and operations.                                               *)
(***************************************************************************)
\* The operation whose result is saved is RUNNING.
LEMMA FinishedRuns ==
  ASSUME AuthorityThroughEffect, NEW w \in Workers, NEW o \in Ops, NEW s,
         Finish(w, o, s)
  PROVE  inv[o] = "RUNNING"
<1>1. PICK p \in Ops : /\ At(w, p, "cleared") \/ At(w, p, "sent")
                       /\ inv[p] = "RUNNING"
  BY DEF AuthorityThroughEffect, Finish
<1>2. p = o
  BY <1>1, OneCurrent DEF At, Finish
<1>3. QED
  BY <1>1, <1>2

\* Every handler that changes a status changes its approval with it.
LEMMA PairedStep ==
  ASSUME TypeOK, AuthorityThroughEffect, DecisionsPaired, [Next]_vars
  PROVE  DecisionsPaired'
<1>1. ASSUME NEW t \in Tools, NEW on \in BOOLEAN,
             ChangePolicy(t, on)
      PROVE  DecisionsPaired'
  BY <1>1 DEF DecisionsPaired, ChangePolicy, opVars
<1>2. ASSUME NEW h \in Humans, NEW o \in Ops, NEW b \in BOOLEAN,
             DecideApproval(h, o, b)
      PROVE  DecisionsPaired'
  BY <1>2, GatewayAssumption DEF DecisionsPaired, DecideApproval, TypeOK,
                                 HasRole
<1>3. ASSUME NEW o \in Ops,
             ReconcileInvocation(o)
      PROVE  DecisionsPaired'
  BY <1>3, GatewayAssumption DEF DecisionsPaired, ReconcileInvocation, TypeOK
<1>4. ASSUME NEW h \in Humans, NEW r \in RoleChoices, NEW on \in BOOLEAN,
             ChangeMember(h, r, on)
      PROVE  DecisionsPaired'
  BY <1>4 DEF DecisionsPaired, ChangeMember, opVars
<1>5. ASSUME NEW h \in Humans, NEW on \in BOOLEAN,
             ChangeAccount(h, on)
      PROVE  DecisionsPaired'
  BY <1>5 DEF DecisionsPaired, ChangeAccount, opVars
<1>6. ASSUME RevokeSession
      PROVE  DecisionsPaired'
  BY <1>6 DEF DecisionsPaired, RevokeSession, opVars
<1>7. ASSUME EndRun
      PROVE  DecisionsPaired'
  BY <1>7 DEF DecisionsPaired, EndRun, opVars
<1>8. ASSUME NEW o \in Ops,
             RequestInvocation(o)
      PROVE  DecisionsPaired'
  BY <1>8, GatewayAssumption DEF DecisionsPaired, RequestInvocation, TypeOK
<1>9. ASSUME LeaseLapses
      PROVE  DecisionsPaired'
  BY <1>9 DEF DecisionsPaired, LeaseLapses, opVars
<1>10. ASSUME SessionExpires
      PROVE  DecisionsPaired'
  BY <1>10 DEF DecisionsPaired, SessionExpires, opVars
<1>11. ASSUME NEW o \in Ops,
             BindingExpires(o)
      PROVE  DecisionsPaired'
  BY <1>11 DEF DecisionsPaired, BindingExpires, opVars
<1>12. ASSUME NEW o \in Ops,
             Ages(o)
      PROVE  DecisionsPaired'
  BY <1>12 DEF DecisionsPaired, Ages, opVars
<1>13. ASSUME NEW w \in Workers,
             LoseConnection(w)
      PROVE  DecisionsPaired'
  BY <1>13 DEF DecisionsPaired, LoseConnection, opVars
<1>14. ASSUME NEW o \in Ops, NEW r \in {"applied", "rejected"},
             Answer(o, r)
      PROVE  DecisionsPaired'
  BY <1>14 DEF DecisionsPaired, Answer, opVars
<1>15. ASSUME NEW t \in Tools, NEW c \in 1 .. MaxConfig,
             Redeploy(t, c)
      PROVE  DecisionsPaired'
  BY <1>15 DEF DecisionsPaired, Redeploy, opVars
<1>16. ASSUME NEW w \in Workers,
             List(w)
      PROVE  DecisionsPaired'
  BY <1>16 DEF DecisionsPaired, List, opVars
<1>17. ASSUME NEW w \in Workers,
             Stop(w)
      PROVE  DecisionsPaired'
  BY <1>17 DEF DecisionsPaired, Stop, opVars
<1>18. ASSUME NEW w \in Workers, NEW o \in Ops,
             Skip(w, o)
      PROVE  DecisionsPaired'
  BY <1>18 DEF DecisionsPaired, Skip, opVars
<1>19. ASSUME NEW w \in Workers, NEW o \in Ops,
             Interrupt(w, o)
      PROVE  DecisionsPaired'
  BY <1>19, GatewayAssumption DEF DecisionsPaired, Interrupt, TypeOK
<1>20. ASSUME NEW w \in Workers, NEW o \in Ops,
             Refuse(w, o)
      PROVE  DecisionsPaired'
  BY <1>20, GatewayAssumption DEF DecisionsPaired, Refuse, TypeOK, Refusable,
                                  CancelAt
<1>21. ASSUME NEW w \in Workers, NEW o \in Ops,
             Start(w, o)
      PROVE  DecisionsPaired'
  BY <1>21, GatewayAssumption DEF DecisionsPaired, Start, TypeOK
<1>22. ASSUME NEW w \in Workers, NEW o \in Ops,
             Enter(w, o)
      PROVE  DecisionsPaired'
  BY <1>22 DEF DecisionsPaired, Enter, opVars
<1>23. ASSUME NEW w \in Workers, NEW o \in Ops,
             RefuseLate(w, o)
      PROVE  DecisionsPaired'
  BY <1>23, GatewayAssumption DEF DecisionsPaired, RefuseLate, TypeOK, CancelAt
<1>24. ASSUME NEW w \in Workers, NEW o \in Ops,
             Send(w, o)
      PROVE  DecisionsPaired'
  BY <1>24 DEF DecisionsPaired, Send, opVars
<1>25. ASSUME NEW w \in Workers, NEW o \in Ops, NEW s \in {"SUCCEEDED",
     "UNKNOWN"},
             Finish(w, o, s)
      PROVE  DecisionsPaired'
  BY <1>25, FinishedRuns DEF DecisionsPaired, Finish, TypeOK
<1>25a. ASSUME NEW q \in Ops, OthersMerge(PullOf[q])
       PROVE  DecisionsPaired'
  BY <1>25a DEF DecisionsPaired, OthersMerge, opVars
<1>26. CASE UNCHANGED vars
  BY <1>26 DEF DecisionsPaired, vars, opVars
<1>27. QED
  BY <1>1, <1>2, <1>3, <1>4, <1>5, <1>6, <1>7, <1>8, <1>9, <1>10,
     <1>11, <1>12, <1>13, <1>14, <1>15, <1>16, <1>17, <1>18, <1>19,
     <1>20, <1>21, <1>22, <1>23, <1>24, <1>25, <1>25a, <1>26
     DEF Next, HumanStep, AgentStep, TimeStep, EnvironmentStep, WorkerStep,
         Judge,
         Perform

(***************************************************************************)
(* Custody.                                                                *)
(***************************************************************************)
\* Leaving an operation takes it out of the worker's hand and no other.
LEMMA HandsAdvance ==
  ASSUME TypeOK, NEW w \in Workers, NEW o \in Ops, Advance(w, o),
         NEW v \in Workers, NEW p \in Ops, InHand(v, p)'
  PROVE  v # w /\ InHand(v, p) /\ pc'[v] = pc[v]
BY DEF TypeOK, Advance, InHand, IsCurrent

\* A worker that moved on is between operations.
LEMMA IdleAdvance ==
  ASSUME TypeOK, Idle, NEW w \in Workers, NEW o \in Ops, Advance(w, o)
  PROVE  Idle'
BY DEF TypeOK, Advance, Idle

\* Where workers stay what they are, the facts about hands carry over.
LEMMA HandsKept ==
  ASSUME TypeOK, Custody, UNCHANGED <<pc, work>>
  PROVE  /\ Idle' /\ OneHand'
         /\ \A v \in Workers, p \in Ops : InHand(v, p)' <=> InHand(v, p)
BY DEF Custody, Idle, OneHand, InHand, IsCurrent

\* After w moved on, each hand is an old one, and not that of w.
LEMMA CustodyAdvance ==
  ASSUME TypeOK, Custody, NEW w \in Workers, NEW o \in Ops, Advance(w, o),
         UNCHANGED externalVars,
         \A p \in Ops \ {o} : inv'[p] = inv[p],
         inv'[o] \in {inv[o],
              "UNKNOWN"} \/ \A v \in Workers \ {w} : ~InHand(v, o),
         inv'[o] = "CANCELED" => inv[o] = "CANCELED" \/ sends[o] = 0,
         inv'[o] \in {"NONE", "AWAITING_APPROVAL", "READY"} => inv'[o] = inv[o]
  PROVE  Custody'
<1>1. Idle'
  BY IdleAdvance DEF Custody
<1>2. OneHand'
  BY HandsAdvance DEF Custody, OneHand
<1>3. ASSUME NEW v \in Workers, NEW p \in Ops, InHand(v, p)'
      PROVE  /\ pc'[v] # "sent" => /\ sends'[p] = 0
                                   /\ Launchable(p)'
             /\ inv'[p] \notin {"NONE", "AWAITING_APPROVAL", "READY"}
  <2>1. v # w /\ InHand(v, p) /\ pc'[v] = pc[v]
    BY <1>3, HandsAdvance
  <2>2. inv'[p] \in {inv[p], "UNKNOWN"}
    BY <2>1
  <2>3. QED
    BY <2>1, <2>2 DEF Custody, Unsent, Begun, Launchable, IsMerge, externalVars
<1>4. Sent'
  BY DEF Custody, Sent, externalVars
<1>5. QED
  BY <1>1, <1>2, <1>3, <1>4 DEF Custody, Unsent, Begun

\* Every step keeps who has what in hand.
LEMMA CustodyStep ==
  ASSUME TypeOK, AuthorityThroughEffect, Custody, [Next]_vars
  PROVE  Custody'
<1>q. ASSUME UNCHANGED <<inv, outcome, sends, pc, work>>
      PROVE  Custody'
  BY <1>q DEF Custody, Idle, OneHand, Unsent, Begun, Sent, InHand, IsCurrent,
              Launchable, IsMerge
<1>1. ASSUME NEW t \in Tools, NEW on \in BOOLEAN,
             ChangePolicy(t, on)
      PROVE  Custody'
  BY <1>1, <1>q DEF ChangePolicy, opVars, externalVars, workerVars
<1>2. ASSUME NEW h \in Humans, NEW o \in Ops, NEW b \in BOOLEAN,
             DecideApproval(h, o, b)
      PROVE  Custody'
  <2>1. UNCHANGED <<pc, work, outcome, sends>>
    BY <1>2 DEF DecideApproval, externalVars, workerVars
  <2>2. \A v \in Workers : InHand(v, o) => FALSE
    BY <1>2 DEF DecideApproval, Custody, Begun, Unsent, Sent, TypeOK, InHand
  <2>3. Unsent' /\ Begun' /\ Sent'
    BY <1>2, <2>1, <2>2, HandsKept
       DEF DecideApproval, Custody, Unsent, Begun, Sent, TypeOK, Launchable,
           IsMerge
  <2>4. QED
    BY <2>1, <2>3, HandsKept DEF Custody
<1>3. ASSUME NEW o \in Ops,
             ReconcileInvocation(o)
      PROVE  Custody'
  <2>1. UNCHANGED <<pc, work, outcome, sends>>
    BY <1>3 DEF ReconcileInvocation, externalVars, workerVars
  <2>2. \A v \in Workers : InHand(v, o) => IsMerge(o) \/ pc[v] = "sent"
    BY <1>3 DEF ReconcileInvocation, Lookup, Custody, Unsent, Sent
  <2>a. IsMerge(o) => inv'[o] = "SUCCEEDED"
    BY <1>3 DEF ReconcileInvocation, Lookup, TypeOK
  <2>b. /\ inv'[o] \in {"SUCCEEDED", "FAILED"}
        /\ \A p \in Ops \ {o} : inv'[p] = inv[p]
    BY <1>3 DEF ReconcileInvocation, TypeOK
  <2>c. Unsent'
    <3> SUFFICES ASSUME NEW v \in Workers, NEW p \in Ops, InHand(v, p),
                        pc[v] # "sent"
                 PROVE  sends[p] = 0 /\ Launchable(p)'
      BY <2>1, HandsKept DEF Unsent
    <3>1. sends[p] = 0 /\ Launchable(p)
      BY DEF Custody, Unsent
    <3>2. CASE p = o
      BY <2>2, <2>a, <3>1, <3>2 DEF Launchable, IsMerge
    <3>3. CASE p # o
      BY <2>b, <3>1, <3>3 DEF Launchable, IsMerge
    <3>4. QED
      BY <3>2, <3>3
  <2>d. Begun'
    BY <2>1, <2>b, HandsKept DEF Custody, Begun
  <2>e. Sent'
    BY <2>1, <2>b DEF Custody, Sent
  <2>3. Unsent' /\ Begun' /\ Sent'
    BY <2>c, <2>d, <2>e
  <2>4. QED
    BY <2>1, <2>3, HandsKept DEF Custody
<1>4. ASSUME NEW h \in Humans, NEW r \in RoleChoices, NEW on \in BOOLEAN,
             ChangeMember(h, r, on)
      PROVE  Custody'
  BY <1>4, <1>q DEF ChangeMember, opVars, externalVars, workerVars
<1>5. ASSUME NEW h \in Humans, NEW on \in BOOLEAN,
             ChangeAccount(h, on)
      PROVE  Custody'
  BY <1>5, <1>q DEF ChangeAccount, opVars, externalVars, workerVars
<1>6. ASSUME RevokeSession
      PROVE  Custody'
  BY <1>6, <1>q DEF RevokeSession, opVars, externalVars, workerVars
<1>7. ASSUME EndRun
      PROVE  Custody'
  BY <1>7, <1>q DEF EndRun, opVars, externalVars, workerVars
<1>8. ASSUME NEW o \in Ops,
             RequestInvocation(o)
      PROVE  Custody'
  <2>1. UNCHANGED <<pc, work, outcome, sends>>
    BY <1>8 DEF RequestInvocation, externalVars, workerVars
  <2>2. \A v \in Workers : InHand(v, o) => FALSE
    BY <1>8 DEF RequestInvocation, Custody, Begun, Unsent, Sent, TypeOK, InHand
  <2>3. Unsent' /\ Begun' /\ Sent'
    BY <1>8, <2>1, <2>2, HandsKept
       DEF RequestInvocation, Custody, Unsent, Begun, Sent, TypeOK, Launchable,
           IsMerge
  <2>4. QED
    BY <2>1, <2>3, HandsKept DEF Custody
<1>9. ASSUME LeaseLapses
      PROVE  Custody'
  BY <1>9, <1>q DEF LeaseLapses, opVars, externalVars, workerVars
<1>10. ASSUME SessionExpires
      PROVE  Custody'
  BY <1>10, <1>q DEF SessionExpires, opVars, externalVars, workerVars
<1>11. ASSUME NEW o \in Ops,
             BindingExpires(o)
      PROVE  Custody'
  BY <1>11, <1>q DEF BindingExpires, opVars, externalVars, workerVars
<1>12. ASSUME NEW o \in Ops,
             Ages(o)
      PROVE  Custody'
  BY <1>12, <1>q DEF Ages, opVars, externalVars, workerVars
<1>13. ASSUME NEW w \in Workers,
             LoseConnection(w)
      PROVE  Custody'
  BY <1>13, <1>q DEF LoseConnection, opVars, externalVars, workerVars
<1>14. ASSUME NEW o \in Ops, NEW r \in {"applied", "rejected"},
             Answer(o, r)
      PROVE  Custody'
  <2>1. UNCHANGED <<inv, pc, work, sends>> /\ Sent'
    BY <1>14 DEF Answer, opVars, workerVars, Custody, Sent, TypeOK
  <2>2. QED
    BY <2>1, HandsKept DEF Custody, Unsent, Begun, Launchable, IsMerge
<1>15. ASSUME NEW t \in Tools, NEW c \in 1 .. MaxConfig,
             Redeploy(t, c)
      PROVE  Custody'
  BY <1>15, <1>q DEF Redeploy, opVars, externalVars, workerVars
<1>16. ASSUME NEW w \in Workers,
             List(w)
      PROVE  Custody'
  <2>1. pc[w] = "scan"
    BY <1>16 DEF List, Custody, Idle
  <2>2. \A v \in Workers, p \in Ops : InHand(v, p)' => v # w /\ InHand(v, p)
    BY <1>16, <2>1 DEF List, InHand, IsCurrent, TypeOK
  <2>3. UNCHANGED <<inv, outcome, sends, pc>>
    BY <1>16 DEF List, opVars, externalVars
  <2>4. Idle'
    BY <1>16, <2>1, <2>3 DEF List, Custody, Idle, TypeOK
  <2>5. QED
    BY <2>2, <2>3, <2>4
       DEF Custody, OneHand, Unsent, Begun, Sent, Launchable, IsMerge
<1>17. ASSUME NEW w \in Workers,
             Stop(w)
      PROVE  Custody'
  <2>1. \A v \in Workers, p \in Ops :
          InHand(v, p)' => InHand(v, p) /\ pc'[v] = pc[v]
    BY <1>17 DEF Stop, InHand, IsCurrent, TypeOK
  <2>2. UNCHANGED <<inv, outcome, sends>>
    BY <1>17 DEF Stop, opVars, externalVars
  <2>3. Idle'
    BY <1>17 DEF Stop, Custody, Idle, TypeOK
  <2>4. QED
    BY <2>1, <2>2, <2>3
       DEF Custody, OneHand, Unsent, Begun, Sent, Launchable, IsMerge
<1>18. ASSUME NEW w \in Workers, NEW o \in Ops,
             Skip(w, o)
      PROVE  Custody'
  <2>1. Advance(w, o) /\ UNCHANGED <<inv, externalVars>>
    BY <1>18 DEF Skip, opVars
  <2>2. QED
    BY <2>1, CustodyAdvance
<1>19. ASSUME NEW w \in Workers, NEW o \in Ops,
             Interrupt(w, o)
      PROVE  Custody'
  <2>1. Advance(w, o) /\ UNCHANGED externalVars /\ inv'[o] = "UNKNOWN"
        /\ \A p \in Ops \ {o} : inv'[p] = inv[p]
    BY <1>19 DEF Interrupt, TypeOK
  <2>2. QED
    BY <2>1, CustodyAdvance
<1>20. ASSUME NEW w \in Workers, NEW o \in Ops,
             Refuse(w, o)
      PROVE  Custody'
  <2>1. Advance(w, o) /\ UNCHANGED externalVars /\ inv'[o] = "CANCELED"
        /\ \A p \in Ops \ {o} : inv'[p] = inv[p]
    BY <1>20 DEF Refuse, CancelAt, TypeOK
  <2>2. sends[o] = 0 /\ \A v \in Workers \ {w} : ~InHand(v, o)
    BY <1>20 DEF Refuse, Refusable, Custody, Begun, Sent
  <2>3. QED
    BY <2>1, <2>2, CustodyAdvance
<1>21. ASSUME NEW w \in Workers, NEW o \in Ops,
             Start(w, o)
      PROVE  Custody'
  <2>1. UNCHANGED <<outcome, sends, work>>
        /\ inv' = [inv EXCEPT ![o] = "RUNNING"]
        /\ pc' = [pc EXCEPT ![w] = "between"]
    BY <1>21 DEF Start, externalVars
  <2>2. inv[o] = "READY" /\ IsCurrent(w, o) /\ sends[o] = 0
    BY <1>21 DEF Start, At, Custody, Sent
  <2>3. \A v \in Workers : ~InHand(v, o)
    BY <2>2 DEF Custody, Begun
  <2>4. \A v \in Workers, p \in Ops : InHand(v, p)' =>
          (v = w /\ p = o) \/ (v # w /\ p # o /\ InHand(v, p))
    BY <2>1, <2>2, <2>3, OneCurrent DEF InHand, IsCurrent, TypeOK
  <2>5. Idle'
    BY <2>1, <2>2 DEF Custody, Idle, IsCurrent, TypeOK
  <2>6. OneHand'
    BY <2>4 DEF Custody, OneHand
  <2>7. Unsent' /\ Begun'
    BY <2>1, <2>2, <2>4
       DEF Custody, Unsent, Begun, TypeOK, Launchable, IsMerge
  <2>8. Sent'
    BY <2>1, <2>2 DEF Custody, Sent, TypeOK
  <2>9. QED
    BY <2>5, <2>6, <2>7, <2>8 DEF Custody
<1>22. ASSUME NEW w \in Workers, NEW o \in Ops,
             Enter(w, o)
      PROVE  Custody'
  <2>1. UNCHANGED <<inv, outcome, sends, work>>
        /\ pc' = [pc EXCEPT ![w] = "cleared"]
        /\ IsCurrent(w, o) /\ pc[w] = "between"
    BY <1>22 DEF Enter, At, opVars, externalVars
  <2>2. \A v \in Workers, p \in Ops : InHand(v, p)' =>
          InHand(v, p) /\ (v # w => pc'[v] = pc[v])
    BY <2>1 DEF InHand, IsCurrent, TypeOK
  <2>3. Idle'
    BY <2>1 DEF Custody, Idle, IsCurrent, TypeOK
  <2>4. QED
    BY <2>1, <2>2, <2>3
       DEF Custody, OneHand, Unsent, Begun, Sent, Launchable, IsMerge
<1>23. ASSUME NEW w \in Workers, NEW o \in Ops,
             RefuseLate(w, o)
      PROVE  Custody'
  <2>1. Advance(w, o) /\ UNCHANGED externalVars /\ inv'[o] = "CANCELED"
        /\ \A p \in Ops \ {o} : inv'[p] = inv[p]
    BY <1>23 DEF RefuseLate, CancelAt, TypeOK
  <2>2. sends[o] = 0 /\ \A v \in Workers \ {w} : ~InHand(v, o)
    BY <1>23 DEF RefuseLate, At, OneHand, InHand, Unsent, Custody, Begun, Sent
  <2>3. QED
    BY <2>1, <2>2, CustodyAdvance
<1>24. ASSUME NEW w \in Workers, NEW o \in Ops,
             Send(w, o)
      PROVE  Custody'
  <2>1. UNCHANGED <<inv, work>>
        /\ pc' = [pc EXCEPT ![w] = "sent"]
        /\ IsCurrent(w, o) /\ pc[w] = "cleared"
    BY <1>24 DEF Send, At, opVars, externalVars
  <2>2. \A v \in Workers, p \in Ops : InHand(v, p)' =>
          InHand(v, p) /\ (v # w => pc'[v] = pc[v])
    BY <2>1 DEF InHand, IsCurrent, TypeOK
  <2>3. Idle'
    BY <2>1 DEF Custody, Idle, IsCurrent, TypeOK
  <2>4. \A v \in Workers, p \in Ops :
          InHand(v, p) /\ v # w => p # o
    BY <2>1 DEF Custody, OneHand, InHand
  <2>5. sends[o] = 0 /\ inv[o] \in {"RUNNING", "UNKNOWN", "SUCCEEDED"}
    BY <2>1 DEF Custody, Unsent, InHand, Launchable
  <2>6. Sent'
    BY <1>24, <2>1, <2>5 DEF Send, Custody, Sent, TypeOK
  <2>7. Unsent'
    <3> SUFFICES ASSUME NEW v \in Workers, NEW p \in Ops, InHand(v, p)',
                        pc'[v] # "sent"
                 PROVE  sends'[p] = 0 /\ Launchable(p)'
      BY DEF Unsent
    <3>1. v # w
      BY <2>1 DEF TypeOK
    <3>2. InHand(v, p) /\ pc[v] # "sent" /\ p # o
      BY <2>2, <2>4, <3>1
    <3>3. QED
      BY <1>24, <2>1, <3>2
         DEF Send, Custody, Unsent, TypeOK, Launchable, IsMerge
  <2>8. OneHand' /\ Begun'
    BY <2>1, <2>2 DEF Custody, OneHand, Begun
  <2>9. QED
    BY <2>3, <2>6, <2>7, <2>8 DEF Custody
<1>25. ASSUME NEW w \in Workers, NEW o \in Ops, NEW s \in {"SUCCEEDED",
     "UNKNOWN"},
             Finish(w, o, s)
      PROVE  Custody'
  <2>1. Advance(w, o) /\ UNCHANGED externalVars
        /\ inv'[o] \in {"SUCCEEDED", "UNKNOWN"}
        /\ \A p \in Ops \ {o} : inv'[p] = inv[p]
    BY <1>25 DEF Finish, TypeOK
  <2>2. \A v \in Workers \ {w} : ~InHand(v, o)
    BY <1>25 DEF Finish, At, Custody, OneHand, InHand
  <2>3. QED
    BY <2>1, <2>2, CustodyAdvance
<1>25a. ASSUME NEW q \in Ops, OthersMerge(PullOf[q])
       PROVE  Custody'
  BY <1>25a, <1>q DEF OthersMerge, opVars, workerVars
<1>26. CASE UNCHANGED vars
  BY <1>26, <1>q DEF vars, opVars, externalVars, workerVars
<1>27. QED
  BY <1>1, <1>2, <1>3, <1>4, <1>5, <1>6, <1>7, <1>8, <1>9, <1>10,
     <1>11, <1>12, <1>13, <1>14, <1>15, <1>16, <1>17, <1>18, <1>19,
     <1>20, <1>21, <1>22, <1>23, <1>24, <1>25, <1>25a, <1>26
     DEF Next, HumanStep, AgentStep, TimeStep, EnvironmentStep, WorkerStep,
         Judge,
         Perform

(***************************************************************************)
(* The ledger.                                                             *)
(***************************************************************************)
\* The ledger's view of a status.
View(s) == CASE s = "NONE" -> "none"
             [] s = "AWAITING_APPROVAL" -> "open"
             [] s = "READY" -> "granted"
             [] s \in {"RUNNING", "UNKNOWN"} -> "taken"
             [] s = "SUCCEEDED" -> "done"
             [] s = "FAILED" -> "failed"
             [] s = "CANCELED" -> "void"

States == [o \in Ops |-> LedgerState(o)]

\* LedgerState is the view of the status.
LEMMA ViewsAgree == \A o \in Ops : LedgerState(o) = View(inv[o])
BY DEF LedgerState, View

\* One operation changes its status.
LEMMA LedgerMove ==
  ASSUME TypeOK, NEW o \in Ops, NEW s, inv' = [inv EXCEPT ![o] = s]
  PROVE  States' = [States EXCEPT ![o] = View(s)]
<1>1. States = [p \in Ops |-> View(inv[p])]
  BY ViewsAgree DEF States
<1>2. States' = [p \in Ops |-> View(inv'[p])]
  <2>1. \A p \in Ops : LedgerState(p)' = View(inv'[p])
    BY DEF LedgerState, View
  <2>2. QED
    BY <2>1 DEF States
<1>3. \A p \in Ops : inv'[p] = IF p = o THEN s ELSE inv[p]
  BY DEF TypeOK
<1>4. QED
  BY <1>1, <1>2, <1>3

\* The ledger's states depend on the statuses only.
LEMMA LedgerKept ==
  ASSUME TypeOK, UNCHANGED inv
  PROVE  UNCHANGED States
BY DEF States, LedgerState

\* The effects in place depend on the external system only.
LEMMA PlaceKept ==
  ASSUME UNCHANGED <<outcome, merged>>
  PROVE  UNCHANGED InPlace
BY DEF InPlace, IsMerge

\* Every step is a step of the ledger or leaves it alone.
LEMMA LedgerStep ==
  ASSUME TypeOK, AuthorityThroughEffect, Custody, [Next]_vars
  PROVE  [Ledger!LedgerNext]_(Ledger!ledgerVars)
<1> DEFINE Goal == [Ledger!LedgerNext]_(Ledger!ledgerVars)
<1> HIDE DEF Goal
<1>k. ASSUME UNCHANGED <<States, outcome, sends, merged>> PROVE Goal
  BY <1>k, PlaceKept DEF Goal, Ledger!ledgerVars, States
<1>m. ASSUME NEW o \in Ops,
             \/ Ledger!Ask(o) \/ Ledger!Grant(o) \/ Ledger!Take(o)
             \/ Ledger!Void(o) \/ Ledger!Close(o) \/ Ledger!Launch(o)
             \/ Ledger!Answer(o)
      PROVE  Goal
  BY <1>m DEF Goal, Ledger!LedgerNext
<1>1. ASSUME NEW t \in Tools, NEW on \in BOOLEAN,
             ChangePolicy(t, on)
      PROVE  Goal
  BY <1>1, LedgerKept, <1>k DEF ChangePolicy, opVars, externalVars
<1>2. ASSUME NEW h \in Humans, NEW o \in Ops, NEW b \in BOOLEAN,
             DecideApproval(h, o, b)
      PROVE  Goal
  <2>1. inv[o] = "AWAITING_APPROVAL" /\ UNCHANGED <<outcome, sends, merged>>
    BY <1>2 DEF DecideApproval, externalVars
  <2>2. States[o] = "open" /\ sends[o] = 0
    BY <2>1 DEF States, LedgerState, Custody, Sent
  <2>3. PICK s \in {"READY", "CANCELED"} : inv' = [inv EXCEPT ![o] = s]
    BY <1>2 DEF DecideApproval
  <2>4. States' = [States EXCEPT ![o] = View(s)]
    BY <2>3, LedgerMove
  <2>5. View(s) \in {"granted", "void"}
    BY DEF View
  <2>6. Ledger!Grant(o) \/ Ledger!Void(o)
    BY <2>1, <2>2, <2>4, <2>5, PlaceKept
       DEF Ledger!Grant, Ledger!Void, Ledger!Move, States
  <2>7. QED
    BY <2>6, <1>m
<1>3. ASSUME NEW o \in Ops,
             ReconcileInvocation(o)
      PROVE  Goal
  <2>1. inv[o] = "UNKNOWN" /\ UNCHANGED <<outcome, sends, merged>>
    BY <1>3 DEF ReconcileInvocation, externalVars
  <2>2. States[o] = "taken"
    BY <2>1 DEF States, LedgerState
  <2>3. CASE Lookup(o) = "applied"
    <3>1. inv' = [inv EXCEPT ![o] = "SUCCEEDED"]
      BY <1>3, <2>3 DEF ReconcileInvocation
    <3>2. States' = [States EXCEPT ![o] = "done"]
      BY <3>1, LedgerMove DEF View
    <3>a. o \in InPlace
      BY <2>3 DEF Lookup, InPlace
    <3>3. Ledger!Close(o)
      BY <2>1, <2>2, <3>a, <3>2, PlaceKept
         DEF Ledger!Close, Ledger!Move, States
    <3>4. QED
      BY <3>3, <1>m
  <2>4. CASE Lookup(o) = "rejected"
    <3>1. inv' = [inv EXCEPT ![o] = "FAILED"]
      BY <1>3, <2>4 DEF ReconcileInvocation
    <3>2. States' = [States EXCEPT ![o] = "failed"]
      BY <3>1, LedgerMove DEF View
    <3>a. outcome[o] = "rejected"
      BY <2>4 DEF Lookup
    <3>3. Ledger!Close(o)
      BY <2>1, <2>2, <3>a, <3>2, PlaceKept
         DEF Ledger!Close, Ledger!Move, States
    <3>4. QED
      BY <3>3, <1>m
  <2>5. QED
    BY <1>3, <2>3, <2>4 DEF ReconcileInvocation
<1>4. ASSUME NEW h \in Humans, NEW r \in RoleChoices, NEW on \in BOOLEAN,
             ChangeMember(h, r, on)
      PROVE  Goal
  BY <1>4, LedgerKept, <1>k DEF ChangeMember, opVars, externalVars
<1>5. ASSUME NEW h \in Humans, NEW on \in BOOLEAN,
             ChangeAccount(h, on)
      PROVE  Goal
  BY <1>5, LedgerKept, <1>k DEF ChangeAccount, opVars, externalVars
<1>6. ASSUME RevokeSession
      PROVE  Goal
  BY <1>6, LedgerKept, <1>k DEF RevokeSession, opVars, externalVars
<1>7. ASSUME EndRun
      PROVE  Goal
  BY <1>7, LedgerKept, <1>k DEF EndRun, opVars, externalVars
<1>8. ASSUME NEW o \in Ops,
             RequestInvocation(o)
      PROVE  Goal
  <2>1. inv[o] = "NONE" /\ UNCHANGED <<outcome, sends, merged>>
    BY <1>8 DEF RequestInvocation, externalVars
  <2>2. States[o] = "none"
    BY <2>1 DEF States, LedgerState
  <2>3. PICK s \in {"READY", "AWAITING_APPROVAL"} : inv' = [inv EXCEPT ![o] = s]
    BY <1>8 DEF RequestInvocation
  <2>4. States' = [States EXCEPT ![o] = View(s)]
    BY <2>3, LedgerMove
  <2>5. View(s) \in {"open", "granted"}
    BY DEF View
  <2>6. Ledger!Ask(o)
    BY <2>1, <2>2, <2>4, <2>5, PlaceKept DEF Ledger!Ask, Ledger!Move, States
  <2>7. QED
    BY <2>6, <1>m
<1>9. ASSUME LeaseLapses
      PROVE  Goal
  BY <1>9, LedgerKept, <1>k DEF LeaseLapses, opVars, externalVars
<1>10. ASSUME SessionExpires
      PROVE  Goal
  BY <1>10, LedgerKept, <1>k DEF SessionExpires, opVars, externalVars
<1>11. ASSUME NEW o \in Ops,
             BindingExpires(o)
      PROVE  Goal
  BY <1>11, LedgerKept, <1>k DEF BindingExpires, opVars, externalVars
<1>12. ASSUME NEW o \in Ops,
             Ages(o)
      PROVE  Goal
  BY <1>12, LedgerKept, <1>k DEF Ages, opVars, externalVars
<1>13. ASSUME NEW w \in Workers,
             LoseConnection(w)
      PROVE  Goal
  BY <1>13, LedgerKept, <1>k DEF LoseConnection, opVars, externalVars
<1>14. ASSUME NEW o \in Ops, NEW r \in {"applied", "rejected"},
             Answer(o, r)
      PROVE  Goal
  <2>1. outcome[o] = "pending" /\ UNCHANGED <<States, sends>>
        /\ outcome' = [outcome EXCEPT ![o] = r]
    BY <1>14, LedgerKept DEF Answer, opVars
  <2>2. CASE r = "rejected"
    <3>1. UNCHANGED InPlace
      BY <1>14, <2>1, <2>2 DEF Answer, InPlace, IsMerge, TypeOK
    <3>2. Ledger!Answer(o)
      BY <2>1, <2>2, <3>1 DEF Ledger!Answer, States
    <3>3. QED
      BY <3>2, <1>m
  <2>3. CASE r = "applied"
    <3> DEFINE S == {p \in Ops : IsMerge(p) /\ PullOf[p] \in merged'}
    <3>1. S \in SUBSET {p \in Ops : IsMerge(p)}
      OBVIOUS
    <3>2. merged \subseteq merged'
      BY <1>14 DEF Answer
    <3>3. InPlace' = InPlace \cup {o} \cup S
      BY <2>1, <2>3, <3>2 DEF InPlace, IsMerge, TypeOK
    <3>4. \E T \in SUBSET {p \in Ops : IsMerge(p)} :
            InPlace' = InPlace \cup {o} \cup T
      BY <3>1, <3>3
    <3>5. Ledger!Answer(o)
      BY <2>1, <2>3, <3>4 DEF Ledger!Answer, States
    <3>6. QED
      BY <3>5, <1>m
  <2>4. QED
    BY <2>2, <2>3
<1>15. ASSUME NEW t \in Tools, NEW c \in 1 .. MaxConfig,
             Redeploy(t, c)
      PROVE  Goal
  BY <1>15, LedgerKept, <1>k DEF Redeploy, opVars, externalVars
<1>16. ASSUME NEW w \in Workers,
             List(w)
      PROVE  Goal
  BY <1>16, LedgerKept, <1>k DEF List, opVars, externalVars
<1>17. ASSUME NEW w \in Workers,
             Stop(w)
      PROVE  Goal
  BY <1>17, LedgerKept, <1>k DEF Stop, opVars, externalVars
<1>18. ASSUME NEW w \in Workers, NEW o \in Ops,
             Skip(w, o)
      PROVE  Goal
  BY <1>18, LedgerKept, <1>k DEF Skip, opVars, externalVars
<1>19. ASSUME NEW w \in Workers, NEW o \in Ops,
             Interrupt(w, o)
      PROVE  Goal
  <2>1. inv[o] = "RUNNING" /\ inv' = [inv EXCEPT ![o] = "UNKNOWN"]
        /\ UNCHANGED <<outcome, sends, merged>>
    BY <1>19 DEF Interrupt, externalVars
  <2>2. States[o] = "taken"
    BY <2>1 DEF States, LedgerState
  <2>3. States' = [States EXCEPT ![o] = "taken"]
    BY <2>1, LedgerMove DEF View
  <2>4. UNCHANGED States
    BY <2>2, <2>3 DEF States
  <2>5. QED
    BY <2>1, <2>4, <1>k
<1>20. ASSUME NEW w \in Workers, NEW o \in Ops,
             Refuse(w, o)
      PROVE  Goal
  <2>1. inv' = [inv EXCEPT ![o] = "CANCELED"]
        /\ UNCHANGED <<outcome, sends, merged>>
    BY <1>20 DEF Refuse, CancelAt, externalVars
  <2>2. sends[o] = 0 /\ inv[o] \in {"AWAITING_APPROVAL", "READY", "RUNNING"}
    BY <1>20 DEF Refuse, Custody, Sent, Refusable
  <2>3. States[o] \in {"open", "granted", "taken"}
    BY <2>2 DEF States, LedgerState
  <2>4. States' = [States EXCEPT ![o] = "void"]
    BY <2>1, LedgerMove DEF View
  <2>5. Ledger!Void(o)
    BY <2>1, <2>2, <2>3, <2>4, PlaceKept DEF Ledger!Void, Ledger!Move, States
  <2>6. QED
    BY <2>5, <1>m
<1>21. ASSUME NEW w \in Workers, NEW o \in Ops,
             Start(w, o)
      PROVE  Goal
  <2>1. inv[o] = "READY" /\ inv' = [inv EXCEPT ![o] = "RUNNING"]
        /\ UNCHANGED <<outcome, sends, merged>>
    BY <1>21 DEF Start, externalVars
  <2>2. States[o] = "granted"
    BY <2>1 DEF States, LedgerState
  <2>3. States' = [States EXCEPT ![o] = "taken"]
    BY <2>1, LedgerMove DEF View
  <2>4. Ledger!Take(o)
    BY <2>1, <2>2, <2>3, PlaceKept DEF Ledger!Take, Ledger!Move, States
  <2>5. QED
    BY <2>4, <1>m
<1>22. ASSUME NEW w \in Workers, NEW o \in Ops,
             Enter(w, o)
      PROVE  Goal
  BY <1>22, LedgerKept, <1>k DEF Enter, opVars, externalVars
<1>23. ASSUME NEW w \in Workers, NEW o \in Ops,
             RefuseLate(w, o)
      PROVE  Goal
  <2>1. inv' = [inv EXCEPT ![o] = "CANCELED"]
        /\ UNCHANGED <<outcome, sends, merged>>
    BY <1>23 DEF RefuseLate, CancelAt, externalVars
  <2>2. sends[o] = 0 /\ inv[o] \in {"AWAITING_APPROVAL", "READY", "RUNNING"}
    BY <1>23 DEF RefuseLate, Custody, Unsent, At, InHand
  <2>3. States[o] \in {"open", "granted", "taken"}
    BY <2>2 DEF States, LedgerState
  <2>4. States' = [States EXCEPT ![o] = "void"]
    BY <2>1, LedgerMove DEF View
  <2>5. Ledger!Void(o)
    BY <2>1, <2>2, <2>3, <2>4, PlaceKept DEF Ledger!Void, Ledger!Move, States
  <2>6. QED
    BY <2>5, <1>m
<1>24. ASSUME NEW w \in Workers, NEW o \in Ops,
             Send(w, o)
      PROVE  Goal
  <2>1. IsCurrent(w, o) /\ pc[w] = "cleared"
    BY <1>24 DEF Send, At
  <2>2. sends[o] = 0 /\ outcome[o] = "none" /\ Launchable(o)
    BY <2>1 DEF Custody, Unsent, Sent, InHand
  <2>3. /\ States[o] = "taken" \/ (IsMerge(o) /\ States[o] = "done")
        /\ UNCHANGED States
    BY <1>24, <2>2, LedgerKept
       DEF Send, opVars, States, LedgerState, Launchable
  <2>4. /\ sends' = [sends EXCEPT ![o] = 1]
        /\ outcome' = [outcome EXCEPT ![o] = "pending"]
    BY <1>24, <2>2 DEF Send, TypeOK
  <2>a. UNCHANGED InPlace
    BY <1>24, <2>2, <2>4 DEF Send, InPlace, IsMerge, TypeOK
  <2>5. Ledger!Launch(o)
    BY <2>2, <2>3, <2>4, <2>a DEF Ledger!Launch, States
  <2>6. QED
    BY <2>5, <1>m
<1>25. ASSUME NEW w \in Workers, NEW o \in Ops, NEW s \in {"SUCCEEDED",
     "UNKNOWN"},
             Finish(w, o, s)
      PROVE  Goal
  <2>1. inv' = [inv EXCEPT ![o] = s] /\ UNCHANGED <<outcome, sends, merged>>
    BY <1>25 DEF Finish, externalVars
  <2>2. States[o] = "taken"
    BY <1>25, FinishedRuns DEF States, LedgerState
  <2>3. CASE s = "UNKNOWN"
    <3>1. States' = [States EXCEPT ![o] = "taken"]
      BY <2>1, <2>3, LedgerMove DEF View
    <3>2. UNCHANGED States
      BY <2>2, <3>1 DEF States
    <3>3. QED
      BY <2>1, <3>2, <1>k
  <2>4. CASE s = "SUCCEEDED"
    <3>1. States' = [States EXCEPT ![o] = "done"]
      BY <2>1, <2>4, LedgerMove DEF View
    <3>2. o \in InPlace
      BY <1>25, <2>4 DEF Finish, InPlace
    <3>3. Ledger!Close(o)
      BY <2>1, <2>2, <3>1, <3>2, PlaceKept DEF Ledger!Close, Ledger!Move, States
    <3>4. QED
      BY <3>3, <1>m
  <2>5. QED
    BY <1>25, <2>3, <2>4
<1>25a. ASSUME NEW q \in Ops, OthersMerge(PullOf[q])
       PROVE  Goal
  <2>1. InPlace' =
          InPlace \cup {o \in Ops : IsMerge(o) /\ PullOf[o] = PullOf[q]}
    BY <1>25a DEF OthersMerge, InPlace, IsMerge
  <2>2. {o \in Ops : IsMerge(o) /\ PullOf[o] = PullOf[q]}
          \in SUBSET {o \in Ops : IsMerge(o)}
    OBVIOUS
  <2>3. UNCHANGED <<States, outcome, sends>>
    BY <1>25a, LedgerKept DEF OthersMerge, opVars
  <2>4. Ledger!Elsewhere
    BY <2>1, <2>2, <2>3 DEF Ledger!Elsewhere, States
  <2>5. QED
    BY <2>4 DEF Goal, Ledger!LedgerNext
<1>26. CASE UNCHANGED vars
  BY <1>26, LedgerKept, <1>k DEF Goal, vars, opVars, externalVars
<1>27. QED
  BY <1>1, <1>2, <1>3, <1>4, <1>5, <1>6, <1>7, <1>8, <1>9, <1>10,
     <1>11, <1>12, <1>13, <1>14, <1>15, <1>16, <1>17, <1>18, <1>19,
     <1>20, <1>21, <1>22, <1>23, <1>24, <1>25, <1>25a, <1>26
     DEF Goal, Next, HumanStep, AgentStep, TimeStep, EnvironmentStep,
         WorkerStep, Judge,
         Perform

(***************************************************************************)
(* The theorems.                                                           *)
(***************************************************************************)
\* The invariant holds at first,
LEMMA InitGInv == Init => GInv
<1> SUFFICES ASSUME Init PROVE GInv
  OBVIOUS
<1>1. TypeOK
  BY GatewayAssumption DEF Init, TypeOK, Invocations, Approvals, Policy, Binding
<1>2. DecisionsPaired
  BY DEF Init, DecisionsPaired
<1>3. AuthorityThroughEffect
  BY GatewayAssumption DEF Init, AuthorityThroughEffect
<1>4. Custody
  BY DEF Init, Custody, Idle, OneHand, Unsent, Begun, Sent, InHand, IsCurrent
<1>5. QED
  BY <1>1, <1>2, <1>3, <1>4 DEF GInv

\* every step keeps it,
LEMMA GInvStep == GInv /\ [Next]_vars => GInv'
BY TypeStep, PairedStep, AuthorityStep, CustodyStep DEF GInv

\* so it always holds.
LEMMA GInvHolds == Spec => []GInv
BY InitGInv, GInvStep, PTL DEF Spec

\* Every variable of the gateway keeps the type of its column.
THEOREM GatewayTypeCorrect == Spec => []TypeOK
<1>1. GInv => TypeOK
  BY DEF GInv
<1>2. QED
  BY <1>1, GInvHolds, PTL

\* What can be decided is exactly what is listed as pending, and nothing is
\* executed without the decision of another human (decideApproval and
\* processInvocation), for any number of operations, workers and humans.
THEOREM DecisionsPairedHolds == Spec => []DecisionsPaired
<1>1. GInv => DecisionsPaired
  BY DEF GInv
<1>2. QED
  BY <1>1, GInvHolds, PTL

\* The second transaction of processInvocation: the authority the project
\* gave an operation stays from the last check to the saved result.
THEOREM AuthorityThroughEffectHolds == Spec => []AuthorityThroughEffect
<1>1. GInv => AuthorityThroughEffect
  BY DEF GInv
<1>2. QED
  BY <1>1, GInvHolds, PTL

\* The gateway implements the ledger: initial states are initial, and every
\* step is a step of the ledger or changes nothing in it.
THEOREM GatewayKeepsLedger == Spec => KeepsLedger
<1>1. Init => Ledger!LedgerInit
  BY DEF Init, Ledger!LedgerInit, LedgerState, InPlace
<1>2. GInv /\ [Next]_vars => [Ledger!LedgerNext]_(Ledger!ledgerVars)
  BY LedgerStep DEF GInv
<1>3. QED
  BY <1>1, <1>2, GInvHolds, PTL DEF Spec, KeepsLedger, Ledger!LedgerSpec
=============================================================================
