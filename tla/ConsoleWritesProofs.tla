------------------------- MODULE ConsoleWritesProofs -------------------------
(***************************************************************************)
(* ConsoleWrites keeps its types; a retried write takes effect once, an    *)
(* assignment is made once, a reported success is real, and what was       *)
(* confirmed is not sent again, for every form and any number of openings, *)
(* requests, losses and other people's writes.                             *)
(***************************************************************************)
EXTENDS ConsoleWrites, TLAPS

(***************************************************************************)
(* The forms.                                                              *)
(***************************************************************************)
\* What every form has in common.
Stepped(st) ==
  /\ DOMAIN st = 1..Len(st) /\ Len(st) \in 1..3
  /\ \A s \in 1..Len(st) :
       /\ st[s].base \in Bases
       /\ st[s].ensured => s < Len(st) /\ st[s].base = "reread"
Shape(f) ==
  /\ Stepped(f.steps)
  /\ f.safe => Len(f.steps) = 1 /\ f.steps[1].base = "none" /\ f.held

\* The lists of steps in use.
LEMMA StepLists ==
  /\ Stepped(<<Create>>) /\ Stepped(<<OnOpened>>) /\ Stepped(<<OnProp>>)
  /\ Stepped(<<OnReread>>) /\ Stepped(<<Ensured, OnReread>>)
  /\ Stepped(<<Create, OnReread>>) /\ Stepped(<<Create, Create, OnReread>>)
BY DEF Stepped, Create, OnOpened, OnProp, OnReread, Ensured, Bases

\* Every way of making a form of a list of steps.
LEMMA Kinds ==
  ASSUME NEW st, Stepped(st)
  PROVE  /\ Shape(Page(st)) /\ Shape(Dialog(st)) /\ Shape(Vanishing(st))
         /\ \A d : Shape([Vanishing(st) EXCEPT !.dead = d])
BY DEF Shape, Page, Dialog, Vanishing

\* The one safe form.
LEMMA SafeShape == Shape(CreateTask)
BY StepLists DEF Shape, CreateTask, Create, Dialog, Page

\* All of them.
LEMMA FormShapes == \A f \in Forms : Shape(f)
<1>1. /\ Shape(EditTask) /\ Shape(TransferTask) /\ Shape(AddDependency)
      /\ Shape(ArchiveTask) /\ Shape(SubmitTask) /\ Shape(CancelTask)
      /\ Shape(ReviewTask) /\ Shape(SaveVersion) /\ Shape(PublishVersion)
      /\ Shape(SyncGit) /\ Shape(ReconcileTool) /\ Shape(RevokeSession)
      /\ Shape(ReplayEvent) /\ Shape(ReconcileOperation)
      /\ Shape(RegisterPerson) /\ Shape(AddProjectMember)
      /\ Shape(ToggleWebhook) /\ Shape(RotateWebhook)
      /\ Shape(RemoveWebhook)
  BY StepLists, Kinds
     DEF EditTask, TransferTask, AddDependency, ArchiveTask, SubmitTask,
         CancelTask, ReviewTask, SaveVersion, PublishVersion, SyncGit,
         ReconcileTool, RevokeSession, ReplayEvent, ReconcileOperation,
         RegisterPerson, AddProjectMember, ToggleWebhook, RotateWebhook,
         RemoveWebhook
<1>2. /\ Shape(SaveContext) /\ Shape(CreateGitContext)
      /\ Shape(DecideApproval) /\ Shape(VerifyArtifact)
      /\ Shape(ReviewArtifact) /\ Shape(RegisterTool) /\ Shape(ChangeTool)
      /\ Shape(RegisterAgent) /\ Shape(AddMember) /\ Shape(ChangeMember)
      /\ Shape(RenameProject) /\ Shape(CreateProject)
  BY StepLists, Kinds
     DEF SaveContext, CreateGitContext, DecideApproval, VerifyArtifact,
         ReviewArtifact, RegisterTool, ChangeTool, RegisterAgent, AddMember,
         ChangeMember, RenameProject, CreateProject
<1>3. /\ Shape(BulkTransferRow) /\ Shape(SendComment)
      /\ Shape(ChangeComment) /\ Shape(GrantSession)
      /\ Shape(RestoreProject) /\ Shape(MarkAllRead)
  BY StepLists, Kinds
     DEF BulkTransferRow, SendComment, ChangeComment, GrantSession,
         RestoreProject, MarkAllRead
<1>4. /\ Shape(DeactivateMember) /\ Shape(ArchiveProject)
      /\ Shape(DeactivateAccount) /\ Shape(ReactivateAccount)
      /\ Shape(ChangeOrgAdmin) /\ Shape(CreateWebhook)
      /\ Shape(RegisterRepository) /\ Shape(MarkRead)
  BY StepLists, Kinds
     DEF DeactivateMember, ArchiveProject, DeactivateAccount,
         ReactivateAccount, ChangeOrgAdmin, CreateWebhook,
         RegisterRepository, MarkRead
<1>5. QED
  BY SafeShape, <1>1, <1>2, <1>3, <1>4, SMTT(60) DEF Forms

(***************************************************************************)
(* The strengthening.                                                      *)
(***************************************************************************)
Uis ==
  [phase: Open \cup {"closed", "mounted"}, typed: Versions,
   shown: Versions, intent: Intents \cup {0}, body: Intents \cup {0},
   step: Steps, attempt: Keys \cup {None}, call: Request \cup {None}]
Srvs ==
  [version: Versions, records: SUBSET Request,
   maintenance: BOOLEAN, barred: BOOLEAN]
Uncertains == [Operations -> Keys \cup {None}]

\* From these phases another request of the same intention can come.
Active ==
  {"editing", "reading", "rereading", "sending", "unknown", "error"}
Live == Active \cup {"refreshing"}
\* In these a step of the write is under way.
Midway == {"reading", "rereading", "sending"}

\* The phases: what is awaited, which step it is, and that the bound on
\* requests leaves room for the steps to come.
Awaited ==
  /\ ui.phase \in Live => ui.intent \in Intents /\ ui.body \in Intents
  /\ ui.phase \in {"sending", "refreshing"} =>
       /\ ui.call \in Request
       /\ ui.call.intent = ui.intent /\ ui.call.step = ui.step
  /\ ui.phase \notin {"sending", "refreshing"} => ui.call = None
  /\ ui.call = None => reply = None
Stepping ==
  /\ ui.phase \in Midway => ui.step \in 1..Last
  /\ ui.phase \in Reading =>
       /\ form.steps[ui.step].base = "reread"
       /\ sent + (Last - ui.step) < MaxSends
  /\ ui.phase = "sending" => sent + (Last - ui.step) <= MaxSends
  /\ ui.phase \in {"sending", "unknown"} /\ form.safe => ui.attempt # None
  /\ ui.phase = "unknown" => form.safe
Phases == Awaited /\ Stepping

\* All requests the server has or may still get.
Reqs == wire \cup srv.records

\* The version in a request is what its step says.
BaseOf(r) ==
  /\ form.steps[r.step].base = "none" => r.base = 0
  /\ form.steps[r.step].base # "none" => r.base # 0
  /\ form.steps[r.step].base = "reread" => r.base <= srv.version
Sound ==
  \A r \in Reqs : r.step \in 1..Last /\ r.intent <= ui.intent /\ BaseOf(r)

\* An intention has one body, and a step conditional on the opened copy
\* names one version per intention.
OneCopy ==
  /\ \A q, r \in Reqs :
       q.intent = r.intent =>
         /\ q.body = r.body
         /\ q.step = r.step /\ form.steps[r.step].base = "opened"
            => q.base = r.base
  /\ \A r \in Reqs :
       r.intent = ui.intent /\ ui.phase \in Live =>
         /\ r.body = ui.body
         /\ form.steps[r.step].base = "opened" => r.base = ui.typed

\* A safe form uses one key per intention until it gives the key up.
OneKey ==
  form.safe =>
    /\ \A q, r \in Reqs :
         q.intent = r.intent /\ dropped[r.intent] = {} => q.key = r.key
    /\ \A r \in Reqs :
         /\ r.intent = ui.intent /\ ui.phase \in Live
         /\ dropped[r.intent] = {}
         => r.key = ui.attempt
    /\ ui.phase \in Live \ {"editing"} /\ dropped[ui.intent] = {} =>
         ui.attempt # None
Asked == Sound /\ OneCopy /\ OneKey

\* What was executed, was executed at a version that has passed.
OnRecord == \A r \in srv.records : r.base < srv.version
\* Once an ensured step is done, requests for it come too late, unless they
\* were sent on the version it had moved already.
TooLate ==
  \A r \in wire :
    form.steps[r.step].ensured /\ DoneBefore(r.step) =>
      r.base < srv.version \/ r.id \in crossed
Executed == OnRecord /\ TooLate /\ RetriedOnce /\ EnsuredOnce

\* A success on its way is real, and so are the steps before the current one.
Done(i, s) ==
  IF form.steps[s].ensured THEN DoneBefore(s)
  ELSE \E r \in accepted : r.intent = i /\ r.step = s
\* The same once the current step has been taken, which executes nothing.
DoneNext(i, s) ==
  IF form.steps[s].ensured THEN DoneBefore(s)
  ELSE \E r \in accepted' : r.intent = i /\ r.step = s
Honest ==
  /\ reply \in {"ok", "replay"} => Recorded(ui.call)
  /\ ui.phase \in Midway =>
       \A s \in 1..Last : s < ui.step => Done(ui.intent, s)
  /\ \A r \in accepted :
       /\ Recorded(r)
       /\ r.step = Last =>
            \A s \in 1..Last : s < Last => Done(r.intent, s)

\* A form whose writes are not to be sent again does not await more of a
\* confirmed intention.
Unconfirmed ==
  /\ \A r \in accepted : r.intent <= ui.intent
  /\ ui.phase = "refreshing" => ~form.closes
  /\ (form.held \/ form.closes) /\ ui.phase \in Active =>
       \A r \in accepted : r.step = Last => r.intent # ui.intent

WInv ==
  TypeOK /\ Phases /\ Asked /\ Executed /\ Honest /\ Unconfirmed

(***************************************************************************)
(* Starting a step.                                                        *)
(***************************************************************************)
\* The form goes on to a phase of step s, otherwise as it was in u.
Moved(u, s, p) ==
  /\ ui' \in Uis
  /\ ui'.phase = p /\ ui'.step = s
  /\ ui'.typed = u.typed /\ ui'.intent = u.intent /\ ui'.body = u.body
  /\ ui'.attempt = u.attempt

\* One request is sent for step s.
Asks(u, s, base, r) ==
  /\ Moved(u, s, "sending") /\ ui'.call = r
  /\ wire' = wire \cup {r} /\ sent' = sent + 1
  /\ r.id = sent + 1 /\ r.intent = u.intent /\ r.body = u.body
  /\ r.step = s /\ r.base = base
  /\ u.attempt # None => r.key = u.attempt

\* Post is that.
LEMMA Posted ==
  ASSUME BoundsAssumption, NEW u \in Uis, NEW keys \in Uncertains,
         NEW s \in Steps, NEW base \in Versions \cup {0},
         u.intent \in Intents, u.body \in Intents,
         sent \in 0..MaxSends, sent < MaxSends,
         Post(u, keys, s, base)
  PROVE  /\ \E r \in Request : Asks(u, s, base, r)
         /\ uncertain' \in Uncertains
<1> DEFINE op == <<u.body, s, base>>
           key == IF u.attempt # None THEN u.attempt
                  ELSE IF keys[op] # None THEN keys[op] ELSE sent + 1
           r == [id |-> sent + 1, key |-> key, intent |-> u.intent,
                 body |-> u.body, step |-> s, base |-> base]
<1>1. op \in Operations
  BY DEF Operations
<1>2. sent + 1 \in Keys
  BY DEF BoundsAssumption, Keys
<1>3. key \in Keys
  BY <1>1, <1>2 DEF Uis, Uncertains
<1>4. r \in Request
  BY <1>2, <1>3 DEF Request, Uis
<1>5. /\ sent' = sent + 1 /\ wire' = wire \cup {r}
      /\ ui' = [u EXCEPT !.phase = "sending", !.step = s, !.call = r]
      /\ uncertain' = [keys EXCEPT ![op] = key]
  BY DEF Post
<1>6. u.attempt # None => r.key = u.attempt
  OBVIOUS
<1>7. r.id = sent + 1 /\ r.intent = u.intent /\ r.body = u.body
      /\ r.step = s /\ r.base = base
  OBVIOUS
<1> HIDE DEF r, key
<1>8. ui' \in Uis
  BY <1>4, <1>5 DEF Uis, Open
<1>9. Moved(u, s, "sending") /\ ui'.call = r
  BY <1>5, <1>8 DEF Moved, Uis
<1>10. uncertain' \in Uncertains
  BY <1>3, <1>5 DEF Uncertains
<1>11. QED
  BY <1>4, <1>5, <1>6, <1>7, <1>9, <1>10 DEF Asks

\* A step begins with a GET, or is sent with the version it names.
Begins(u, s) ==
  \/ /\ form.steps[s].base = "reread"
     /\ \E p \in Reading : Moved(u, s, p)
     /\ ui'.call = None
     /\ UNCHANGED <<sent, wire, crossed>>
  \/ \E base \in Versions \cup {0}, r \in Request :
       /\ Asks(u, s, base, r)
       /\ form.steps[s].base = "none" => base = 0
       /\ form.steps[s].base # "none" => base # 0
       /\ form.steps[s].base = "opened" => base = u.typed
       /\ form.steps[s].base = "reread" =>
            /\ base = srv.version
            /\ form.steps[s].ensured /\ DoneBefore(s) => r.id \in crossed'
       /\ crossed \subseteq crossed' /\ crossed' \subseteq Keys

\* StartStep is that.
LEMMA Started ==
  ASSUME BoundsAssumption, Shape(form), NEW u \in Uis,
         NEW keys \in Uncertains, NEW s \in 1..Last,
         u.intent \in Intents, u.body \in Intents,
         sent \in 0..MaxSends, sent < MaxSends,
         crossed \subseteq Keys, crossed' = crossed,
         StartStep(u, keys, s)
  PROVE  Begins(u, s) /\ uncertain' \in Uncertains
<1>1. s \in Steps /\ form.steps[s].base \in Bases
  BY DEF Shape, Stepped, Last, Steps
<1>2. /\ u.typed \in Versions \cup {0} /\ u.typed # 0
      /\ u.shown \in Versions \cup {0} /\ u.shown # 0
      /\ 0 \in Versions \cup {0}
  BY DEF Uis, Versions
<1>3. CASE form.steps[s].base = "reread"
  <2>1. ui' = [u EXCEPT !.phase = "reading", !.step = s, !.call = None]
    BY <1>3 DEF StartStep
  <2>2. None \in Request \cup {None} /\ "reading" \in Open
    BY DEF Open
  <2>3. Moved(u, s, "reading") /\ ui'.call = None
    BY <1>1, <2>1, <2>2 DEF Moved, Uis
  <2>4. uncertain' = keys /\ UNCHANGED <<sent, wire>>
    BY <1>3 DEF StartStep
  <2>5. "reading" \in Reading
    BY DEF Reading
  <2>6. QED
    BY <1>3, <2>3, <2>4, <2>5 DEF Begins
<1>4. CASE form.steps[s].base = "none"
  <2>1. Post(u, keys, s, 0)
    BY <1>4 DEF StartStep
  <2>2. QED
    BY <1>1, <1>2, <1>4, <2>1, Posted DEF Begins
<1>5. CASE form.steps[s].base = "opened"
  <2>1. Post(u, keys, s, u.typed)
    BY <1>5 DEF StartStep
  <2>2. QED
    BY <1>1, <1>2, <1>5, <2>1, Posted DEF Begins
<1>6. CASE form.steps[s].base = "prop"
  <2>1. Post(u, keys, s, u.shown)
    BY <1>6 DEF StartStep
  <2>2. QED
    BY <1>1, <1>2, <1>6, <2>1, Posted DEF Begins
<1>7. QED
  BY <1>1, <1>3, <1>4, <1>5, <1>6 DEF Bases

(***************************************************************************)
(* What a step of the form is: it starts a step of the write, or settles   *)
(* something and sends nothing, or only the server moves.                  *)
(***************************************************************************)
\* A step of the write starts or is looked at again: at Submit, at the retry
\* button, after a GET, or after the step before it, which is then done.
Starting(u, s) ==
  /\ u \in Uis /\ u.intent = ui.intent /\ u.typed = ui.typed
  /\ u.body = ui.body
  /\ ui.phase \in Active
  /\ form.safe => u.attempt # None
  /\ ui.attempt # None => u.attempt = ui.attempt
  /\ s \in 1..Last /\ sent + (Last - s) < MaxSends
  /\ \A t \in 1..Last : t < s => DoneNext(ui.intent, t)
  /\ Begins(u, s)
  /\ uncertain' \in Uncertains
  /\ reply' = None
  /\ \/ accepted' = accepted
     \/ /\ ui.phase = "sending" /\ ui.step # Last
        /\ reply \in {"ok", "replay"}
        /\ accepted' = accepted \cup {ui.call}
  /\ UNCHANGED <<form, srv, left, dropped>>

\* What the four ways have in common to begin with.
LEMMA Underway ==
  ASSUME BoundsAssumption, WInv, Shape(form)
  PROVE  /\ ui \in Uis /\ uncertain \in Uncertains /\ sent \in 0..MaxSends
         /\ ui.phase \in Live => ui.intent \in Intents /\ ui.body \in Intents
         /\ Last \in 1..3 /\ form \in Forms /\ crossed \subseteq Keys
         /\ srv \in Srvs
BY DEF WInv, TypeOK, Uis, Uncertains, Srvs, Phases, Awaited, Shape, Stepped,
       Last

LEMMA SubmitStarts ==
  ASSUME BoundsAssumption, WInv, Shape(form), Submit
  PROVE  \E u \in Uis, s \in 1..Last : Starting(u, s)
<1> DEFINE a == IF form.safe /\ ui.attempt = None THEN sent + 1
                ELSE ui.attempt
           u == [ui EXCEPT !.attempt = a]
<1>1. /\ ui \in Uis /\ uncertain \in Uncertains /\ sent \in 0..MaxSends
      /\ ui.phase \in Live => ui.intent \in Intents /\ ui.body \in Intents
      /\ Last \in 1..3 /\ crossed \subseteq Keys
  BY Underway
<1>2. /\ ui.phase \in {"editing", "error"} /\ sent + Last <= MaxSends
      /\ StartStep(u, uncertain, 1)
      /\ UNCHANGED <<formVars, history, reply, left, srv>>
  BY DEF Submit
<1>3. sent < MaxSends /\ sent + 1 \in Keys /\ sent + 1 # None
  BY <1>1, <1>2 DEF Keys, BoundsAssumption
<1>4. a \in Keys \cup {None} /\ (form.safe => a # None)
      /\ (ui.attempt # None => a = ui.attempt)
  BY <1>1, <1>3 DEF Uis
<1> HIDE DEF a
<1>5. u \in Uis /\ u.intent = ui.intent /\ u.typed = ui.typed
      /\ u.body = ui.body /\ u.attempt = a
  BY <1>1, <1>4 DEF Uis
<1>6. ui.phase \in Active /\ ui.phase \in Live /\ reply = None
  BY <1>2 DEF Active, Live, WInv, Phases, Awaited
<1> HIDE DEF u
<1>7. Begins(u, 1) /\ uncertain' \in Uncertains
  BY <1>1, <1>2, <1>3, <1>5, <1>6, Started DEF history
<1>8. sent + (Last - 1) < MaxSends
  BY <1>1, <1>2 DEF BoundsAssumption
<1>9. Starting(u, 1)
  BY <1>1, <1>2, <1>4, <1>5, <1>6, <1>7, <1>8
     DEF Starting, formVars, history
<1>10. QED
  BY <1>1, <1>5, <1>9

LEMMA RetryStarts ==
  ASSUME BoundsAssumption, WInv, Shape(form), Retry
  PROVE  \E u \in Uis, s \in 1..Last : Starting(u, s)
<1>1. /\ ui \in Uis /\ uncertain \in Uncertains /\ sent \in 0..MaxSends
      /\ ui.phase \in Live => ui.intent \in Intents /\ ui.body \in Intents
      /\ Last \in 1..3 /\ crossed \subseteq Keys
  BY Underway
<1>2. /\ ui.phase = "unknown" /\ sent < MaxSends
      /\ StartStep(ui, uncertain, 1)
      /\ UNCHANGED <<formVars, history, reply, left, srv>>
  BY DEF Retry
<1>3. ui.phase \in Active /\ ui.phase \in Live /\ reply = None
      /\ form.safe
  BY <1>2 DEF Active, Live, WInv, Phases, Awaited, Stepping
<1>4. Last = 1
  BY <1>3 DEF Shape, Last
<1>5. Begins(ui, 1) /\ uncertain' \in Uncertains
  BY <1>1, <1>2, <1>3, Started DEF history
<1>6. ui.attempt # None
  BY <1>2, <1>3 DEF WInv, Phases, Stepping
<1>7. Starting(ui, 1)
  BY <1>1, <1>2, <1>3, <1>4, <1>5, <1>6
     DEF Starting, BoundsAssumption, formVars, history
<1>8. QED
  BY <1>1, <1>7

\* A request sent on the version a GET gave.
LEMMA ReadPosts ==
  ASSUME BoundsAssumption, WInv, Shape(form), ui.phase \in Reading,
         Post(ui, uncertain, ui.step, srv.version),
         \/ ~form.steps[ui.step].ensured /\ crossed' = crossed
         \/ crossed' = IF DoneBefore(ui.step) THEN crossed \cup {sent + 1}
                       ELSE crossed,
         UNCHANGED <<form, accepted, reply, left, srv, dropped>>
  PROVE  \E u \in Uis, s \in 1..Last : Starting(u, s)
<1>1. /\ ui \in Uis /\ uncertain \in Uncertains /\ sent \in 0..MaxSends
      /\ ui.phase \in Live => ui.intent \in Intents /\ ui.body \in Intents
      /\ Last \in 1..3 /\ crossed \subseteq Keys /\ srv \in Srvs
  BY Underway
<1>2. /\ ui.phase \in Active /\ ui.phase \in Live /\ ui.phase \in Midway
      /\ ui.phase \notin {"sending", "refreshing"}
  BY DEF Active, Live, Midway, Reading
<1>3. /\ reply = None /\ ui.step \in 1..Last
      /\ form.steps[ui.step].base = "reread"
      /\ sent + (Last - ui.step) < MaxSends
  BY <1>2 DEF WInv, Phases, Awaited, Stepping
<1>4. ~form.safe /\ sent < MaxSends /\ sent + 1 \in Keys
  BY <1>1, <1>3 DEF Shape, Last, BoundsAssumption, Keys
<1>5. \A t \in 1..Last : t < ui.step => Done(ui.intent, t)
  BY <1>2 DEF WInv, Honest
<1>6. srv.version \in Versions \cup {0} /\ srv.version # 0
  BY <1>1 DEF Srvs, Versions
<1>7. ui.step \in Steps
  BY <1>1, <1>3 DEF Steps
<1>8. /\ \E r \in Request : Asks(ui, ui.step, srv.version, r)
      /\ uncertain' \in Uncertains
  BY <1>1, <1>2, <1>4, <1>6, <1>7, Posted
<1>9. crossed \subseteq crossed' /\ crossed' \subseteq Keys
  BY <1>1, <1>4
<1>10. Begins(ui, ui.step)
  BY <1>3, <1>6, <1>8, <1>9 DEF Begins, Asks
<1>11. \A t \in 1..Last : t < ui.step => DoneNext(ui.intent, t)
  BY <1>5 DEF Done, DoneNext
<1>12. Starting(ui, ui.step)
  BY <1>1, <1>2, <1>3, <1>4, <1>8, <1>10, <1>11 DEF Starting
<1>13. QED
  BY <1>1, <1>3, <1>12

LEMMA ReadStarts ==
  ASSUME BoundsAssumption, WInv, Shape(form), Read \/ Reread
  PROVE  \E u \in Uis, s \in 1..Last : Starting(u, s)
<1>1. /\ ui \in Uis /\ uncertain \in Uncertains /\ sent \in 0..MaxSends
      /\ ui.phase \in Live => ui.intent \in Intents /\ ui.body \in Intents
      /\ Last \in 1..3 /\ crossed \subseteq Keys
  BY Underway
<1>2. ui.phase \in Reading
  BY DEF Read, Reread, Reading
<1>3. /\ ui.phase \in Active /\ ui.phase \in Live /\ ui.phase \in Midway
      /\ ui.phase \notin {"sending", "refreshing"}
  BY <1>2 DEF Active, Live, Midway, Reading
<1>4. /\ reply = None /\ ui.step \in 1..Last /\ ui.call = None
      /\ form.steps[ui.step].base = "reread"
      /\ sent + (Last - ui.step) < MaxSends
  BY <1>2, <1>3 DEF WInv, Phases, Awaited, Stepping
<1>5. ~form.safe /\ sent < MaxSends
  BY <1>1, <1>4 DEF Shape, Last, BoundsAssumption
<1>6. \A t \in 1..Last : t < ui.step => Done(ui.intent, t)
  BY <1>3 DEF WInv, Honest
<1>7. CASE Reread
  BY <1>2, <1>7, ReadPosts DEF Reread, formVars
<1>8. CASE Read /\ ~form.steps[ui.step].ensured
  BY <1>2, <1>8, ReadPosts DEF Read, formVars, history
<1>9. ASSUME Read, form.steps[ui.step].ensured, DoneBefore(ui.step)
      PROVE  \E u \in Uis, s \in 1..Last : Starting(u, s)
  <2>1. /\ StartStep(ui, uncertain, ui.step + 1)
        /\ UNCHANGED <<formVars, history, reply, left, srv>>
    BY <1>9 DEF Read
  <2>2. ui.step + 1 \in 1..Last
    <3>1. ui.step < Last
      BY <1>4, <1>9 DEF Shape, Stepped, Last
    <3>2. QED
      BY <1>1, <1>4, <3>1
  <2>3. Begins(ui, ui.step + 1) /\ uncertain' \in Uncertains
    BY <1>1, <1>3, <1>5, <2>1, <2>2, Started DEF history
  <2>4. sent + (Last - (ui.step + 1)) < MaxSends
    BY <1>1, <1>4, <2>2 DEF BoundsAssumption
  <2>5. \A t \in 1..Last : t < ui.step + 1 => Done(ui.intent, t)
    BY <1>1, <1>4, <1>6, <1>9 DEF Done
  <2>6. \A t \in 1..Last : t < ui.step + 1 => DoneNext(ui.intent, t)
    BY <2>1, <2>5 DEF Done, DoneNext, history
  <2>7. Starting(ui, ui.step + 1)
    BY <1>1, <1>3, <1>4, <1>5, <2>1, <2>2, <2>3, <2>4, <2>6
       DEF Starting, formVars, history
  <2>8. QED
    BY <1>1, <2>2, <2>7
<1>10. ASSUME Read, form.steps[ui.step].ensured, ~DoneBefore(ui.step)
       PROVE  \E u \in Uis, s \in 1..Last : Starting(u, s)
  <2>1. /\ ui' = [ui EXCEPT !.phase = "rereading"]
        /\ UNCHANGED <<keyVars, wire>>
        /\ UNCHANGED <<formVars, history, reply, left, srv>>
    BY <1>10 DEF Read
  <2>2. Moved(ui, ui.step, "rereading") /\ ui'.call = None
    BY <1>1, <1>4, <2>1 DEF Moved, Uis, Open
  <2>3. Begins(ui, ui.step)
    BY <1>4, <2>1, <2>2 DEF Begins, Reading, keyVars, history
  <2>4. \A t \in 1..Last : t < ui.step => DoneNext(ui.intent, t)
    BY <1>6, <2>1 DEF Done, DoneNext, history
  <2>5. Starting(ui, ui.step)
    BY <1>1, <1>3, <1>4, <1>5, <2>1, <2>3, <2>4
       DEF Starting, formVars, keyVars, history
  <2>6. QED
    BY <1>1, <1>4, <2>5
<1>11. QED
  BY <1>7, <1>8, <1>9, <1>10

LEMMA StepSucceedsStarts ==
  ASSUME BoundsAssumption, WInv, Shape(form), StepSucceeds
  PROVE  \E u \in Uis, s \in 1..Last : Starting(u, s)
<1>1. /\ ui \in Uis /\ uncertain \in Uncertains /\ sent \in 0..MaxSends
      /\ ui.phase \in Live => ui.intent \in Intents /\ ui.body \in Intents
      /\ Last \in 1..3 /\ crossed \subseteq Keys
  BY Underway
<1>2. /\ ui.phase = "sending" /\ reply \in {"ok", "replay"}
      /\ ui.step < Last /\ reply' = None
      /\ accepted' = accepted \cup {ui.call}
      /\ StartStep(ui, Forget(ui.call), ui.step + 1)
      /\ UNCHANGED <<formVars, crossed, left, srv>>
  BY DEF StepSucceeds
<1>3. /\ ui.phase \in Active /\ ui.phase \in Live /\ ui.phase \in Midway
      /\ ui.step \in 1..Last
      /\ sent + (Last - ui.step) <= MaxSends
      /\ ui.call \in Request
      /\ ui.call.intent = ui.intent /\ ui.call.step = ui.step
  BY <1>2 DEF Active, Live, Midway, WInv, Phases, Awaited, Stepping
<1>4. ui.step + 1 \in 1..Last /\ ui.step # Last
  BY <1>1, <1>2, <1>3
<1>5. ~form.safe
  <2>1. form.safe => Last = 1
    BY DEF Shape, Last
  <2>2. Last # 1
    BY <1>1, <1>2, <1>3
  <2>3. QED
    BY <2>1, <2>2
<1>6. sent < MaxSends /\ sent + (Last - (ui.step + 1)) < MaxSends
  BY <1>1, <1>3, <1>4 DEF BoundsAssumption
<1>7. Forget(ui.call) \in Uncertains
  BY <1>1 DEF Forget, Uncertains
<1>8. Begins(ui, ui.step + 1) /\ uncertain' \in Uncertains
  BY <1>1, <1>2, <1>3, <1>4, <1>6, <1>7, Started
<1>9. Recorded(ui.call)
  BY <1>2 DEF WInv, Honest
<1>10. DoneNext(ui.intent, ui.step)
  <2>1. DoneBefore(ui.step)
    BY <1>3, <1>9 DEF Recorded, DoneBefore, OpOf
  <2>2. QED
    BY <1>2, <1>3, <2>1 DEF DoneNext
<1>11. \A t \in 1..Last : t < ui.step => Done(ui.intent, t)
  BY <1>3 DEF WInv, Honest
<1>12. \A t \in 1..Last : Done(ui.intent, t) => DoneNext(ui.intent, t)
  BY <1>2 DEF Done, DoneNext
<1>13. \A t \in 1..Last : t < ui.step + 1 => DoneNext(ui.intent, t)
  BY <1>1, <1>3, <1>10, <1>11, <1>12
<1>14. Starting(ui, ui.step + 1)
  BY <1>1, <1>2, <1>3, <1>4, <1>5, <1>6, <1>8, <1>13
     DEF Starting, formVars
<1>15. QED
  BY <1>1, <1>4, <1>14

\* The form settles something and sends nothing.
Quiet ==
  /\ ui' \in Uis /\ uncertain' \in Uncertains
  /\ reply' \in Refusals \cup {"ok", "replay", None}
  /\ dropped' \in [Intents -> SUBSET Failures]
  /\ \A i \in Intents : dropped'[i] = {} => dropped[i] = {}
  /\ left' \subseteq Request
  /\ UNCHANGED <<form, sent, wire, srv, crossed>>
\* What is awaited, and which phases it may be in.
Rests ==
  /\ ui'.phase \notin Midway
  /\ ui'.phase # "refreshing" =>
       ui'.call = None /\ reply' = None
  /\ ui'.phase = "refreshing" =>
       /\ ui.phase = "sending" /\ ui'.call = ui.call /\ reply' = reply
       /\ ui'.step = ui.step /\ ~form.closes
  /\ ui'.phase = "unknown" => form.safe /\ ui'.attempt # None
\* It opens with a new intention, or goes on with the one it has.
Opens ==
  /\ ui'.intent = ui.intent + 1 /\ ui'.phase = "editing"
  /\ ui'.body \in Intents
  /\ UNCHANGED <<accepted, dropped>>
Goes ==
  /\ ui'.intent = ui.intent
  /\ ui'.phase \in Live =>
       ui.phase \in Live /\ ui'.typed = ui.typed /\ ui'.body = ui.body
  /\ ui'.phase \in Live /\ form.safe =>
       \/ dropped'[ui.intent] # {}
       \/ /\ ui'.attempt = ui.attempt
          /\ ui'.phase # "editing" => ui.phase # "editing"
  /\ ui'.phase \in Active =>
       ui.phase \in Active \/ ~(form.held \/ form.closes)
Confirms ==
  \/ accepted' = accepted
  \/ /\ ui.phase = "sending" /\ ui.step = Last /\ reply \in {"ok", "replay"}
     /\ accepted' = accepted \cup {ui.call}
     /\ ui'.phase \notin Active
Settling == Quiet /\ Rests /\ (Opens \/ (Goes /\ Confirms))

\* A failure that is shown gives the attempt up.
LEMMA Failed ==
  ASSUME ui \in Uis, ui.phase \in Active, ui.intent \in Intents,
         dropped \in [Intents -> SUBSET Failures],
         NEW kind \in Failures, AfterFailure(kind), reply' = None,
         left \subseteq Request,
         UNCHANGED <<form, sent, history, wire, left, srv>>,
         uncertain' \in Uncertains
  PROVE  Settling
<1>1. /\ ui' = [ui EXCEPT !.phase = IF kind \in form.dead THEN "dead"
                                    ELSE "error",
                          !.attempt = None, !.call = None]
      /\ dropped' = IF form.safe
                    THEN [dropped EXCEPT ![ui.intent] = @ \cup {kind}]
                    ELSE dropped
  BY DEF AfterFailure
<1>2. None \in Keys \cup {None} /\ None \in Request \cup {None}
  OBVIOUS
<1>3. /\ ui' \in Uis /\ ui'.phase \in {"dead", "error"}
      /\ ui'.intent = ui.intent /\ ui'.typed = ui.typed
      /\ ui'.body = ui.body /\ ui'.call = None
  BY <1>1, <1>2 DEF Uis, Open
<1>4. /\ dropped' \in [Intents -> SUBSET Failures]
      /\ \A i \in Intents : dropped'[i] = {} => dropped[i] = {}
      /\ form.safe => dropped'[ui.intent] # {}
  BY <1>1
<1>5. reply' \in Refusals \cup {"ok", "replay", None}
  OBVIOUS
<1>6. Quiet
  BY <1>3, <1>4, <1>5 DEF Quiet, history
<1>7. Rests
  BY <1>3 DEF Rests, Midway
<1>8. Goes
  BY <1>3, <1>4 DEF Goes, Live
<1>9. QED
  BY <1>6, <1>7, <1>8 DEF Settling, Confirms, history

\* What the ways of settling have in common to begin with.
LEMMA Unsettled ==
  ASSUME BoundsAssumption, WInv, Shape(form)
  PROVE  /\ ui \in Uis /\ uncertain \in Uncertains /\ left \subseteq Request
         /\ ui.phase \in Live => ui.intent \in Intents /\ ui.body \in Intents
         /\ dropped \in [Intents -> SUBSET Failures]
         /\ srv.version \in Versions
         /\ reply \in Refusals \cup {"ok", "replay", None}
         /\ None \in Keys \cup {None} /\ None \in Request \cup {None}
         /\ None \in Refusals \cup {"ok", "replay", None}
         /\ \A i \in Intents : dropped[i] = {} => dropped[i] = {}
         /\ ui.phase \notin {"sending", "refreshing"} =>
              ui.call = None /\ reply = None
         /\ ui.phase = "sending" =>
              ui.call \in Request /\ Forget(ui.call) \in Uncertains
<1>1. /\ ui \in Uis /\ uncertain \in Uncertains /\ left \subseteq Request
      /\ dropped \in [Intents -> SUBSET Failures]
      /\ srv.version \in Versions
      /\ reply \in Refusals \cup {"ok", "replay", None}
  BY DEF WInv, TypeOK, Uis, Uncertains
<1>2. /\ ui.phase \in Live => ui.intent \in Intents /\ ui.body \in Intents
      /\ ui.phase \notin {"sending", "refreshing"} =>
           ui.call = None /\ reply = None
      /\ ui.phase = "sending" => ui.call \in Request
  BY DEF WInv, Phases, Awaited
<1>3. \A r : Forget(r) \in Uncertains
  BY <1>1 DEF Forget, Uncertains
<1>4. QED
  BY <1>1, <1>2, <1>3

LEMMA OpenSettles ==
  ASSUME BoundsAssumption, WInv, Shape(form), OpenForm
  PROVE  Settling
<1>1. /\ ui.phase \in {"closed", "mounted"} /\ ui.intent < MaxIntents
      /\ UNCHANGED <<formVars, keyVars, history, wire, reply, left, srv>>
  BY DEF OpenForm
<1>2. PICK b \in 1..(ui.intent + 1) :
        ui' = [ui EXCEPT !.phase = "editing", !.intent = @ + 1, !.body = b,
                         !.typed = IF ui.phase = "mounted" THEN @
                                   ELSE ui.shown]
  BY DEF OpenForm
<1>3. ui.intent + 1 \in Intents /\ b \in Intents
  BY <1>1, <1>2, Unsettled DEF Uis, Intents, BoundsAssumption
<1>4. /\ ui' \in Uis /\ ui'.intent = ui.intent + 1
      /\ ui'.phase = "editing" /\ ui'.call = ui.call /\ ui'.body = b
  BY <1>2, <1>3, Unsettled DEF Uis, Open
<1>5. Quiet
  BY <1>1, <1>4, Unsettled DEF Quiet, formVars, keyVars, history
<1>6. QED
  BY <1>1, <1>3, <1>4, <1>5, Unsettled
     DEF Settling, Rests, Opens, Midway, formVars, history

\* The failures that are shown.
LEMMA FailureSettles ==
  ASSUME BoundsAssumption, WInv, Shape(form),
         \/ Invalid \/ ReadFails \/ Fails
         \/ ~form.safe /\ (Unanswered \/ Garbled)
  PROVE  Settling
<1>1. CASE Invalid
  <2>1. /\ ui.phase \in {"editing", "error"} /\ AfterFailure("invalid")
        /\ UNCHANGED <<form, keyVars, history, wire, reply, left, srv>>
    BY <1>1 DEF Invalid
  <2>2. ui.phase \in Active /\ ui.phase \in Live /\ reply' = None
    BY <2>1, Unsettled DEF Active, Live
  <2>3. "invalid" \in Failures /\ uncertain' \in Uncertains
    BY <2>1, Unsettled DEF Failures, keyVars
  <2>4. UNCHANGED <<form, sent, history, wire, left, srv>>
    BY <2>1 DEF keyVars
  <2>5. QED
    BY <2>1, <2>2, <2>3, <2>4, Failed, Unsettled
<1>2. CASE ReadFails
  <2>1. /\ ui.phase \in Reading /\ AfterFailure("lost")
        /\ UNCHANGED <<form, keyVars, history, wire, reply, left, srv>>
    BY <1>2 DEF ReadFails
  <2>2. ui.phase \in Active /\ ui.phase \in Live /\ reply' = None
    BY <2>1, Unsettled DEF Active, Live, Reading
  <2>3. "lost" \in Failures /\ uncertain' \in Uncertains
    BY <2>1, Unsettled DEF Failures, keyVars
  <2>4. UNCHANGED <<form, sent, history, wire, left, srv>>
    BY <2>1 DEF keyVars
  <2>5. QED
    BY <2>1, <2>2, <2>3, <2>4, Failed, Unsettled
<1>3. CASE Fails
  <2>1. /\ ui.phase = "sending" /\ reply \in Refusals
        /\ uncertain' = IF reply = "maintenance" THEN uncertain
                        ELSE Forget(ui.call)
        /\ AfterFailure(reply)
        /\ reply' = None
        /\ UNCHANGED <<form, sent, history, wire, left, srv>>
    BY <1>3 DEF Fails
  <2>2. ui.phase \in Active /\ ui.phase \in Live /\ reply \in Failures
    BY <2>1 DEF Active, Live, Failures
  <2>3. uncertain' \in Uncertains
    BY <2>1, Unsettled
  <2>4. QED
    BY <2>1, <2>2, <2>3, Failed, Unsettled
<1>4. CASE ~form.safe /\ (Unanswered \/ Garbled)
  <2>1. /\ ui.phase = "sending" /\ AfterFailure("lost") /\ reply' = None
        /\ UNCHANGED <<form, sent, history, wire, left, srv>>
    BY <1>4 DEF Unanswered, Garbled, keyVars
  <2>2. ui.phase \in Active /\ ui.phase \in Live /\ "lost" \in Failures
    BY <2>1 DEF Active, Live, Failures
  <2>3. uncertain' \in Uncertains
    BY <1>4, <2>1, Unsettled DEF Unanswered, Garbled, keyVars
  <2>4. QED
    BY <2>1, <2>2, <2>3, Failed, Unsettled
<1>5. QED
  BY <1>1, <1>2, <1>3, <1>4

\* A safe form whose answer is missing or unreadable keeps its attempt.
LEMMA UnknownSettles ==
  ASSUME BoundsAssumption, WInv, Shape(form), form.safe,
         Unanswered \/ Garbled
  PROVE  Settling
<1>1. /\ ui.phase = "sending" /\ reply' = None
      /\ ui' = [ui EXCEPT !.phase = "unknown", !.call = None]
      /\ uncertain' \in {uncertain,
                         [uncertain EXCEPT ![OpOf(ui.call)] = ui.call.key]}
      /\ UNCHANGED <<form, sent, history, wire, left, srv, dropped>>
  BY DEF Unanswered, Garbled, keyVars
<1>2. ui.call.key \in Keys
  BY <1>1, Unsettled DEF Request
<1>3. uncertain' \in Uncertains
  BY <1>1, <1>2, Unsettled DEF Uncertains
<1>4. /\ ui' \in Uis /\ ui'.phase = "unknown" /\ ui'.call = None
      /\ ui'.intent = ui.intent /\ ui'.typed = ui.typed
      /\ ui'.body = ui.body /\ ui'.attempt = ui.attempt
  BY <1>1, Unsettled DEF Uis, Open
<1>5. Quiet
  BY <1>1, <1>3, <1>4, Unsettled DEF Quiet, history
<1>6. ui.attempt # None
  BY <1>1 DEF WInv, Phases, Stepping
<1>7. Rests
  BY <1>1, <1>4, <1>6 DEF Rests, Midway
<1>8. QED
  BY <1>1, <1>4, <1>5, <1>7
     DEF Settling, Goes, Confirms, Live, Active, history

LEMMA SuccessSettles ==
  ASSUME BoundsAssumption, WInv, Shape(form), Succeeds
  PROVE  Settling
<1>1. /\ ui.phase = "sending" /\ reply \in {"ok", "replay"}
      /\ ui.step = Last
      /\ uncertain' = Forget(ui.call)
      /\ accepted' = accepted \cup {ui.call}
      /\ ui' = IF form.closes
               THEN [ui EXCEPT !.phase = "closed", !.attempt = None,
                               !.call = None]
               ELSE [ui EXCEPT !.phase = "refreshing"]
      /\ reply' = IF form.closes THEN None ELSE reply
      /\ UNCHANGED <<formVars, crossed, sent, wire, left, srv>>
  BY DEF Succeeds
<1>2. CASE form.closes
  <2>1. /\ ui' \in Uis /\ ui'.phase = "closed" /\ ui'.call = None
        /\ ui'.intent = ui.intent
    BY <1>1, <1>2, Unsettled DEF Uis
  <2>2. reply' = None
    BY <1>1, <1>2
  <2>3. Quiet
    BY <1>1, <2>1, <2>2, Unsettled DEF Quiet, formVars
  <2>4. Rests
    BY <2>1, <2>2 DEF Rests, Midway
  <2>5. QED
    BY <1>1, <2>1, <2>3, <2>4 DEF Settling, Goes, Confirms, Live, Active
<1>3. CASE ~form.closes
  <2>1. /\ ui' \in Uis /\ ui'.phase = "refreshing" /\ ui'.call = ui.call
        /\ ui'.step = ui.step /\ ui'.body = ui.body
        /\ ui'.intent = ui.intent /\ ui'.typed = ui.typed
        /\ ui'.attempt = ui.attempt
    BY <1>1, <1>3, Unsettled DEF Uis, Open
  <2>2. reply' = reply
    BY <1>1, <1>3
  <2>3. Quiet
    BY <1>1, <2>1, <2>2, Unsettled DEF Quiet, formVars
  <2>4. Rests
    BY <1>1, <1>3, <2>1, <2>2 DEF Rests, Midway
  <2>5. Goes /\ Confirms
    BY <1>1, <2>1 DEF Goes, Confirms, Live, Active
  <2>6. QED
    BY <2>3, <2>4, <2>5 DEF Settling
<1>4. QED
  BY <1>2, <1>3

LEMMA RefreshSettles ==
  ASSUME BoundsAssumption, WInv, Shape(form), Refreshes \/ RefreshFails
  PROVE  Settling
<1>1. CASE Refreshes
  <2> DEFINE after == IF form.safe /\ reply = "replay" THEN "replayed"
                      ELSE IF form.mounted THEN "mounted" ELSE "closed"
             held == IF form.mounted /\ ui.call.base # 0
                        /\ ui.call.base < MaxVersion
                     THEN ui.call.base + 1 ELSE ui.typed
  <2>1. /\ ui.phase = "refreshing"
        /\ ui' = [ui EXCEPT !.phase = after, !.shown = srv.version,
                            !.typed = held, !.attempt = None, !.call = None]
        /\ reply' = None
        /\ UNCHANGED <<formVars, keyVars, history, wire, left, srv>>
    BY <1>1 DEF Refreshes
  <2>2. ui.call.base \in Versions \cup {0}
    BY <2>1 DEF WInv, Phases, Awaited, Request
  <2>3. held \in Versions
    BY <2>2, Unsettled DEF Versions, Uis, BoundsAssumption
  <2>4. after \in {"replayed", "mounted", "closed"}
    OBVIOUS
  <2> HIDE DEF after, held
  <2>5. /\ ui' \in Uis /\ ui'.phase \in {"replayed", "mounted", "closed"}
        /\ ui'.call = None /\ ui'.intent = ui.intent
    BY <2>1, <2>3, <2>4, Unsettled DEF Uis, Open
  <2>6. Quiet
    BY <2>1, <2>5, Unsettled DEF Quiet, formVars, keyVars, history
  <2>7. Rests
    BY <2>1, <2>5 DEF Rests, Midway
  <2>8. QED
    BY <2>1, <2>5, <2>6, <2>7
       DEF Settling, Goes, Confirms, Live, Active, history
<1>2. CASE RefreshFails
  <2>1. /\ ui.phase = "refreshing"
        /\ ui' = [ui EXCEPT !.phase = IF form.held THEN "completed"
                                      ELSE "error",
                            !.attempt = None, !.call = None]
        /\ reply' = None
        /\ UNCHANGED <<formVars, keyVars, history, wire, left, srv>>
    BY <1>2 DEF RefreshFails
  <2>2. /\ ui' \in Uis /\ ui'.call = None /\ ui'.intent = ui.intent
        /\ ui'.typed = ui.typed /\ ui'.body = ui.body
        /\ ui'.phase = IF form.held THEN "completed" ELSE "error"
    BY <2>1, Unsettled DEF Uis, Open
  <2>3. Quiet
    BY <2>1, <2>2, Unsettled DEF Quiet, formVars, keyVars, history
  <2>4. Rests
    BY <2>1, <2>2 DEF Rests, Midway
  <2>5. ~form.closes /\ (form.safe => form.held)
    BY <2>1 DEF WInv, Unconfirmed, Shape
  <2>6. Goes
    BY <2>1, <2>2, <2>5 DEF Goes, Live, Active
  <2>7. QED
    BY <2>1, <2>3, <2>4, <2>6 DEF Settling, Confirms, history
<1>3. QED
  BY <1>1, <1>2

LEMMA LeaveSettles ==
  ASSUME BoundsAssumption, WInv, Shape(form), Leave
  PROVE  Settling
<1>1. /\ ui' = [ui EXCEPT !.phase = "closed", !.attempt = None,
                          !.call = None]
      /\ reply' = None
      /\ left' = left \/ (ui.phase = "sending" /\ left' = left \cup {ui.call})
      /\ UNCHANGED <<formVars, keyVars, history, wire, srv>>
  BY DEF Leave
<1>2. /\ ui' \in Uis /\ ui'.phase = "closed" /\ ui'.call = None
      /\ ui'.intent = ui.intent
  BY <1>1, Unsettled DEF Uis
<1>3. Quiet
  BY <1>1, <1>2, Unsettled DEF Quiet, formVars, keyVars, history
<1>4. QED
  BY <1>1, <1>2, <1>3
     DEF Settling, Rests, Goes, Confirms, Live, Active, Midway, history

LEMMA ReloadSettles ==
  ASSUME BoundsAssumption, WInv, Shape(form), Reload
  PROVE  Settling
<1>1. /\ ui.phase \in {"closed", "mounted", "editing", "error"}
      /\ ui' = [ui EXCEPT !.shown = srv.version]
      /\ UNCHANGED <<formVars, keyVars, history, wire, reply, left, srv>>
  BY DEF Reload
<1>2. /\ ui' \in Uis /\ ui'.phase = ui.phase /\ ui'.call = ui.call
      /\ ui'.intent = ui.intent /\ ui'.typed = ui.typed
      /\ ui'.body = ui.body /\ ui'.attempt = ui.attempt
  BY <1>1, Unsettled DEF Uis
<1>3. Quiet
  BY <1>1, <1>2, Unsettled DEF Quiet, formVars, keyVars, history
<1>4. Rests
  BY <1>1, <1>2, Unsettled DEF Rests, Midway
<1>5. Goes
  BY <1>2 DEF Goes
<1>6. QED
  BY <1>1, <1>3, <1>4, <1>5 DEF Settling, Confirms, history

\* Only the server, the network or other people move, or an answer nobody
\* shows arrives.
Elsewhere ==
  /\ srv' \in Srvs /\ srv.version <= srv'.version
  /\ reply' \in Refusals \cup {"ok", "replay", None}
  /\ wire' \subseteq wire /\ left' \subseteq left
  /\ uncertain' \in Uncertains
  /\ reply' # reply => ui.call # None
  /\ UNCHANGED <<form, ui, sent, accepted, crossed, dropped>>
\* Nothing is executed.
Refuses ==
  /\ Elsewhere
  /\ srv'.records = srv.records
  /\ reply' \in {"ok", "replay"} => reply' = reply \/ Recorded(ui.call)
\* The request r is executed.
Executes(r) ==
  /\ Elsewhere
  /\ r \in wire /\ ~Recorded(r) /\ ~Stale(r)
  /\ srv'.records = srv.records \cup {r}
  /\ srv'.version = IF r.base = 0 THEN srv.version ELSE srv.version + 1
  /\ ui.call = r \/ reply' = reply

LEMMA Serves ==
  ASSUME BoundsAssumption, NoneAssumption, WInv, Shape(form),
         NEW r \in wire, NEW v, Serve(r, v)
  PROVE  Refuses \/ Executes(r)
<1>1. /\ srv \in Srvs /\ wire \subseteq Request /\ r \in Request
      /\ reply \in Refusals \cup {"ok", "replay", None}
      /\ uncertain \in Uncertains
  BY DEF WInv, TypeOK, Srvs, Uncertains
<1>2. /\ v \in Verdicts(r) /\ wire' = wire \ {r} /\ left' \subseteq left
      /\ srv' = IF v = "ok"
                THEN [srv EXCEPT !.version = IF r.base = 0 THEN @ ELSE @ + 1,
                                 !.records = @ \cup {r}]
                ELSE srv
      /\ reply' = IF ui.call = r THEN v ELSE reply
      /\ UNCHANGED <<form, ui, uncertain, sent, accepted, crossed, dropped>>
  BY DEF Serve, formVars, keyVars, history
<1>3. /\ v \in Refusals \cup {"ok", "replay"}
      /\ v = "replay" => Recorded(r)
      /\ v = "ok" => /\ ~Recorded(r) /\ ~Stale(r)
                     /\ r.base = 0 \/ srv.version < MaxVersion
  BY <1>2 DEF Verdicts, Refusals
<1>4. r # None
  BY <1>1 DEF NoneAssumption
<1>5. reply' \in Refusals \cup {"ok", "replay", None}
  BY <1>1, <1>2, <1>3
<1>6. reply' # reply => ui.call # None
  BY <1>2, <1>4
<1>7. CASE v # "ok"
  <2>1. srv' = srv /\ srv.version <= srv'.version
    BY <1>1, <1>2, <1>7 DEF Srvs, Versions
  <2>2. Elsewhere
    BY <1>1, <1>2, <1>5, <1>6, <2>1 DEF Elsewhere
  <2>3. reply' \in {"ok", "replay"} => reply' = reply \/ Recorded(ui.call)
    BY <1>2, <1>3, <1>7
  <2>4. QED
    BY <2>1, <2>2, <2>3 DEF Refuses
<1>8. CASE v = "ok"
  <2>1. srv' = [srv EXCEPT !.version = IF r.base = 0 THEN @ ELSE @ + 1,
                           !.records = @ \cup {r}]
    BY <1>2, <1>8
  <2>2. /\ srv'.version = IF r.base = 0 THEN srv.version ELSE srv.version + 1
        /\ srv'.records = srv.records \cup {r}
    BY <1>1, <2>1 DEF Srvs
  <2>3. srv'.version \in Versions /\ srv.version <= srv'.version
    BY <1>1, <1>3, <1>8, <2>2 DEF Srvs, Versions, BoundsAssumption
  <2>4. srv' \in Srvs
    BY <1>1, <2>1, <2>2, <2>3 DEF Srvs
  <2>5. Elsewhere
    BY <1>1, <1>2, <1>5, <1>6, <2>3, <2>4 DEF Elsewhere
  <2>6. QED
    BY <1>2, <1>3, <1>8, <2>2, <2>5 DEF Executes
<1>9. QED
  BY <1>7, <1>8

LEMMA Others ==
  ASSUME BoundsAssumption, WInv,
         \/ \E r \in wire : LoseRequest(r)
         \/ \E r \in left : LateAnswer(r)
         \/ OthersWrite \/ StandingChanges
  PROVE  Refuses
<1>1. /\ srv \in Srvs /\ srv.version <= srv.version
      /\ reply \in Refusals \cup {"ok", "replay", None}
      /\ uncertain \in Uncertains
  BY DEF WInv, TypeOK, Srvs, Uncertains, Versions
<1>2. CASE \E r \in wire : LoseRequest(r)
  BY <1>1, <1>2
     DEF LoseRequest, Refuses, Elsewhere, formVars, keyVars, history
<1>3. CASE \E r \in left : LateAnswer(r)
  <2>1. uncertain' \in Uncertains
    BY <1>1, <1>3 DEF LateAnswer, Forget, Uncertains
  <2>2. QED
    BY <1>1, <1>3, <2>1
       DEF LateAnswer, Refuses, Elsewhere, formVars, history
<1>4. CASE OthersWrite
  <2>1. /\ srv.version < MaxVersion
        /\ srv' = [srv EXCEPT !.version = @ + 1]
        /\ UNCHANGED <<form, ui, uncertain, sent, wire, reply, left,
                       accepted, crossed, dropped>>
    BY <1>4 DEF OthersWrite, formVars, keyVars, history
  <2>2. /\ srv' \in Srvs /\ srv.version <= srv'.version
        /\ srv'.records = srv.records
    BY <1>1, <2>1 DEF Srvs, Versions, BoundsAssumption
  <2>3. QED
    BY <1>1, <2>1, <2>2 DEF Refuses, Elsewhere
<1>5. CASE StandingChanges
  <2>1. /\ \/ srv' = [srv EXCEPT !.maintenance = ~@]
           \/ srv' = [srv EXCEPT !.barred = ~@]
        /\ UNCHANGED <<form, ui, uncertain, sent, wire, reply, left,
                       accepted, crossed, dropped>>
    BY <1>5 DEF StandingChanges, formVars, keyVars, history
  <2>2. /\ srv' \in Srvs /\ srv'.version = srv.version
        /\ srv'.records = srv.records
    BY <1>1, <2>1 DEF Srvs
  <2>3. QED
    BY <1>1, <2>1, <2>2 DEF Refuses, Elsewhere
<1>6. QED
  BY <1>2, <1>3, <1>4, <1>5

\* Those are all the steps there are.
LEMMA Classes ==
  ASSUME BoundsAssumption, NoneAssumption, WInv, [Next]_vars
  PROVE  \/ \E u \in Uis, s \in 1..Last : Starting(u, s)
         \/ Settling \/ Refuses
         \/ \E r \in wire : Executes(r)
<1>1. Shape(form)
  BY FormShapes DEF WInv, TypeOK
<1>2. CASE Submit \/ Retry \/ Read \/ Reread \/ StepSucceeds
  BY <1>1, <1>2, SubmitStarts, RetryStarts, ReadStarts, StepSucceedsStarts
<1>3. CASE OpenForm \/ Leave \/ Reload \/ Succeeds
  BY <1>1, <1>3, OpenSettles, LeaveSettles, ReloadSettles, SuccessSettles
<1>4. CASE \/ Invalid \/ ReadFails \/ Fails \/ Unanswered \/ Garbled
           \/ Refreshes \/ RefreshFails
  BY <1>1, <1>4, FailureSettles, UnknownSettles, RefreshSettles
<1>5. CASE \E r \in wire :
             \E v \in {"maintenance", "barred", "replay", "conflict", "rule",
                       "ok"} : Serve(r, v)
  BY <1>1, <1>5, Serves
<1>6. CASE \/ \E r \in wire : LoseRequest(r)
           \/ \E r \in left : LateAnswer(r)
           \/ OthersWrite \/ StandingChanges
  BY <1>6, Others
<1>7. CASE UNCHANGED vars
  BY <1>7
     DEF vars, formVars, keyVars, history, Refuses, Elsewhere, WInv, TypeOK,
         Srvs, Uncertains, Versions
<1>8. QED
  BY <1>2, <1>3, <1>4, <1>5, <1>6, <1>7 DEF Next, Settles

(***************************************************************************)
(* Starting a step keeps the strengthening.                                *)
(***************************************************************************)
\* The request r for step s is sent.
New(u, s, r) ==
  /\ wire' = wire \cup {r} /\ sent' = sent + 1
  /\ ui'.call = r /\ ui'.phase = "sending"
  /\ r.intent = ui.intent /\ r.body = ui.body /\ r.step = s
  /\ u.attempt # None => r.key = u.attempt
  /\ form.steps[s].base = "none" => r.base = 0
  /\ form.steps[s].base # "none" => r.base # 0
  /\ form.steps[s].base = "opened" => r.base = ui.typed
  /\ form.steps[s].base = "reread" =>
       /\ r.base = srv.version
       /\ form.steps[s].ensured /\ DoneBefore(s) => r.id \in crossed'
\* Nothing is sent before a GET is answered.
Looks(s) ==
  /\ wire' = wire /\ sent' = sent /\ ui'.call = None
  /\ ui'.phase \in Reading /\ form.steps[s].base = "reread"

\* What the two ways of beginning have in common.
LEMMA Begun ==
  ASSUME WInv, NEW u \in Uis, NEW s \in 1..Last, Starting(u, s)
  PROVE  /\ ui' \in Uis /\ ui'.intent = ui.intent /\ ui'.typed = ui.typed
         /\ ui'.body = ui.body
         /\ ui'.attempt = u.attempt /\ ui'.step = s
         /\ ui'.phase \in Midway
         /\ ui.intent \in Intents /\ ui.body \in Intents
         /\ crossed \subseteq crossed' /\ crossed' \subseteq Keys
         /\ Looks(s) \/ \E r \in Request : New(u, s, r)
<1>1. /\ ui.phase \in Active /\ u.intent = ui.intent /\ u.typed = ui.typed
      /\ u.body = ui.body
  BY DEF Starting
<1>2. ui.intent \in Intents /\ ui.body \in Intents /\ crossed \subseteq Keys
  BY <1>1 DEF WInv, TypeOK, Phases, Awaited, Live
<1>3. Begins(u, s)
  BY DEF Starting
<1>4. CASE /\ form.steps[s].base = "reread"
           /\ \E p \in Reading : Moved(u, s, p)
           /\ ui'.call = None
           /\ UNCHANGED <<sent, wire, crossed>>
  BY <1>1, <1>2, <1>4 DEF Moved, Looks, Reading, Midway
<1>5. ASSUME NEW base \in Versions \cup {0}, NEW r \in Request,
             /\ Asks(u, s, base, r)
             /\ form.steps[s].base = "none" => base = 0
             /\ form.steps[s].base # "none" => base # 0
             /\ form.steps[s].base = "opened" => base = u.typed
             /\ form.steps[s].base = "reread" =>
                  /\ base = srv.version
                  /\ form.steps[s].ensured /\ DoneBefore(s) =>
                       r.id \in crossed'
             /\ crossed \subseteq crossed' /\ crossed' \subseteq Keys
      PROVE  /\ ui' \in Uis /\ ui'.intent = ui.intent
             /\ ui'.typed = ui.typed /\ ui'.body = ui.body
             /\ ui'.attempt = u.attempt /\ ui'.step = s
             /\ ui'.phase \in Midway
             /\ New(u, s, r)
  BY <1>1, <1>5 DEF Asks, Moved, New, Midway
<1>6. QED
  BY <1>2, <1>3, <1>4, <1>5 DEF Begins

LEMMA StartingKeeps ==
  ASSUME BoundsAssumption, NoneAssumption, WInv, Shape(form),
         NEW u \in Uis, NEW s \in 1..Last, Starting(u, s)
  PROVE  WInv'
<1>1. /\ ui' \in Uis /\ ui'.intent = ui.intent /\ ui'.typed = ui.typed
      /\ ui'.body = ui.body
      /\ ui'.attempt = u.attempt /\ ui'.step = s
      /\ ui'.phase \in Midway
      /\ ui.intent \in Intents /\ ui.body \in Intents
      /\ crossed \subseteq crossed' /\ crossed' \subseteq Keys
  BY Begun
<1>2. /\ ui.phase \in Active /\ ui.phase \in Live
      /\ form.safe => u.attempt # None
      /\ ui.attempt # None => u.attempt = ui.attempt
      /\ sent + (Last - s) < MaxSends
      /\ \A t \in 1..Last : t < s => DoneNext(ui.intent, t)
      /\ uncertain' \in Uncertains
      /\ reply' = None
      /\ \/ accepted' = accepted
         \/ /\ ui.phase = "sending" /\ ui.step # Last
            /\ reply \in {"ok", "replay"}
            /\ accepted' = accepted \cup {ui.call}
      /\ UNCHANGED <<form, srv, left, dropped>>
  BY DEF Starting, Live
<1>3. Last \in 1..3 /\ sent \in 0..MaxSends /\ Last' = Last /\ s \in Steps
  <2>1. Last \in 1..3
    BY DEF Shape, Stepped, Last
  <2>2. Last' = Last
    BY <1>2 DEF Last
  <2>3. s \in Steps
    BY <2>1 DEF Steps
  <2>4. sent \in 0..MaxSends
    BY DEF WInv, TypeOK
  <2>5. QED
    BY <2>1, <2>2, <2>3, <2>4
<1>4. /\ ui'.phase \in Live /\ ui'.phase \in Active
      /\ ui'.phase # "refreshing" /\ ui'.phase # "unknown"
      /\ ui'.phase # "editing"
  BY <1>1 DEF Live, Active, Midway
<1>5. Looks(s) \/ \E r \in Request : New(u, s, r)
  BY Begun
<1>6. ui.phase = "sending" =>
        /\ ui.call \in Request /\ ui.call.intent = ui.intent
        /\ ui.call.step = ui.step
  BY DEF WInv, Phases, Awaited
<1>7. TypeOK'
  <2>1. wire' \subseteq Request /\ sent' \in 0..MaxSends
    BY <1>2, <1>3, <1>5 DEF New, Looks, WInv, TypeOK, BoundsAssumption
  <2>2. accepted' \subseteq Request
    BY <1>2, <1>6 DEF WInv, TypeOK
  <2>3. QED
    BY <1>1, <1>2, <2>1, <2>2 DEF WInv, TypeOK, Uis, Uncertains
<1>8. Phases'
  <2>1. CASE Looks(s)
    BY <1>1, <1>2, <1>3, <1>4, <2>1
       DEF Phases, Awaited, Stepping, Looks, Reading
  <2>2. ASSUME NEW r \in Request, New(u, s, r)
        PROVE  Phases'
    <3>1. sent' + (Last - s) <= MaxSends
      BY <1>2, <1>3, <2>2 DEF New, BoundsAssumption
    <3>2. r # None
      BY DEF NoneAssumption
    <3>3. QED
      BY <1>1, <1>2, <1>3, <1>4, <2>2, <3>1, <3>2
         DEF Phases, Awaited, Stepping, New, Reading
  <2>3. QED
    BY <1>5, <2>1, <2>2
<1>9. Asked'
  <2>1. CASE Looks(s)
    <3>1. Reqs' = Reqs
      BY <1>2, <2>1 DEF Reqs, Looks
    <3>2. Sound'
      BY <1>1, <1>2, <1>3, <3>1 DEF WInv, Asked, Sound, BaseOf
    <3>3. OneCopy'
      BY <1>1, <1>2, <3>1 DEF WInv, Asked, OneCopy
    <3>4. OneKey'
      <4>1. form.safe => Last = 1 /\ form.steps[1].base = "none"
        BY DEF Shape, Last
      <4>2. form.steps[s].base = "reread"
        BY <2>1 DEF Looks
      <4>3. ~form.safe
        BY <4>1, <4>2
      <4>4. QED
        BY <1>2, <4>3 DEF OneKey
    <3>5. QED
      BY <3>2, <3>3, <3>4 DEF Asked
  <2>2. ASSUME NEW r \in Request, New(u, s, r)
        PROVE  Asked'
    <3>1. Reqs' = Reqs \cup {r}
      BY <1>2, <2>2 DEF Reqs, New
    <3>2. BaseOf(r) /\ r.step \in 1..Last /\ r.intent <= ui.intent
      <4>1. srv.version \in Nat /\ ui.intent \in Nat
        BY <1>1 DEF WInv, TypeOK, Versions, Intents
      <4>2. QED
        BY <2>2, <4>1 DEF New, BaseOf
    <3>3. Sound'
      <4>1. SUFFICES ASSUME NEW q \in Reqs \cup {r}
                     PROVE  /\ q.step \in 1..Last /\ q.intent <= ui.intent
                            /\ BaseOf(q)
        BY <1>1, <1>2, <1>3, <3>1 DEF Sound, BaseOf
      <4>2. QED
        BY <3>2 DEF WInv, Asked, Sound
    <3>4. OneCopy'
      <4>1. \A q \in Reqs :
              q.intent = ui.intent =>
                /\ q.body = ui.body
                /\ form.steps[q.step].base = "opened" => q.base = ui.typed
        BY <1>2 DEF WInv, Asked, OneCopy
      <4>2. /\ r.intent = ui.intent /\ r.body = ui.body
            /\ form.steps[r.step].base = "opened" => r.base = ui.typed
        BY <2>2 DEF New
      <4>3. \A q, p \in Reqs :
              q.intent = p.intent =>
                /\ q.body = p.body
                /\ q.step = p.step /\ form.steps[p.step].base = "opened"
                   => q.base = p.base
        BY DEF WInv, Asked, OneCopy
      <4>4. \A q, p \in Reqs' :
              q.intent = p.intent =>
                /\ q.body = p.body
                /\ q.step = p.step /\ form.steps[p.step].base = "opened"
                   => q.base = p.base
        BY <3>1, <4>1, <4>2, <4>3
      <4>5. \A q \in Reqs' :
              q.intent = ui.intent =>
                /\ q.body = ui.body
                /\ form.steps[q.step].base = "opened" => q.base = ui.typed
        BY <3>1, <4>1, <4>2
      <4>6. QED
        BY <1>1, <1>2, <4>4, <4>5 DEF OneCopy
    <3>5. OneKey'
      <4>1. SUFFICES ASSUME form.safe
                     PROVE  OneKey'
        BY <1>2 DEF OneKey
      <4>2. r.key = u.attempt /\ r.intent = ui.intent /\ u.attempt # None
        BY <1>2, <2>2, <4>1 DEF New
      <4>3. \A q \in Reqs :
              q.intent = ui.intent /\ dropped[ui.intent] = {} =>
                q.key = u.attempt
        <5>1. \A q \in Reqs : q.key # None
          BY DEF WInv, TypeOK, Reqs, Request, Keys, BoundsAssumption
        <5>2. QED
          BY <1>2, <4>1, <5>1 DEF WInv, Asked, OneKey
      <4>4. \A q, p \in Reqs :
              q.intent = p.intent /\ dropped[p.intent] = {} => q.key = p.key
        BY <4>1 DEF WInv, Asked, OneKey
      <4>5. \A q, p \in Reqs' :
              q.intent = p.intent /\ dropped[p.intent] = {} => q.key = p.key
        BY <3>1, <4>2, <4>3, <4>4
      <4>6. \A q \in Reqs' :
              q.intent = ui.intent /\ dropped[q.intent] = {} =>
                q.key = u.attempt
        BY <3>1, <4>2, <4>3
      <4>7. QED
        BY <1>1, <1>2, <4>2, <4>5, <4>6 DEF OneKey
    <3>6. QED
      BY <3>3, <3>4, <3>5 DEF Asked
  <2>3. QED
    BY <1>5, <2>1, <2>2
<1>10. Executed'
  <2>1. OnRecord' /\ RetriedOnce'
    BY <1>2 DEF WInv, Executed, OnRecord, RetriedOnce
  <2>2. EnsuredOnce'
    BY <1>1, <1>2 DEF WInv, Executed, EnsuredOnce
  <2>3. \A q \in wire' :
          form.steps[q.step].ensured /\ DoneBefore(q.step) =>
            q.base < srv.version \/ q.id \in crossed'
    <3>1. \A q \in wire :
            form.steps[q.step].ensured /\ DoneBefore(q.step) =>
              q.base < srv.version \/ q.id \in crossed'
      BY <1>1 DEF WInv, Executed, TooLate
    <3>2. form.steps[s].ensured => form.steps[s].base = "reread"
      BY DEF Shape, Stepped, Last
    <3>3. QED
      BY <1>5, <3>1, <3>2 DEF New, Looks
  <2>4. TooLate'
    BY <1>2, <2>3 DEF TooLate, DoneBefore
  <2>5. QED
    BY <2>1, <2>2, <2>4 DEF Executed
<1>11. Honest'
  <2>1. reply' \notin {"ok", "replay"}
    BY <1>2 DEF NoneAssumption
  <2>2. \A r : Recorded(r)' <=> Recorded(r)
    BY <1>2 DEF Recorded, OpOf
  <2>3. \A r \in accepted' : Recorded(r)'
    BY <1>2, <2>2 DEF WInv, Honest
  <2>4. \A i, t : Done(i, t) => Done(i, t)'
    BY <1>2 DEF Done, DoneBefore
  <2>5. \A r \in accepted' : r.step = Last =>
          r \in accepted
    BY <1>2, <1>6
  <2>6. \A r \in accepted' : r.step = Last =>
          \A t \in 1..Last : t < Last => Done(r.intent, t)'
    BY <2>4, <2>5 DEF WInv, Honest
  <2>7. \A i, t : DoneNext(i, t) => Done(i, t)'
    BY <1>2 DEF Done, DoneNext, DoneBefore
  <2>8. (ui.phase \in Midway =>
           \A t \in 1..Last : t < ui.step => Done(ui.intent, t))'
    BY <1>1, <1>2, <1>3, <2>7
  <2>9. QED
    BY <1>2, <1>3, <2>1, <2>3, <2>6, <2>8 DEF Honest
<1>12. Unconfirmed'
  <2>1. \A r \in accepted' : r.intent <= ui.intent
    BY <1>1, <1>2, <1>6 DEF WInv, Unconfirmed, Intents
  <2>2. \A r \in accepted' : r.step = Last => r \in accepted
    BY <1>2, <1>6
  <2>3. QED
    BY <1>1, <1>2, <1>3, <1>4, <2>1, <2>2 DEF WInv, Unconfirmed
<1>13. QED
  BY <1>7, <1>8, <1>9, <1>10, <1>11, <1>12 DEF WInv

(***************************************************************************)
(* Settling keeps the strengthening.                                       *)
(***************************************************************************)
LEMMA SettlingKeeps ==
  ASSUME BoundsAssumption, NoneAssumption, WInv, Shape(form), Settling
  PROVE  WInv'
<1>1. /\ ui' \in Uis /\ uncertain' \in Uncertains
      /\ reply' \in Refusals \cup {"ok", "replay", None}
      /\ dropped' \in [Intents -> SUBSET Failures]
      /\ \A i \in Intents : dropped'[i] = {} => dropped[i] = {}
      /\ left' \subseteq Request
      /\ UNCHANGED <<form, sent, wire, srv, crossed>>
  BY DEF Settling, Quiet
<1>2. /\ ui'.phase \notin Midway
      /\ ui'.phase # "refreshing" => ui'.call = None /\ reply' = None
      /\ ui'.phase = "refreshing" =>
           /\ ui.phase = "sending" /\ ui'.call = ui.call /\ reply' = reply
           /\ ui'.step = ui.step /\ ~form.closes
      /\ ui'.phase = "unknown" => form.safe /\ ui'.attempt # None
  BY DEF Settling, Rests
<1>3. Opens \/ (Goes /\ Confirms)
  BY DEF Settling
<1>4. Last \in 1..3 /\ Last' = Last /\ Reqs' = Reqs
  BY <1>1 DEF Shape, Stepped, Last, Reqs
<1>5. /\ ui \in Uis /\ ui.intent \in Nat /\ ui'.intent \in Nat
      /\ ui.intent <= ui'.intent
      /\ ui'.intent = ui.intent \/ ui'.intent = ui.intent + 1
      /\ Reqs \subseteq Request
  BY <1>1, <1>3
     DEF WInv, TypeOK, Uis, Intents, Opens, Goes, BoundsAssumption, Reqs
<1>6. /\ ui.phase = "sending" =>
           /\ ui.intent \in Intents /\ ui.call \in Request
           /\ ui.call.intent = ui.intent /\ ui.call.step = ui.step
      /\ \/ accepted' = accepted
         \/ /\ ui.phase = "sending" /\ ui.step = Last
            /\ reply \in {"ok", "replay"}
            /\ accepted' = accepted \cup {ui.call}
            /\ ui'.phase \notin Active /\ ui'.intent = ui.intent
  BY <1>3 DEF WInv, Phases, Awaited, Live, Active, Opens, Goes, Confirms
<1>7. TypeOK'
  <2>1. accepted' \subseteq Request /\ crossed' \subseteq Keys
    BY <1>1, <1>6 DEF WInv, TypeOK
  <2>2. QED
    BY <1>1, <2>1 DEF WInv, TypeOK, Uis, Uncertains
<1>8. Phases'
  <2>1. ui'.phase \in Live =>
          ui'.intent \in Intents /\ ui'.body \in Intents
    <3>1. CASE Opens
      BY <1>1, <1>5, <3>1 DEF Opens, Uis, Intents
    <3>2. CASE Goes
      BY <3>2 DEF Goes, WInv, Phases, Awaited
    <3>3. QED
      BY <1>3, <3>1, <3>2
  <2>2. ui'.phase = "refreshing" =>
          /\ ui'.call \in Request
          /\ ui'.call.intent = ui'.intent /\ ui'.call.step = ui'.step
    <3>1. SUFFICES ASSUME ui'.phase = "refreshing"
                   PROVE  /\ ui'.call \in Request
                          /\ ui'.call.intent = ui'.intent
                          /\ ui'.call.step = ui'.step
      OBVIOUS
    <3>2. ui'.intent = ui.intent
      BY <1>3, <3>1 DEF Opens, Goes
    <3>3. QED
      BY <1>2, <3>1, <3>2 DEF WInv, Phases, Awaited
  <2>3. ui'.call = None => reply' = None
    BY <1>2 DEF WInv, Phases, Awaited
  <2>4. Awaited'
    BY <1>2, <2>1, <2>2, <2>3 DEF Awaited, Midway
  <2>5. Stepping'
    BY <1>1, <1>2 DEF Stepping, Midway, Reading
  <2>6. QED
    BY <2>4, <2>5 DEF Phases
<1>9. Asked'
  <2>1. Sound'
    <3>1. \A r \in Reqs : r.step \in 1..Last /\ r.intent <= ui.intent
                          /\ BaseOf(r)
      BY DEF WInv, Asked, Sound
    <3>2. \A r \in Reqs : r.intent <= ui'.intent
      BY <1>5, <3>1 DEF Request, Intents
    <3>3. QED
      BY <1>1, <1>4, <3>1, <3>2 DEF Sound, BaseOf
  <2>2. CASE Opens
    <3>1. \A r \in Reqs : r.intent # ui'.intent
      BY <1>5, <2>2 DEF WInv, Asked, Sound, Opens, Request, Intents
    <3>2. OneCopy'
      BY <1>1, <1>4, <3>1 DEF WInv, Asked, OneCopy
    <3>3. dropped' = dropped /\ ui'.phase = "editing"
      BY <2>2 DEF Opens
    <3>4. OneKey'
      BY <1>1, <1>4, <3>1, <3>3 DEF WInv, Asked, OneKey
    <3>5. QED
      BY <2>1, <3>2, <3>4 DEF Asked
  <2>3. CASE Goes
    <3>1. ui'.intent = ui.intent
      BY <2>3 DEF Goes
    <3>2. ui'.phase \in Live =>
            ui.phase \in Live /\ ui'.typed = ui.typed /\ ui'.body = ui.body
      BY <2>3 DEF Goes
    <3>3. OneCopy'
      BY <1>1, <1>4, <3>1, <3>2 DEF WInv, Asked, OneCopy
    <3>4. OneKey'
      <4>1. SUFFICES ASSUME form.safe
                     PROVE  OneKey'
        BY <1>1 DEF OneKey
      <4>2. \A r \in Reqs : r.intent \in Intents
        BY <1>5 DEF Request
      <4>3. \A q, r \in Reqs :
              q.intent = r.intent /\ dropped'[r.intent] = {} =>
                q.key = r.key
        BY <1>1, <4>1, <4>2 DEF WInv, Asked, OneKey
      <4>4. ui'.phase \in Live =>
              \/ dropped'[ui.intent] # {}
              \/ /\ ui'.attempt = ui.attempt /\ ui.phase \in Live
                 /\ dropped[ui.intent] = {}
                 /\ ui'.phase # "editing" => ui.phase # "editing"
        <5>1. ui'.phase \in Live => ui.intent \in Intents
          BY <3>2 DEF WInv, Phases, Awaited
        <5>2. QED
          BY <1>1, <2>3, <4>1, <5>1 DEF Goes
      <4>5. \A r \in Reqs :
              /\ r.intent = ui'.intent /\ ui'.phase \in Live
              /\ dropped'[r.intent] = {}
              => r.key = ui'.attempt
        BY <3>1, <4>1, <4>4 DEF WInv, Asked, OneKey
      <4>6. ui'.phase \in Live \ {"editing"} /\ dropped'[ui'.intent] = {} =>
              ui'.attempt # None
        BY <3>1, <4>1, <4>4 DEF WInv, Asked, OneKey
      <4>7. QED
        BY <1>1, <1>4, <4>3, <4>5, <4>6 DEF OneKey
    <3>5. QED
      BY <2>1, <3>3, <3>4 DEF Asked
  <2>4. QED
    BY <1>3, <2>2, <2>3
<1>10. Executed'
  <2>1. OnRecord' /\ EnsuredOnce'
    BY <1>1, <1>4 DEF WInv, Executed, OnRecord, EnsuredOnce
  <2>2. TooLate'
    BY <1>1 DEF WInv, Executed, TooLate, DoneBefore
  <2>3. RetriedOnce'
    <3>1. \A r \in srv.records : r.intent \in Intents
      BY DEF WInv, TypeOK, Request
    <3>2. QED
      BY <1>1, <1>4, <3>1 DEF WInv, Executed, RetriedOnce
  <2>4. QED
    BY <2>1, <2>2, <2>3 DEF Executed
<1>11. Honest'
  <2>1. \A q : Recorded(q)' <=> Recorded(q)
    BY <1>1 DEF Recorded, OpOf
  <2>2. (reply \in {"ok", "replay"} => Recorded(ui.call))'
    <3>1. None \notin {"ok", "replay"}
      BY DEF NoneAssumption
    <3>2. reply' \in {"ok", "replay"} => Recorded(ui'.call)
      BY <1>1, <1>2, <3>1 DEF WInv, Honest
    <3>3. QED
      BY <1>1, <3>2 DEF Recorded, OpOf
  <2>3. \A q \in accepted' : Recorded(q)'
    BY <1>6, <2>1 DEF WInv, Honest
  <2>4. \A i, t : Done(i, t) => Done(i, t)'
    BY <1>1, <1>6 DEF Done, DoneBefore
  <2>5. \A q \in accepted' : q.step = Last =>
          \A t \in 1..Last : t < Last => Done(q.intent, t)
    BY <1>6 DEF WInv, Honest, Midway
  <2>6. QED
    BY <1>2, <1>4, <2>2, <2>3, <2>4, <2>5 DEF Honest
<1>12. Unconfirmed'
  <2>1. \A q \in accepted' : q.intent \in Nat /\ q.intent <= ui.intent
    <3>1. \A q \in accepted : q.intent \in Nat /\ q.intent <= ui.intent
      BY DEF WInv, TypeOK, Unconfirmed, Request, Intents
    <3>2. QED
      BY <1>5, <1>6, <3>1
  <2>2. \A q \in accepted' : q.intent <= ui'.intent
    BY <1>5, <2>1
  <2>3. ASSUME form.held \/ form.closes, ui'.phase \in Active
        PROVE  \A q \in accepted' : q.step = Last => q.intent # ui'.intent
    <3>1. CASE Opens
      BY <1>5, <2>1, <3>1 DEF Opens
    <3>2. CASE Goes /\ Confirms
      BY <1>6, <2>3, <3>2 DEF Goes, Confirms, WInv, Unconfirmed
    <3>3. QED
      BY <1>3, <3>1, <3>2
  <2>4. QED
    BY <1>1, <1>2, <1>4, <2>2, <2>3 DEF Unconfirmed
<1>13. QED
  BY <1>7, <1>8, <1>9, <1>10, <1>11, <1>12 DEF WInv

(***************************************************************************)
(* The server keeps the strengthening.                                     *)
(***************************************************************************)
\* What does not depend on whether the request was executed.
LEMMA ElsewhereKeeps ==
  ASSUME BoundsAssumption, WInv, Shape(form), Elsewhere,
         Reqs' \subseteq Reqs
  PROVE  TypeOK' /\ Phases' /\ Asked' /\ Unconfirmed'
<1>1. /\ srv \in Srvs /\ srv' \in Srvs /\ srv.version <= srv'.version
      /\ reply' \in Refusals \cup {"ok", "replay", None}
      /\ wire' \subseteq wire /\ left' \subseteq left
      /\ uncertain' \in Uncertains
      /\ reply' # reply => ui.call # None
      /\ UNCHANGED <<form, ui, sent, accepted, crossed, dropped>>
  BY DEF Elsewhere, WInv, TypeOK, Srvs
<1>2. Last' = Last
  BY <1>1 DEF Last
<1>3. TypeOK'
  BY <1>1 DEF WInv, TypeOK, Srvs, Uncertains
<1>4. Phases'
  BY <1>1, <1>2 DEF WInv, Phases, Awaited, Stepping
<1>5. Sound'
  <2>1. Reqs \subseteq Request
    BY DEF WInv, TypeOK, Reqs
  <2>2. \A r \in Reqs' : r \in Reqs /\ r.base \in Nat
    BY <2>1 DEF Request, Versions
  <2>3. srv.version \in Nat /\ srv'.version \in Nat
    BY <1>1 DEF Srvs, Versions
  <2>4. \A r \in Reqs' : r.step \in 1..Last /\ r.intent <= ui.intent
    BY <2>2 DEF WInv, Asked, Sound
  <2>5. \A r \in Reqs' :
          /\ form.steps[r.step].base = "none" => r.base = 0
          /\ form.steps[r.step].base # "none" => r.base # 0
          /\ form.steps[r.step].base = "reread" => r.base <= srv.version
    BY <2>2 DEF WInv, Asked, Sound, BaseOf
  <2>6. \A r \in Reqs' :
          form.steps[r.step].base = "reread" => r.base <= srv'.version
    BY <1>1, <2>2, <2>3, <2>5
  <2>7. QED
    BY <1>1, <1>2, <2>4, <2>5, <2>6 DEF Sound, BaseOf
<1>6. OneCopy'
  BY <1>1 DEF WInv, Asked, OneCopy
<1>7. OneKey'
  BY <1>1 DEF WInv, Asked, OneKey
<1>8. Unconfirmed'
  BY <1>1, <1>2 DEF WInv, Unconfirmed
<1>9. QED
  BY <1>3, <1>4, <1>5, <1>6, <1>7, <1>8 DEF Asked

LEMMA RefusesKeeps ==
  ASSUME BoundsAssumption, WInv, Shape(form), Refuses
  PROVE  WInv'
<1>1. /\ Elsewhere
      /\ srv'.records = srv.records
      /\ reply' \in {"ok", "replay"} => reply' = reply \/ Recorded(ui.call)
  BY DEF Refuses
<1>2. /\ srv \in Srvs /\ srv' \in Srvs /\ srv.version <= srv'.version
      /\ wire' \subseteq wire
      /\ UNCHANGED <<form, ui, sent, accepted, crossed, dropped>>
  BY <1>1 DEF Elsewhere, WInv, TypeOK, Srvs
<1>3. Last' = Last /\ Reqs' \subseteq Reqs
  BY <1>1, <1>2 DEF Last, Reqs
<1>4. TypeOK' /\ Phases' /\ Asked' /\ Unconfirmed'
  BY <1>1, <1>3, ElsewhereKeeps
<1>5. Executed'
  <2>1. srv.version \in Nat /\ srv'.version \in Nat
    BY <1>2 DEF Srvs, Versions
  <2>2. /\ \A r \in wire : r.base \in Nat
        /\ \A r \in srv.records : r.base \in Nat
    BY DEF WInv, TypeOK, Request, Versions
  <2>3. OnRecord'
    BY <1>1, <1>2, <2>1, <2>2 DEF WInv, Executed, OnRecord
  <2>4. \A t : DoneBefore(t)' <=> DoneBefore(t)
    BY <1>1 DEF DoneBefore
  <2>5. TooLate'
    BY <1>2, <2>1, <2>2, <2>4 DEF WInv, Executed, TooLate
  <2>6. RetriedOnce'
    BY <1>1, <1>2 DEF WInv, Executed, RetriedOnce
  <2>7. EnsuredOnce'
    BY <1>1, <1>2 DEF WInv, Executed, EnsuredOnce
  <2>8. QED
    BY <2>3, <2>5, <2>6, <2>7 DEF Executed
<1>6. Honest'
  BY <1>1, <1>2, <1>3 DEF WInv, Honest, Done, DoneBefore, Recorded, OpOf
<1>7. QED
  BY <1>4, <1>5, <1>6 DEF WInv

\* An executed request was not executed before, whether its key or its
\* version would have told.
LEMMA ExecutedAnew ==
  ASSUME BoundsAssumption, WInv, Shape(form), NEW r \in wire,
         ~Recorded(r), ~Stale(r)
  PROVE  /\ \A x \in srv.records :
              /\ x.intent = r.intent /\ x.step = r.step
              /\ \/ form.safe /\ dropped[r.intent] = {}
                 \/ form.steps[r.step].base = "opened"
              => FALSE
         /\ form.steps[r.step].ensured /\ DoneBefore(r.step) =>
              r.id \in crossed
<1>1. /\ r \in Request /\ srv.records \subseteq Request /\ r \in Reqs
      /\ srv.records \subseteq Reqs
      /\ srv.version \in Nat
  BY DEF WInv, TypeOK, Reqs, Versions
<1>2. r.intent \in Intents /\ r.step \in Steps /\ r.base \in Nat
  BY <1>1 DEF Request, Versions
<1>3. ASSUME NEW x \in srv.records, x.intent = r.intent, x.step = r.step,
             form.safe, dropped[r.intent] = {}
      PROVE  FALSE
  <2>1. Last = 1 /\ form.steps[1].base = "none"
    BY <1>3 DEF Shape, Last
  <2>2. r.step = 1 /\ r.base = 0 /\ x.base = 0
    BY <1>1, <1>3, <2>1 DEF WInv, Asked, Sound, BaseOf
  <2>3. x.key = r.key /\ x.body = r.body
    BY <1>1, <1>3 DEF WInv, Asked, OneKey, OneCopy
  <2>4. QED
    BY <1>3, <2>2, <2>3 DEF Recorded, OpOf
<1>4. ASSUME NEW x \in srv.records, x.intent = r.intent, x.step = r.step,
             form.steps[r.step].base = "opened"
      PROVE  FALSE
  <2>1. x.base = r.base
    BY <1>1, <1>4 DEF WInv, Asked, OneCopy
  <2>2. r.base # 0
    BY <1>1, <1>4 DEF WInv, Asked, Sound, BaseOf
  <2>3. r.base = srv.version
    BY <2>2 DEF Stale
  <2>4. x.base < srv.version
    BY DEF WInv, Executed, OnRecord
  <2>5. QED
    BY <1>1, <2>1, <2>3, <2>4
<1>5. ASSUME form.steps[r.step].ensured, DoneBefore(r.step),
             r.id \notin crossed
      PROVE  FALSE
  <2>1. r.base < srv.version
    BY <1>5 DEF WInv, Executed, TooLate
  <2>2. r.step \in 1..Last
    BY <1>1 DEF WInv, Asked, Sound
  <2>3. form.steps[r.step].base = "reread"
    BY <1>5, <2>2 DEF Shape, Stepped, Last
  <2>4. r.base # 0
    BY <1>1, <2>3 DEF WInv, Asked, Sound, BaseOf
  <2>5. QED
    BY <1>1, <1>2, <2>1, <2>4 DEF Stale
<1>6. QED
  BY <1>3, <1>4, <1>5

LEMMA ExecutesKeeps ==
  ASSUME BoundsAssumption, NoneAssumption, WInv, Shape(form),
         NEW r \in wire, Executes(r)
  PROVE  WInv'
<1>1. /\ Elsewhere /\ ~Recorded(r) /\ ~Stale(r)
      /\ srv'.records = srv.records \cup {r}
      /\ srv'.version = IF r.base = 0 THEN srv.version ELSE srv.version + 1
      /\ ui.call = r \/ reply' = reply
  BY DEF Executes
<1>2. /\ srv \in Srvs /\ srv' \in Srvs /\ srv.version <= srv'.version
      /\ wire' \subseteq wire
      /\ UNCHANGED <<form, ui, sent, accepted, crossed, dropped>>
  BY <1>1 DEF Elsewhere, WInv, TypeOK, Srvs
<1>3. /\ srv.version \in Nat /\ srv'.version \in Nat /\ srv.version > 0
  BY <1>2 DEF Srvs, Versions
<1>4. Last' = Last /\ Last \in 1..3 /\ Reqs' \subseteq Reqs
  <2>1. Last' = Last
    BY <1>2 DEF Last
  <2>2. Last \in 1..3
    BY DEF Shape, Stepped, Last
  <2>3. QED
    BY <1>1, <1>2, <2>1, <2>2 DEF Reqs
<1>5. /\ wire \subseteq Request /\ srv.records \subseteq Request
      /\ \A q \in wire : q \in Reqs /\ q.base \in Nat
      /\ \A q \in srv.records : q.base \in Nat
      /\ r.intent \in Intents /\ r.step \in Steps /\ r.base \in Nat
  BY DEF WInv, TypeOK, Request, Versions, Reqs
<1>6. TypeOK' /\ Phases' /\ Asked' /\ Unconfirmed'
  BY <1>1, <1>4, ElsewhereKeeps
<1>7. OnRecord'
  <2>1. r.base < srv'.version
    BY <1>1, <1>3, <1>5 DEF Stale
  <2>2. \A x \in srv.records : x.base < srv'.version
    BY <1>2, <1>3, <1>5 DEF WInv, Executed, OnRecord
  <2>3. QED
    BY <1>1, <2>1, <2>2 DEF OnRecord
<1>8. \A t : DoneBefore(t)' <=> DoneBefore(t) \/ t = r.step
  BY <1>1 DEF DoneBefore
<1>9. TooLate'
  <2>1. SUFFICES ASSUME NEW q \in wire', form.steps[q.step].ensured,
                        DoneBefore(q.step)', q.id \notin crossed
                 PROVE  q.base < srv'.version
    BY <1>2 DEF TooLate, DoneBefore
  <2>2. q \in wire /\ q.step \in 1..Last /\ q.base \in Nat
    BY <1>2, <1>5 DEF WInv, Asked, Sound
  <2>3. form.steps[q.step].base = "reread"
    BY <2>1, <2>2 DEF Shape, Stepped, Last
  <2>4. CASE DoneBefore(q.step)
    <3>1. q.base < srv.version
      BY <2>1, <2>2, <2>4 DEF WInv, Executed, TooLate
    <3>2. QED
      BY <1>2, <1>3, <2>2, <3>1
  <2>5. CASE q.step = r.step
    <3>1. r.base # 0
      BY <1>5, <2>3, <2>5 DEF WInv, Asked, Sound, BaseOf
    <3>2. srv'.version = srv.version + 1
      BY <1>1, <3>1
    <3>3. q.base <= srv.version
      BY <1>5, <2>2, <2>3 DEF WInv, Asked, Sound, BaseOf
    <3>4. QED
      BY <1>3, <2>2, <3>2, <3>3
  <2>6. QED
    BY <1>8, <2>1, <2>4, <2>5
<1>10. RetriedOnce'
  <2>1. SUFFICES ASSUME NEW p \in srv'.records, NEW q \in srv'.records,
                        p.intent = q.intent, p.step = q.step,
                        \/ form.safe /\ dropped[q.intent] = {}
                        \/ form.steps[q.step].base = "opened"
                 PROVE  p = q
    BY <1>2 DEF RetriedOnce
  <2>2. CASE p \in srv.records /\ q \in srv.records
    BY <2>1, <2>2 DEF WInv, Executed, RetriedOnce
  <2>3. CASE p = r \/ q = r
    BY <1>1, <2>1, <2>3, ExecutedAnew
  <2>4. QED
    BY <1>1, <2>2, <2>3
<1>11. EnsuredOnce'
  <2>1. SUFFICES ASSUME NEW p \in srv'.records, NEW q \in srv'.records,
                        p.step = q.step, form.steps[q.step].ensured
                 PROVE  p = q \/ p.id \in crossed \/ q.id \in crossed
    BY <1>2 DEF EnsuredOnce
  <2>2. CASE p \in srv.records /\ q \in srv.records
    BY <2>1, <2>2 DEF WInv, Executed, EnsuredOnce
  <2>3. CASE (p = r \/ q = r) /\ p # q
    <3>1. DoneBefore(r.step)
      BY <1>1, <2>1, <2>3 DEF DoneBefore
    <3>2. QED
      BY <1>1, <2>1, <2>3, <3>1, ExecutedAnew
  <2>4. QED
    BY <1>1, <2>2, <2>3
<1>12. Honest'
  <2>1. Recorded(r)'
    BY <1>1 DEF Recorded
  <2>2. \A q : Recorded(q) => Recorded(q)'
    BY <1>1 DEF Recorded, OpOf
  <2>3. \A q : q = ui.call /\ reply' \in {"ok", "replay"} => Recorded(q)'
    BY <1>1, <2>1, <2>2 DEF WInv, Honest
  <2>4. \A i, t : Done(i, t) => Done(i, t)'
    BY <1>2, <1>8 DEF Done
  <2>5. QED
    <3>1. (reply \in {"ok", "replay"} => Recorded(ui.call))'
      BY <1>2, <2>3
    <3>2. QED
      BY <1>2, <1>4, <2>2, <2>4, <3>1 DEF WInv, Honest
<1>13. QED
  BY <1>6, <1>7, <1>9, <1>10, <1>11, <1>12 DEF WInv, Executed

(***************************************************************************)
(* The strengthening is inductive.                                         *)
(***************************************************************************)
LEMMA WInit ==
  ASSUME BoundsAssumption, NoneAssumption, Init
  PROVE  WInv
<1>1. /\ form \in Forms /\ sent = 0 /\ wire = {} /\ reply = None
      /\ ui = [phase |-> "closed", typed |-> 1, shown |-> 1, intent |-> 0,
               body |-> 0, step |-> 1, attempt |-> None, call |-> None]
      /\ uncertain = [o \in Operations |-> None]
      /\ srv = [version |-> 1, records |-> {},
                maintenance |-> FALSE, barred |-> FALSE]
      /\ left = {} /\ accepted = {} /\ crossed = {}
      /\ dropped = [i \in Intents |-> {}]
  BY DEF Init
<1>2. 1 \in Versions /\ 1 \in Steps /\ 0 \in 0..MaxSends
  BY DEF BoundsAssumption, Versions, Steps
<1>3. /\ None \in Keys \cup {None} /\ None \in Request \cup {None}
      /\ None \in Refusals \cup {"ok", "replay", None}
      /\ 0 \in Intents \cup {0}
  OBVIOUS
<1>4. ui \in Uis
  BY <1>1, <1>2, <1>3 DEF Uis
<1>5. srv \in Srvs
  BY <1>1, <1>2 DEF Srvs
<1>6. uncertain \in Uncertains /\ dropped \in [Intents -> SUBSET Failures]
  BY <1>1, <1>3 DEF Uncertains
<1>7. TypeOK
  BY <1>1, <1>2, <1>3, <1>4, <1>5, <1>6
     DEF TypeOK, Uis, Srvs, Uncertains
<1>8. Phases
  BY <1>1 DEF Phases, Awaited, Stepping, Live, Active, Midway, Reading
<1>9. Reqs = {} /\ ui.phase \notin Live
  BY <1>1 DEF Reqs, Live, Active
<1>10. Asked
  BY <1>9 DEF Asked, Sound, OneCopy, OneKey
<1>11. Executed
  BY <1>1 DEF Executed, OnRecord, TooLate, RetriedOnce, EnsuredOnce
<1>12. Honest
  BY <1>1 DEF Honest, NoneAssumption, Midway
<1>13. Unconfirmed
  BY <1>1 DEF Unconfirmed, Active
<1>14. QED
  BY <1>7, <1>8, <1>10, <1>11, <1>12, <1>13 DEF WInv

LEMMA WStep ==
  ASSUME BoundsAssumption, NoneAssumption, WInv, [Next]_vars
  PROVE  WInv'
<1>1. Shape(form)
  BY FormShapes DEF WInv, TypeOK
<1>2. QED
  BY <1>1, Classes, StartingKeeps, SettlingKeeps, RefusesKeeps,
     ExecutesKeeps

LEMMA WAlways == Spec => []WInv
<1>1. Init => WInv
  BY BoundsAssumption, NoneAssumption, WInit
<1>2. WInv /\ [Next]_vars => WInv'
  BY BoundsAssumption, NoneAssumption, WStep
<1>3. QED
  BY <1>1, <1>2, PTL DEF Spec

(***************************************************************************)
(* What follows.                                                           *)
(***************************************************************************)
\* The browser's state, the keys it keeps (api.ts uncertainWrites) and the
\* server's records stay of their types.
THEOREM WritesTypeCorrect == Spec => []TypeOK
<1>1. WInv => TypeOK
  BY DEF WInv
<1>2. QED
  BY <1>1, WAlways, PTL

\* A safe form's write is executed once however often it is retried, lost,
\* delayed or answered twice, until a refusal is shown; a write conditional
\* on the copy the form was opened with is executed once always (ui.tsx's
\* attempt, api.ts's keys, the server's record and If-Match).
THEOREM RetriedOnceHolds == Spec => []RetriedOnce
<1>1. WInv => RetriedOnce
  BY DEF WInv, Executed
<1>2. QED
  BY <1>1, WAlways, PTL

\* The assignment before a submission is made once over all attempts, but for
\* one that an attempt sends although another arrived between its two GETs
\* (TaskOverviewPanel.tsx reads the assignments, then the task).
THEOREM EnsuredOnceHolds == Spec => []EnsuredOnce
<1>1. WInv => EnsuredOnce
  BY DEF WInv, Executed
<1>2. QED
  BY <1>1, WAlways, PTL

(***************************************************************************)
(* No key tells of two successes.                                          *)
(***************************************************************************)
\* No accepted request has the key k, one of the first n.
Unused(k, acc, n) == k <= n /\ \A r \in acc : r.key # k
\* No operation but o may have kept it.
Alone(k, o, keys) == \A p \in Operations : keys[p] = k => p = o
Kept(keys, acc, n) ==
  \A o \in Operations :
    keys[o] # None => Unused(keys[o], acc, n) /\ Alone(keys[o], o, keys)
Single(acc, n) ==
  /\ \A r \in acc : r.key <= n
  /\ \A q, r \in acc : q.key = r.key => q = r
KInv ==
  /\ Single(accepted, sent) /\ Kept(uncertain, accepted, sent)
  /\ ui.attempt # None => form.safe
  /\ ui.phase \in {"closed", "mounted"} => ui.attempt = None
  /\ ui.phase \in Active /\ ui.attempt # None =>
       /\ Unused(ui.attempt, accepted, sent)
       /\ Alone(ui.attempt, <<ui.body, 1, 0>>, uncertain)
  /\ ui.phase = "sending" =>
       /\ Unused(ui.call.key, accepted, sent)
       /\ Alone(ui.call.key, OpOf(ui.call), uncertain)
       /\ ui.attempt # None =>
            /\ OpOf(ui.call) = <<ui.body, 1, 0>>
            /\ ui.call.key = ui.attempt

\* A request that is sent has a key of its own, one kept for it, or a fresh
\* one.
LEMMA PostKeepsKeys ==
  ASSUME BoundsAssumption, NoneAssumption, NEW u \in Uis,
         NEW keys \in Uncertains, NEW s \in Steps,
         NEW base \in Versions \cup {0}, u.body \in Intents,
         sent \in 0..MaxSends, sent < MaxSends,
         Post(u, keys, s, base), form' = form,
         accepted' \subseteq Request,
         Single(accepted', sent), Kept(keys, accepted', sent),
         u.attempt # None =>
           /\ form.safe /\ Unused(u.attempt, accepted', sent + 1)
           /\ Alone(u.attempt, <<u.body, s, base>>, keys)
           /\ s = 1 /\ base = 0
  PROVE  KInv'
<1> DEFINE op == <<u.body, s, base>>
           key == IF u.attempt # None THEN u.attempt
                  ELSE IF keys[op] # None THEN keys[op] ELSE sent + 1
           r == [id |-> sent + 1, key |-> key, intent |-> u.intent,
                 body |-> u.body, step |-> s, base |-> base]
<1>1. op \in Operations /\ sent + 1 \in Keys
  BY DEF Operations, BoundsAssumption, Keys
<1>2. key \in Keys
  BY <1>1 DEF Uis, Uncertains
<1>3. /\ sent' = sent + 1
      /\ ui' = [u EXCEPT !.phase = "sending", !.step = s, !.call = r]
      /\ uncertain' = [keys EXCEPT ![op] = key]
  BY DEF Post
<1>4. r.key = key /\ OpOf(r) = op
  BY DEF OpOf
<1> HIDE DEF r
<1>5. /\ ui'.attempt = u.attempt /\ ui'.phase = "sending" /\ ui'.call = r
      /\ ui'.body = u.body
  BY <1>3 DEF Uis
<1>6. /\ uncertain'[op] = key
      /\ \A o \in Operations : o # op => uncertain'[o] = keys[o]
  BY <1>1, <1>3 DEF Uncertains
<1>7. /\ \A o \in Operations : keys[o] \in Keys \cup {None}
      /\ sent \in Nat /\ \A k \in Keys : k \in Nat /\ k # None
      /\ MaxSends \in Nat
  BY DEF Uncertains, Keys, BoundsAssumption
<1>8. Alone(key, op, keys)
  <2>1. CASE u.attempt # None
    BY <2>1
  <2>2. CASE u.attempt = None /\ keys[op] # None
    BY <1>1, <2>2 DEF Kept
  <2>3. CASE u.attempt = None /\ keys[op] = None
    BY <1>7, <2>3 DEF Kept, Unused, Alone
  <2>4. QED
    BY <2>1, <2>2, <2>3
<1>9. Unused(key, accepted', sent + 1)
  <2>1. CASE u.attempt # None
    BY <2>1
  <2>2. CASE u.attempt = None /\ keys[op] # None
    <3>1. Unused(keys[op], accepted', sent) /\ keys[op] \in Nat
      BY <1>1, <1>7, <2>2 DEF Kept
    <3>2. QED
      BY <1>7, <2>2, <3>1 DEF Unused
  <2>3. CASE u.attempt = None /\ keys[op] = None
    BY <1>7, <2>3 DEF Single, Unused
  <2>4. QED
    BY <2>1, <2>2, <2>3
<1> HIDE DEF key, op
<1>10. Single(accepted', sent')
  <2>1. \A q \in accepted' : q.key <= sent => q.key <= sent + 1
    <3>1. \A q \in accepted' : q.key \in Nat
      BY <1>7 DEF Request
    <3>2. QED
      BY <1>7, <3>1
  <2>2. QED
    BY <1>3, <2>1 DEF Single
<1>11. Alone(key, op, uncertain')
  BY <1>6, <1>8 DEF Alone
<1>12. Kept(uncertain', accepted', sent')
  <2>1. SUFFICES ASSUME NEW o \in Operations, uncertain'[o] # None, o # op
                 PROVE  /\ Unused(keys[o], accepted', sent + 1)
                        /\ Alone(keys[o], o, uncertain')
    BY <1>3, <1>6, <1>9, <1>11 DEF Kept
  <2>2. keys[o] # None /\ keys[o] \in Nat
    BY <1>6, <1>7, <2>1
  <2>3. Unused(keys[o], accepted', sent) /\ Alone(keys[o], o, keys)
    BY <2>1, <2>2 DEF Kept
  <2>4. key # keys[o]
    BY <1>8, <2>1 DEF Alone
  <2>5. QED
    BY <1>6, <1>7, <2>2, <2>3, <2>4 DEF Unused, Alone
<1>13. u.attempt # None => key = u.attempt /\ op = <<u.body, 1, 0>>
  BY DEF key, op
<1>14. QED
  BY <1>3, <1>4, <1>5, <1>9, <1>10, <1>11, <1>12, <1>13 DEF KInv

LEMMA StartKeepsKeys ==
  ASSUME BoundsAssumption, NoneAssumption, Shape(form), NEW u \in Uis,
         NEW keys \in Uncertains, NEW s \in 1..Last, u.body \in Intents,
         sent \in 0..MaxSends, sent < MaxSends,
         StartStep(u, keys, s), form' = form,
         accepted' \subseteq Request,
         Single(accepted', sent), Kept(keys, accepted', sent),
         u.attempt # None =>
           /\ form.safe /\ Unused(u.attempt, accepted', sent + 1)
           /\ Alone(u.attempt, <<u.body, 1, 0>>, keys)
  PROVE  KInv'
<1>1. s \in Steps /\ form.steps[s].base \in Bases
  BY DEF Shape, Stepped, Last, Steps
<1>2. /\ u.typed \in Versions \cup {0} /\ u.shown \in Versions \cup {0}
      /\ 0 \in Versions \cup {0}
  BY DEF Uis
<1>3. form.safe => s = 1 /\ form.steps[s].base = "none"
  <2>1. form.safe => Last = 1 /\ form.steps[1].base = "none"
    BY DEF Shape, Last
  <2>2. Last = 1 => s = 1
    OBVIOUS
  <2>3. QED
    BY <2>1, <2>2
<1>4. CASE form.steps[s].base = "reread"
  <2>1. /\ ui' = [u EXCEPT !.phase = "reading", !.step = s, !.call = None]
        /\ uncertain' = keys /\ sent' = sent
    BY <1>4 DEF StartStep
  <2>2. u.attempt = None
    BY <1>3, <1>4
  <2>3. ui'.attempt = None /\ ui'.phase = "reading"
    BY <2>1, <2>2 DEF Uis
  <2>4. QED
    BY <2>1, <2>3 DEF KInv
<1>5. CASE form.steps[s].base = "none"
  <2>1. Post(u, keys, s, 0)
    BY <1>5 DEF StartStep
  <2>2. QED
    BY <1>1, <1>2, <1>3, <2>1, PostKeepsKeys
<1>6. CASE form.steps[s].base \in {"opened", "prop"}
  <2>1. PICK base \in Versions \cup {0} : Post(u, keys, s, base)
    BY <1>2, <1>6 DEF StartStep
  <2>2. u.attempt = None
    BY <1>3, <1>6
  <2>3. QED
    BY <1>1, <2>1, <2>2, PostKeepsKeys
<1>7. QED
  BY <1>1, <1>4, <1>5, <1>6 DEF Bases

\* The steps that leave the keys and the accepted requests alone, and give
\* the attempt up or keep it.
LEMMA RestKeepsKeys ==
  ASSUME KInv,
         UNCHANGED <<form, sent, accepted, uncertain>>,
         \/ ui'.attempt = None
         \/ /\ ui'.attempt = ui.attempt /\ ui'.body = ui.body
            /\ ui'.phase \notin {"closed", "mounted"} \/ ui'.phase = ui.phase
            /\ ui'.phase \in Active => ui.phase \in Active,
         ui'.phase = "sending" =>
           /\ ui.phase = "sending" /\ ui'.call = ui.call
           /\ ui'.attempt = ui.attempt /\ ui'.body = ui.body
  PROVE  KInv'
BY DEF KInv

\* So do the steps that forget a key.
LEMMA ForgetKeepsKeys ==
  ASSUME NEW keys \in Uncertains, NEW r \in Request, NEW acc, NEW n,
         Kept(keys, acc, n)
  PROVE  /\ [keys EXCEPT ![OpOf(r)] = None] \in Uncertains
         /\ Kept([keys EXCEPT ![OpOf(r)] = None], acc, n)
         /\ \A k \in Keys : \A o : None \notin Keys /\ Alone(k, o, keys) =>
              Alone(k, o, [keys EXCEPT ![OpOf(r)] = None])
<1> DEFINE less == [keys EXCEPT ![OpOf(r)] = None]
<1>1. less \in Uncertains
  BY DEF Uncertains
<1>2. \A o \in Operations : less[o] = None \/ less[o] = keys[o]
  BY DEF Uncertains
<1> HIDE DEF less
<1>3. Kept(less, acc, n)
  BY <1>2 DEF Kept, Alone
<1>4. \A k \in Keys : \A o : None \notin Keys /\ Alone(k, o, keys) =>
        Alone(k, o, less)
  BY <1>2 DEF Alone
<1>5. QED
  BY <1>1, <1>3, <1>4 DEF less

LEMMA KStep ==
  ASSUME BoundsAssumption, NoneAssumption, WInv, KInv, [Next]_vars
  PROVE  KInv'
<1>1. Shape(form)
  BY FormShapes DEF WInv, TypeOK
<1>2. /\ ui \in Uis /\ uncertain \in Uncertains /\ sent \in 0..MaxSends
      /\ ui.phase \in Live => ui.intent \in Intents /\ ui.body \in Intents
      /\ Last \in 1..3 /\ accepted \subseteq Request
      /\ left \subseteq Request /\ sent \in Nat
      /\ \A k \in Keys : k \in Nat /\ k # None
      /\ \A k \in Nat : k <= sent => k <= sent + 1
  <2>1. accepted \subseteq Request /\ left \subseteq Request /\ sent \in Nat
    BY DEF WInv, TypeOK
  <2>2. \A k \in Keys : k \in Nat /\ k # None
    BY DEF BoundsAssumption, Keys
  <2>3. QED
    BY <1>1, <2>1, <2>2, Underway
<1>3. /\ Single(accepted, sent) /\ Kept(uncertain, accepted, sent)
      /\ ui.attempt # None => form.safe
  BY DEF KInv
<1>4. ui.phase \in Active /\ ui.attempt # None =>
        /\ Unused(ui.attempt, accepted, sent + 1)
        /\ Alone(ui.attempt, <<ui.body, 1, 0>>, uncertain)
  BY <1>2 DEF KInv, Unused, Uis
<1>5. ui.phase = "sending" =>
        /\ ui.call \in Request /\ ui.call.key \in Keys
        /\ ui.phase \in Active /\ ui.phase \in Live
        /\ ui.call.step = ui.step
        /\ Unused(ui.call.key, accepted, sent)
        /\ Alone(ui.call.key, OpOf(ui.call), uncertain)
  BY DEF KInv, WInv, Phases, Awaited, Live, Active, Request
<1>6. CASE OpenForm
  <2>1. /\ ui.phase \in {"closed", "mounted"}
        /\ UNCHANGED <<form, sent, accepted, uncertain>>
        /\ ui'.attempt = ui.attempt /\ ui'.phase = "editing"
    BY <1>2, <1>6 DEF OpenForm, Uis, formVars, keyVars, history
  <2>2. ui.attempt = None
    BY <2>1 DEF KInv
  <2>3. QED
    BY <2>1, <2>2, RestKeepsKeys
<1>7. CASE Submit
  <2> DEFINE a == IF form.safe /\ ui.attempt = None THEN sent + 1
                  ELSE ui.attempt
             u == [ui EXCEPT !.attempt = a]
  <2>1. /\ ui.phase \in {"editing", "error"} /\ sent + Last <= MaxSends
        /\ StartStep(u, uncertain, 1)
        /\ form' = form /\ accepted' = accepted
    BY <1>7 DEF Submit, formVars, history
  <2>2. sent < MaxSends /\ sent + 1 \in Keys
    BY <1>2, <2>1 DEF Keys, BoundsAssumption
  <2>3. ui.phase \in Active /\ ui.phase \in Live
    BY <2>1 DEF Active, Live
  <2>4. a \in Keys \cup {None} /\ (a # None => form.safe)
    BY <1>2, <1>3, <2>2 DEF Uis
  <2>5. a # None =>
          /\ Unused(a, accepted, sent + 1)
          /\ Alone(a, <<ui.body, 1, 0>>, uncertain)
    <3>1. CASE form.safe /\ ui.attempt = None
      <4>1. \A q \in accepted : q.key \in Nat /\ q.key <= sent
        BY <1>2, <1>3 DEF Single, Request
      <4>2. Unused(sent + 1, accepted, sent + 1)
        BY <1>2, <4>1 DEF Unused
      <4>3. \A o \in Operations : uncertain[o] # sent + 1
        <5>1. SUFFICES ASSUME NEW o \in Operations,
                              uncertain[o] = sent + 1
                       PROVE  FALSE
          OBVIOUS
        <5>2. sent + 1 <= sent
          BY <1>2, <1>3, <2>2, <5>1 DEF Kept, Unused
        <5>3. QED
          BY <1>2, <5>2
      <4>4. QED
        BY <3>1, <4>2, <4>3 DEF Alone
    <3>2. CASE ~(form.safe /\ ui.attempt = None)
      BY <1>4, <2>3, <3>2
    <3>3. QED
      BY <3>1, <3>2
  <2> HIDE DEF a
  <2>6. u \in Uis /\ u.body = ui.body /\ u.attempt = a
    BY <1>2, <2>4 DEF Uis
  <2> HIDE DEF u
  <2>7. 1 \in 1..Last
    BY <1>2
  <2>8. QED
    BY <1>1, <1>2, <1>3, <2>1, <2>2, <2>3, <2>4, <2>5, <2>6, <2>7,
       StartKeepsKeys
<1>8. CASE Retry
  <2>1. /\ ui.phase = "unknown" /\ sent < MaxSends
        /\ StartStep(ui, uncertain, 1)
        /\ form' = form /\ accepted' = accepted
    BY <1>8 DEF Retry, formVars, history
  <2>2. ui.phase \in Active /\ ui.phase \in Live /\ 1 \in 1..Last
    BY <1>2, <2>1 DEF Active, Live
  <2>3. QED
    BY <1>1, <1>2, <1>3, <1>4, <2>1, <2>2, StartKeepsKeys
<1>9. CASE Read \/ Reread
  <2>1. /\ ui.phase \in Reading
        /\ form' = form /\ accepted' = accepted
    BY <1>9 DEF Read, Reread, Reading, formVars, history
  <2>2. ui.phase \in Active /\ ui.phase \in Live /\ ui.phase \in Midway
    BY <2>1 DEF Active, Live, Midway, Reading
  <2>3. /\ ui.step \in 1..Last
        /\ form.steps[ui.step].base = "reread"
        /\ sent + (Last - ui.step) < MaxSends
    BY <2>1, <2>2 DEF WInv, Phases, Stepping
  <2>4. ~form.safe /\ ui.attempt = None /\ sent < MaxSends
    BY <1>1, <1>2, <1>3, <2>3 DEF Shape, Last, BoundsAssumption
  <2>5. srv.version \in Versions \cup {0} /\ ui.step \in Steps
    BY <1>2, <2>3 DEF WInv, TypeOK, Steps
  <2>6. CASE Post(ui, uncertain, ui.step, srv.version)
    BY <1>2, <1>3, <2>1, <2>2, <2>4, <2>5, <2>6, PostKeepsKeys
  <2>7. CASE /\ form.steps[ui.step].ensured
             /\ StartStep(ui, uncertain, ui.step + 1)
    <3>1. ui.step + 1 \in 1..Last
      <4>1. ui.step < Last
        BY <1>1, <2>3, <2>7 DEF Shape, Stepped, Last
      <4>2. QED
        BY <1>2, <2>3, <4>1
    <3>2. QED
      BY <1>1, <1>2, <1>3, <2>1, <2>2, <2>4, <2>7, <3>1, StartKeepsKeys
  <2>8. CASE ui' = [ui EXCEPT !.phase = "rereading"] /\ UNCHANGED keyVars
    <3>1. ui'.attempt = None /\ ui'.phase = "rereading"
      BY <1>2, <2>4, <2>8 DEF Uis
    <3>2. UNCHANGED <<form, sent, accepted, uncertain>>
      BY <2>1, <2>8 DEF keyVars
    <3>3. QED
      BY <3>1, <3>2, RestKeepsKeys
  <2>9. QED
    BY <1>9, <2>6, <2>7, <2>8 DEF Read, Reread
<1>10. ASSUME ui.phase = "sending"
       PROVE  /\ Forget(ui.call) \in Uncertains
              /\ Kept(Forget(ui.call), accepted, sent)
              /\ Kept(Forget(ui.call), accepted \cup {ui.call}, sent)
              /\ Single(accepted \cup {ui.call}, sent)
  <2>1. /\ Forget(ui.call) \in Uncertains
        /\ Kept(Forget(ui.call), accepted, sent)
    BY <1>2, <1>3, <1>5, <1>10, ForgetKeepsKeys DEF Forget
  <2>2. \A o \in Operations : Forget(ui.call)[o] # ui.call.key
    <3>1. \A o \in Operations :
            Forget(ui.call)[o] = IF o = OpOf(ui.call) THEN None
                                 ELSE uncertain[o]
      BY <1>2 DEF Forget, Uncertains
    <3>2. ui.call.key # None
      BY <1>2, <1>5, <1>10
    <3>3. QED
      BY <1>5, <1>10, <3>1, <3>2 DEF Alone
  <2>3. Kept(Forget(ui.call), accepted \cup {ui.call}, sent)
    BY <2>1, <2>2 DEF Kept, Unused
  <2>4. Single(accepted \cup {ui.call}, sent)
    BY <1>3, <1>5, <1>10 DEF Single, Unused
  <2>5. QED
    BY <2>1, <2>3, <2>4
<1>11. CASE StepSucceeds
  <2>1. /\ ui.phase = "sending" /\ ui.step < Last
        /\ accepted' = accepted \cup {ui.call}
        /\ StartStep(ui, Forget(ui.call), ui.step + 1)
        /\ form' = form
    BY <1>11 DEF StepSucceeds, formVars
  <2>2. ui.step \in 1..Last /\ sent + (Last - ui.step) <= MaxSends
    BY <2>1 DEF WInv, Phases, Stepping, Midway
  <2>3. ui.step + 1 \in 1..Last /\ sent < MaxSends /\ Last # 1
    BY <1>2, <2>1, <2>2 DEF BoundsAssumption
  <2>4. ui.attempt = None
    BY <1>1, <1>3, <2>3 DEF Shape, Last
  <2>5. QED
    BY <1>1, <1>2, <1>5, <1>10, <2>1, <2>3, <2>4, StartKeepsKeys
<1>12. CASE Succeeds
  <2>1. /\ ui.phase = "sending"
        /\ uncertain' = Forget(ui.call)
        /\ accepted' = accepted \cup {ui.call}
        /\ ui' = IF form.closes
                 THEN [ui EXCEPT !.phase = "closed", !.attempt = None,
                                 !.call = None]
                 ELSE [ui EXCEPT !.phase = "refreshing"]
        /\ form' = form /\ sent' = sent
    BY <1>12 DEF Succeeds, formVars
  <2>2. \/ ui'.phase = "closed" /\ ui'.attempt = None
        \/ ui'.phase = "refreshing" /\ ui'.attempt = ui.attempt
    BY <1>2, <2>1 DEF Uis
  <2>3. QED
    BY <1>3, <1>10, <2>1, <2>2 DEF KInv, Active
<1>13. ASSUME /\ ui'.attempt = None /\ ui'.phase # "sending"
              /\ UNCHANGED <<form, sent, accepted>>
              /\ \/ uncertain' = uncertain
                 \/ ui.phase = "sending" /\ uncertain' = Forget(ui.call)
       PROVE  KInv'
  BY <1>3, <1>10, <1>13 DEF KInv
<1>14. \A kind : AfterFailure(kind) =>
         ui'.attempt = None /\ ui'.phase # "sending"
  BY <1>2 DEF AfterFailure, Uis
<1>15. CASE Invalid \/ ReadFails \/ Fails
  BY <1>13, <1>14, <1>15
     DEF Invalid, ReadFails, Fails, keyVars, history
<1>16. CASE (Unanswered \/ Garbled) /\ ~form.safe
  BY <1>13, <1>14, <1>16 DEF Unanswered, Garbled, keyVars, history
<1>17. CASE (Unanswered \/ Garbled) /\ form.safe
  <2>1. /\ ui.phase = "sending"
        /\ ui' = [ui EXCEPT !.phase = "unknown", !.call = None]
        /\ uncertain' \in {uncertain,
                           [uncertain EXCEPT ![OpOf(ui.call)] = ui.call.key]}
        /\ UNCHANGED <<form, sent, accepted>>
    BY <1>17 DEF Unanswered, Garbled, keyVars, history
  <2>2. /\ ui'.attempt = ui.attempt /\ ui'.phase = "unknown"
        /\ ui'.body = ui.body
    BY <1>2, <2>1 DEF Uis
  <2>3. CASE uncertain' = uncertain
    BY <1>5, <2>1, <2>2, <2>3, RestKeepsKeys DEF Active
  <2>4. CASE uncertain' =
               [uncertain EXCEPT ![OpOf(ui.call)] = ui.call.key]
    <3>1. \A o \in Operations :
            uncertain'[o] = IF o = OpOf(ui.call) THEN ui.call.key
                            ELSE uncertain[o]
      BY <1>2, <2>4 DEF Uncertains
    <3>2. ui.attempt # None
      BY <1>17, <2>1 DEF WInv, Phases, Stepping
    <3>3. ui.call.key = ui.attempt /\ OpOf(ui.call) = <<ui.body, 1, 0>>
      BY <2>1, <3>2 DEF KInv
    <3>4. Alone(ui.call.key, OpOf(ui.call), uncertain')
      BY <1>5, <2>1, <3>1 DEF Alone
    <3>5. Kept(uncertain', accepted, sent)
      BY <1>3, <1>5, <2>1, <3>1 DEF Kept, Alone
    <3>6. Unused(ui.call.key, accepted, sent)
      BY <1>5, <2>1
    <3>7. QED
      BY <1>3, <1>17, <2>1, <2>2, <3>3, <3>4, <3>5, <3>6 DEF KInv
  <2>5. QED
    BY <2>1, <2>3, <2>4
<1>18. CASE Refreshes \/ RefreshFails \/ Leave
  <2>1. UNCHANGED <<form, sent, accepted, uncertain>>
    BY <1>18
       DEF Refreshes, RefreshFails, Leave, formVars, keyVars, history
  <2>2. CASE Refreshes
    BY <1>2, <2>1, <2>2, RestKeepsKeys DEF Refreshes, Uis
  <2>3. ASSUME RefreshFails PROVE KInv'
    <3>1. PICK p \in {"completed", "error"} :
            ui' = [ui EXCEPT !.phase = p, !.attempt = None, !.call = None]
      BY <2>3, Zenon DEF RefreshFails
    <3>2. ui'.attempt = None /\ ui'.phase # "sending"
      BY <1>2, <3>1 DEF Uis
    <3>3. QED
      BY <2>1, <3>2, RestKeepsKeys
  <2>4. CASE Leave
    BY <1>2, <2>1, <2>4, RestKeepsKeys DEF Leave, Uis
  <2>5. QED
    BY <1>18, <2>2, <2>3, <2>4
<1>19. CASE Reload
  <2>1. /\ ui' = [ui EXCEPT !.shown = srv.version]
        /\ ui.phase # "sending"
        /\ UNCHANGED <<form, sent, accepted, uncertain>>
    BY <1>19 DEF Reload, formVars, keyVars, history
  <2>2. ui'.phase = ui.phase /\ ui'.attempt = ui.attempt /\ ui'.body = ui.body
    BY <1>2, <2>1 DEF Uis
  <2>3. QED
    BY <2>1, <2>2, RestKeepsKeys
<1>20. CASE \E r \in left : LateAnswer(r)
  <2>1. PICK r \in Request :
          /\ uncertain' = [uncertain EXCEPT ![OpOf(r)] = None]
          /\ UNCHANGED <<form, ui, sent, accepted>>
    BY <1>2, <1>20 DEF LateAnswer, Forget, formVars, history
  <2>2. /\ Kept(uncertain', accepted, sent)
        /\ \A k \in Keys : \A o : Alone(k, o, uncertain) =>
             Alone(k, o, uncertain')
    BY <1>2, <1>3, <2>1, ForgetKeepsKeys
  <2>3. ui.attempt # None => ui.attempt \in Keys
    BY <1>2 DEF Uis
  <2>4. QED
    BY <1>5, <2>1, <2>2, <2>3 DEF KInv
<1>21. CASE \/ \E r \in wire :
               \/ \E v \in {"maintenance", "barred", "replay", "conflict",
                            "rule", "ok"} : Serve(r, v)
               \/ LoseRequest(r)
            \/ OthersWrite \/ StandingChanges \/ UNCHANGED vars
  <2>1. UNCHANGED <<form, ui, uncertain, sent, accepted>>
    BY <1>21
       DEF Serve, LoseRequest, OthersWrite, StandingChanges, vars, formVars,
           keyVars, history
  <2>2. QED
    BY <2>1, RestKeepsKeys
<1>22. QED
  BY <1>6, <1>7, <1>8, <1>9, <1>11, <1>12, <1>15, <1>16, <1>17, <1>18,
     <1>19, <1>20, <1>21 DEF Next, Settles

LEMMA KAlways == Spec => []KInv
<1>1. Init => KInv
  <2>1. SUFFICES ASSUME Init PROVE KInv
    OBVIOUS
  <2>2. /\ accepted = {} /\ ui.attempt = None /\ ui.phase = "closed"
        /\ uncertain = [o \in Operations |-> None]
    BY <2>1 DEF Init
  <2>3. QED
    BY <2>2 DEF KInv, Single, Kept
<1>2. WInv /\ KInv /\ [Next]_vars => KInv'
  BY BoundsAssumption, NoneAssumption, KStep
<1>3. QED
  BY <1>1, <1>2, WAlways, PTL DEF Spec

\* A write reported to have succeeded was executed, step for step, if not for
\* this opening then for an earlier one with the same data (api.ts keeps the
\* key of an unknown result), and no execution is reported as two successes
\* (api.ts forgets the key of a success).
THEOREM HonestSuccessHolds == Spec => []HonestSuccess
<1>1. WInv /\ KInv => HonestSuccess
  <2>1. SUFFICES ASSUME WInv, KInv PROVE HonestSuccess
    OBVIOUS
  <2>2. ASSUME NEW r \in accepted, r.step = Last, NEW s \in 1..Last
        PROVE  IF form.steps[s].ensured THEN DoneBefore(s)
               ELSE \E q \in accepted : q.intent = r.intent /\ q.step = s
    <3>1. Last \in 1..3
      BY <2>1, FormShapes DEF WInv, TypeOK, Shape, Stepped, Last
    <3>2. CASE s < Last
      BY <2>1, <2>2, <3>2 DEF WInv, Honest, Done
    <3>3. CASE s = Last
      <4>1. Recorded(r)
        BY <2>1, <2>2 DEF WInv, Honest
      <4>2. DoneBefore(s)
        BY <2>2, <3>3, <4>1 DEF Recorded, DoneBefore, OpOf
      <4>3. QED
        BY <2>2, <3>3, <4>2
    <3>4. QED
      BY <3>1, <3>2, <3>3
  <2>3. \A r \in accepted : Recorded(r)
    BY <2>1 DEF WInv, Honest
  <2>4. \A q, r \in accepted : q.key = r.key => q = r
    BY <2>1 DEF KInv, Single
  <2>5. QED
    BY <2>2, <2>3, <2>4 DEF HonestSuccess, Confirmed
<1>2. QED
  BY <1>1, WAlways, KAlways, PTL

\* A form that closes before it refreshes, or that catches a failing
\* refresh, sends nothing more for a confirmed intention (ui.tsx Form,
\* CreateTask).
THEOREM ConfirmedNotResentHolds == Spec => ConfirmedNotResent
<1>1. ASSUME WInv, [Next]_vars
      PROVE  [\A r \in wire' \ wire :
                form.held \/ form.closes => r.intent \notin Confirmed]_vars
  <2>1. CASE Settling \/ Refuses \/ \E r \in wire : Executes(r)
    <3>1. wire' \subseteq wire
      BY <2>1 DEF Settling, Quiet, Refuses, Executes, Elsewhere
    <3>2. QED
      BY <3>1
  <2>2. ASSUME NEW u \in Uis, NEW s \in 1..Last, Starting(u, s)
        PROVE  \A r \in wire' \ wire :
                 form.held \/ form.closes => r.intent \notin Confirmed
    <3>1. \A r \in wire' \ wire : r.intent = ui.intent
      BY <1>1, <2>2, Begun DEF New, Looks
    <3>2. ui.phase \in Active
      BY <2>2 DEF Starting
    <3>3. form.held \/ form.closes => ui.intent \notin Confirmed
      BY <1>1, <3>2 DEF WInv, Unconfirmed, Confirmed
    <3>4. QED
      BY <3>1, <3>3
  <2>3. QED
    BY <1>1, <2>1, <2>2, Classes, BoundsAssumption, NoneAssumption
<1>2. QED
  BY <1>1, WAlways, PTL DEF Spec, ConfirmedNotResent
=============================================================================
