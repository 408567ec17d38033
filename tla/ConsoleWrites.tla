---------------------------- MODULE ConsoleWrites ----------------------------
(* One form of the web console writing to the control plane over a network   *)
(* that loses requests, answers them late, and loses or garbles answers.     *)
(* web/src/api.ts gives every write an idempotency key and remembers the key *)
(* of a write whose result is unknown; web/src/ui.tsx (Form, Action) decides *)
(* when a write may be sent again; the server keeps one record per key.      *)
(* Everything the forms of the pages differ in, as far as retries and        *)
(* versions go, is a record; one behaviour is the life of one of them.       *)
EXTENDS Naturals, Sequences, FiniteSets

CONSTANTS
    MaxVersion,   \* bound on the versions of the resource written
    MaxSends,     \* bound on the requests the browser sends
    MaxIntents,   \* bound on the times a person opens the form
    None

ASSUME BoundsAssumption ==
    /\ MaxVersion \in Nat \ {0}
    /\ MaxSends \in Nat \ {0}
    /\ MaxIntents \in Nat \ {0}
    /\ None \notin Nat

-----------------------------------------------------------------------------
(* What a form sends. Where a step takes its If-Match from:                  *)
(*   "none"   no version: a create, or a write without a condition           *)
(*   "opened" the copy of the resource held since the form was opened        *)
(*   "prop"   the page's data at the moment of sending                       *)
(*   "reread" a GET made just before sending                                 *)
(* An ensured step takes two GETs: it is left out when the first shows it    *)
(* has been done, else sent on the version the second gives.                 *)
Bases == {"none", "opened", "prop", "reread"}
Create == [base |-> "none", ensured |-> FALSE]
OnOpened == [base |-> "opened", ensured |-> FALSE]
OnProp == [base |-> "prop", ensured |-> FALSE]
OnReread == [base |-> "reread", ensured |-> FALSE]
Ensured == [base |-> "reread", ensured |-> TRUE]

(* safe:   the attempt's data and key are kept for the retry button          *)
(* held:   a failing refresh after the write is caught and ends the form     *)
(* closes: the form is gone before the page is refreshed                     *)
(* mounted: the inputs stay on the page and keep what was typed              *)
(* dead:   failures the handler catches and answers with keepOpen            *)
Refusals == {"maintenance", "barred", "conflict", "rule"}
Failures == Refusals \cup {"invalid", "lost"}
Page(steps) ==
    [steps |-> steps, safe |-> FALSE, held |-> FALSE, closes |-> FALSE,
     mounted |-> TRUE, dead |-> {}]
Dialog(steps) == [Page(steps) EXCEPT !.mounted = FALSE]
Vanishing(steps) == [Dialog(steps) EXCEPT !.closes = TRUE]

CreateTask == [Dialog(<<Create>>) EXCEPT !.safe = TRUE, !.held = TRUE]
EditTask == Page(<<OnProp>>)
TransferTask == Page(<<OnProp>>)
AddDependency == Page(<<OnReread>>)
ArchiveTask == Page(<<OnProp>>)
SubmitTask == Page(<<Ensured, OnReread>>)
CancelTask == Page(<<OnReread>>)
ReviewTask == Page(<<OnProp>>)
BulkTransferRow == Vanishing(<<OnOpened>>)
SendComment == Vanishing(<<Create>>)
ChangeComment == Vanishing(<<Create>>)

SaveContext == Dialog(<<Create, Create, OnReread>>)
SaveVersion == Page(<<Create, OnReread>>)
CreateGitContext == Dialog(<<Create>>)
PublishVersion == Page(<<OnOpened>>)
SyncGit == Page(<<OnReread>>)

DecideApproval == Dialog(<<OnOpened>>)
VerifyArtifact == Dialog(<<OnOpened>>)
ReviewArtifact == Dialog(<<OnOpened>>)
RegisterTool == Dialog(<<Create>>)
ChangeTool == Dialog(<<OnOpened>>)
ReconcileTool == Page(<<OnProp>>)
RegisterAgent == Dialog(<<Create>>)
GrantSession == Vanishing(<<Create>>)
RevokeSession == Page(<<OnProp>>)
ReplayEvent == Page(<<Create>>)
ReconcileOperation == Page(<<OnProp>>)

AddMember == Dialog(<<Create>>)
ChangeMember == Dialog(<<OnOpened>>)
DeactivateMember == [Vanishing(<<OnOpened>>) EXCEPT !.dead = {"rule"}]
RegisterPerson == Page(<<Create>>)
RenameProject == Dialog(<<OnOpened>>)
AddProjectMember == Page(<<Create>>)
CreateProject == Dialog(<<Create>>)
ArchiveProject ==
    [Vanishing(<<OnOpened>>) EXCEPT !.dead = Failures \ {"invalid"}]
RestoreProject == Vanishing(<<OnOpened>>)
DeactivateAccount ==
    [Vanishing(<<Create>>) EXCEPT !.dead = {"rule", "barred"}]
ReactivateAccount == [Vanishing(<<Create>>) EXCEPT !.dead = {"barred"}]
ChangeOrgAdmin == [Vanishing(<<Create>>) EXCEPT !.dead = {"rule", "barred"}]
CreateWebhook ==
    [Vanishing(<<Create>>) EXCEPT !.dead = {"rule", "invalid"}]
ToggleWebhook == Page(<<OnProp>>)
RotateWebhook == Page(<<Create>>)
RemoveWebhook == Page(<<Create>>)
RegisterRepository ==
    [Vanishing(<<Create>>) EXCEPT !.dead = {"rule", "invalid"}]

(* Shown as read at the click, and never asked for again.                    *)
MarkRead == [Vanishing(<<Create>>) EXCEPT !.dead = Failures \ {"invalid"}]
MarkAllRead == Vanishing(<<Create>>)

Forms ==
    {CreateTask, EditTask, TransferTask, AddDependency, ArchiveTask,
     SubmitTask, CancelTask, ReviewTask, BulkTransferRow, SendComment,
     ChangeComment, SaveContext, SaveVersion, CreateGitContext,
     PublishVersion, SyncGit, DecideApproval, VerifyArtifact,
     ReviewArtifact, RegisterTool, ChangeTool, ReconcileTool,
     RegisterAgent, GrantSession, RevokeSession, ReplayEvent,
     ReconcileOperation, AddMember, ChangeMember, DeactivateMember,
     RegisterPerson, RenameProject, AddProjectMember, CreateProject,
     ArchiveProject, RestoreProject, DeactivateAccount, ReactivateAccount,
     ChangeOrgAdmin, CreateWebhook, ToggleWebhook, RotateWebhook,
     RemoveWebhook, RegisterRepository, MarkRead, MarkAllRead}

(* Forms whose handler checks the input itself before it sends anything.     *)
Checked ==
    {CreateTask, EditTask, ReviewTask, CreateGitContext, CreateWebhook,
     RegisterRepository}

-----------------------------------------------------------------------------
VARIABLES
    form,       \* the form this behaviour is about, never changed
    ui,         \* what the browser shows of it
    uncertain,  \* API.uncertainWrites: operation -> key, None when absent
    sent,       \* requests sent so far; numbers requests and fresh keys
    wire,       \* requests that may still reach the server
    reply,      \* answer on its way to the awaited request, or None
    left,       \* requests API.call waits for although their form was left
    srv,        \* the resource, and the requests executed, each with its
                \* idempotency record
    accepted,   \* requests whose success the form was told of
    crossed,    \* requests for an ensured step sent when it had been done
                \* since the form looked
    dropped     \* per intention: failures after which its key was given up

formVars == <<form, dropped>>
keyVars == <<uncertain, sent>>
history == <<accepted, crossed>>
vars == <<formVars, keyVars, history, ui, wire, reply, left, srv>>

(* An intention is one opening of the form. Its data, the body of every      *)
(* request it sends, are new, and numbered as the intention, or those of an  *)
(* earlier one: some forms can only ever send the same body.                 *)
Intents == 1..MaxIntents
Steps == 1..3
Versions == 1..MaxVersion
Keys == 1..MaxSends
Request ==
    [id: Keys, key: Keys, intent: Intents, body: Intents, step: Steps,
     base: Versions \cup {0}]

(* What api.ts tells operations apart by: path, version and body.            *)
Operations == Intents \X Steps \X (Versions \cup {0})
OpOf(r) == <<r.body, r.step, r.base>>

(* No request and no answer is nothing at all.                               *)
ASSUME NoneAssumption ==
    None \notin Request \cup Refusals \cup {"ok", "replay"}

Reading == {"reading", "rereading"}
Open == {"editing", "reading", "rereading", "sending", "refreshing",
         "unknown", "error", "dead", "completed", "replayed"}

TypeOK ==
    /\ form \in Forms
    /\ ui \in [phase: Open \cup {"closed", "mounted"}, typed: Versions,
               shown: Versions, intent: Intents \cup {0},
               body: Intents \cup {0}, step: Steps,
               attempt: Keys \cup {None}, call: Request \cup {None}]
    /\ uncertain \in [Operations -> Keys \cup {None}]
    /\ sent \in 0..MaxSends
    /\ wire \subseteq Request
    /\ reply \in Refusals \cup {"ok", "replay", None}
    /\ left \subseteq Request
    /\ srv \in [version: Versions, records: SUBSET Request,
                maintenance: BOOLEAN, barred: BOOLEAN]
    /\ accepted \subseteq Request
    /\ crossed \subseteq Keys
    /\ dropped \in [Intents -> SUBSET Failures]

Init ==
    /\ form \in Forms
    /\ ui = [phase |-> "closed", typed |-> 1, shown |-> 1, intent |-> 0,
             body |-> 0, step |-> 1, attempt |-> None, call |-> None]
    /\ uncertain = [o \in Operations |-> None]
    /\ sent = 0
    /\ wire = {}
    /\ reply = None
    /\ left = {}
    /\ srv = [version |-> 1, records |-> {},
              maintenance |-> FALSE, barred |-> FALSE]
    /\ accepted = {}
    /\ crossed = {}
    /\ dropped = [i \in Intents |-> {}]

Last == Len(form.steps)
\* Mutant: the step is taken without looking whether it was done.
DoneBeforeNever(s) == FALSE
DoneBefore(s) == \E r \in srv.records : r.step = s

-----------------------------------------------------------------------------
(* API.call sends one write: the caller's key, else the key kept for the     *)
(* same operation, else a fresh one; the key is kept before the fetch.       *)
Post(u, keys, s, base) ==
    LET op == <<u.body, s, base>>
        key == IF u.attempt # None THEN u.attempt
               ELSE IF keys[op] # None THEN keys[op] ELSE sent + 1
        r == [id |-> sent + 1, key |-> key, intent |-> u.intent,
              body |-> u.body, step |-> s, base |-> base]
    IN  /\ sent' = sent + 1
        /\ wire' = wire \cup {r}
        /\ ui' = [u EXCEPT !.phase = "sending", !.step = s, !.call = r]
        /\ uncertain' = [keys EXCEPT ![op] = key]

(* The handler reaches step s: it sends at once, or reads first.             *)
StartStep(u, keys, s) ==
    CASE form.steps[s].base = "reread" ->
            /\ ui' = [u EXCEPT !.phase = "reading", !.step = s,
                               !.call = None]
            /\ uncertain' = keys
            /\ UNCHANGED <<sent, wire>>
      [] form.steps[s].base = "none" -> Post(u, keys, s, 0)
      [] form.steps[s].base = "opened" -> Post(u, keys, s, u.typed)
      [] form.steps[s].base = "prop" -> Post(u, keys, s, u.shown)

(* A person opens the form with a new intention. A form that stays on the    *)
(* page keeps its inputs, whatever the page has loaded meanwhile.            *)
OpenForm ==
    /\ ui.phase \in {"closed", "mounted"}
    /\ ui.intent < MaxIntents
    /\ \E b \in 1..(ui.intent + 1) :
        ui' = [ui EXCEPT !.phase = "editing", !.intent = @ + 1, !.body = b,
                         !.typed = IF ui.phase = "mounted" THEN @
                                   ELSE ui.shown]
    /\ UNCHANGED <<formVars, keyVars, history, wire, reply, left, srv>>

\* Mutant: the attempt's key is the previous request's.
SubmitOldKey ==
    /\ ui.phase \in {"editing", "error"}
    /\ sent + Last <= MaxSends
    /\ LET a == IF form.safe /\ ui.attempt = None THEN sent ELSE ui.attempt
       IN  StartStep([ui EXCEPT !.attempt = a], uncertain, 1)
    /\ UNCHANGED <<formVars, history, reply, left, srv>>

(* Form.run / Action: a safe form draws the attempt's key the first time.    *)
Submit ==
    /\ ui.phase \in {"editing", "error"}
    /\ sent + Last <= MaxSends
    /\ LET a == IF form.safe /\ ui.attempt = None THEN sent + 1
                ELSE ui.attempt
       IN  StartStep([ui EXCEPT !.attempt = a], uncertain, 1)
    /\ UNCHANGED <<formVars, history, reply, left, srv>>

\* Mutant: the retry button draws a fresh key.
RetryAnew ==
    /\ ui.phase = "unknown"
    /\ sent < MaxSends
    /\ StartStep([ui EXCEPT !.attempt = sent + 1], uncertain, 1)
    /\ UNCHANGED <<formVars, history, reply, left, srv>>

(* The retry button: the same attempt, data and key, once more.              *)
Retry ==
    /\ ui.phase = "unknown"
    /\ sent < MaxSends
    /\ StartStep(ui, uncertain, 1)
    /\ UNCHANGED <<formVars, history, reply, left, srv>>

(* What a failure leaves behind in Form.run's catch and in the handlers      *)
(* that turn it into keepOpen.                                               *)
AfterFailure(kind) ==
    /\ ui' = [ui EXCEPT !.phase = IF kind \in form.dead THEN "dead"
                                  ELSE "error",
                        !.attempt = None, !.call = None]
    /\ dropped' = IF form.safe
                  THEN [dropped EXCEPT ![ui.intent] = @ \cup {kind}]
                  ELSE dropped

(* The handler finds the input wanting and sends nothing.                    *)
Invalid ==
    /\ form \in Checked
    /\ ui.phase \in {"editing", "error"}
    /\ AfterFailure("invalid")
    /\ UNCHANGED <<form, keyVars, history, wire, reply, left, srv>>

(* The GET before a write is answered with the state of that moment. For an  *)
(* ensured step it tells whether the step was done, no more.                 *)
Read ==
    /\ ui.phase = "reading"
    /\ IF ~form.steps[ui.step].ensured
       THEN Post(ui, uncertain, ui.step, srv.version)
       ELSE IF DoneBefore(ui.step)
       THEN StartStep(ui, uncertain, ui.step + 1)
       ELSE /\ ui' = [ui EXCEPT !.phase = "rereading"]
            /\ UNCHANGED <<keyVars, wire>>
    /\ UNCHANGED <<formVars, history, reply, left, srv>>

(* The second GET gives the version; what the first one told may have        *)
(* changed by now.                                                           *)
Reread ==
    /\ ui.phase = "rereading"
    /\ Post(ui, uncertain, ui.step, srv.version)
    /\ crossed' = IF DoneBefore(ui.step) THEN crossed \cup {sent + 1}
                  ELSE crossed
    /\ UNCHANGED <<formVars, accepted, reply, left, srv>>

ReadFails ==
    /\ ui.phase \in Reading
    /\ AfterFailure("lost")
    /\ UNCHANGED <<form, keyVars, history, wire, reply, left, srv>>

-----------------------------------------------------------------------------
(* The server answers one request in one transaction: maintenance, then the  *)
(* caller's standing and the project's, then the key's record, then the      *)
(* version, then the rules of the operation itself.                          *)
Recorded(r) == \E x \in srv.records : x.key = r.key /\ OpOf(x) = OpOf(r)
Stale(r) == r.base # 0 /\ r.base # srv.version
Verdicts(r) ==
    IF srv.maintenance THEN {"maintenance"}
    ELSE IF srv.barred THEN {"barred"}
    ELSE IF Recorded(r) THEN {"replay"}
    ELSE IF Stale(r) THEN {"conflict"}
    ELSE {"rule"} \cup
         (IF r.base = 0 \/ srv.version < MaxVersion THEN {"ok"} ELSE {})

Serve(r, verdict) ==
    /\ verdict \in Verdicts(r)
    /\ wire' = wire \ {r}
    /\ srv' =
        IF verdict = "ok"
        THEN [srv EXCEPT !.version = IF r.base = 0 THEN @ ELSE @ + 1,
                         !.records = @ \cup {r}]
        ELSE srv
    /\ reply' = IF ui.call = r THEN verdict ELSE reply
    /\ left' = IF verdict = "maintenance" THEN left \ {r} ELSE left
    /\ UNCHANGED <<formVars, keyVars, history, ui>>

LoseRequest(r) ==
    /\ wire' = wire \ {r}
    /\ left' = left \ {r}
    /\ UNCHANGED <<formVars, keyVars, history, ui, reply, srv>>

-----------------------------------------------------------------------------
(* A 2xx answer that can be read: the key is forgotten; the next step starts *)
(* or the write is confirmed, and then the page is refreshed.                *)
\* Mutant: the key of an answered write is kept.
ForgetNothing(r) == uncertain
Forget(r) == [uncertain EXCEPT ![OpOf(r)] = None]

StepSucceeds ==
    /\ ui.phase = "sending"
    /\ reply \in {"ok", "replay"}
    /\ ui.step < Last
    /\ reply' = None
    /\ accepted' = accepted \cup {ui.call}
    /\ StartStep(ui, Forget(ui.call), ui.step + 1)
    /\ UNCHANGED <<formVars, crossed, left, srv>>

Succeeds ==
    /\ ui.phase = "sending"
    /\ reply \in {"ok", "replay"}
    /\ ui.step = Last
    /\ uncertain' = Forget(ui.call)
    /\ accepted' = accepted \cup {ui.call}
    /\ ui' = IF form.closes
             THEN [ui EXCEPT !.phase = "closed", !.attempt = None,
                             !.call = None]
             ELSE [ui EXCEPT !.phase = "refreshing"]
    /\ reply' = IF form.closes THEN None ELSE reply
    /\ UNCHANGED <<formVars, crossed, sent, wire, left, srv>>

(* The refresh after the write. The inputs of a mounted form then hold what  *)
(* was just written.                                                         *)
Refreshes ==
    /\ ui.phase = "refreshing"
    /\ LET after == IF form.safe /\ reply = "replay" THEN "replayed"
                    ELSE IF form.mounted THEN "mounted" ELSE "closed"
           held == IF form.mounted /\ ui.call.base # 0
                      /\ ui.call.base < MaxVersion
                   THEN ui.call.base + 1 ELSE ui.typed
       IN  ui' = [ui EXCEPT !.phase = after, !.shown = srv.version,
                            !.typed = held, !.attempt = None, !.call = None]
    /\ reply' = None
    /\ UNCHANGED <<formVars, keyVars, history, wire, left, srv>>

\* Mutant: a failing refresh is shown as a failing write.
RefreshFailsAsError ==
    /\ ui.phase = "refreshing"
    /\ ui' = [ui EXCEPT !.phase = "error", !.attempt = None, !.call = None]
    /\ reply' = None
    /\ UNCHANGED <<formVars, keyVars, history, wire, left, srv>>

RefreshFails ==
    /\ ui.phase = "refreshing"
    /\ ui' = [ui EXCEPT !.phase = IF form.held THEN "completed" ELSE "error",
                        !.attempt = None, !.call = None]
    /\ reply' = None
    /\ UNCHANGED <<formVars, keyVars, history, wire, left, srv>>

(* An answer of another status. Below 500 the key is forgotten; whatever the *)
(* status, an answer that could be read ends the attempt.                    *)
Fails ==
    /\ ui.phase = "sending"
    /\ reply \in Refusals
    /\ uncertain' = IF reply = "maintenance" THEN uncertain
                    ELSE Forget(ui.call)
    /\ AfterFailure(reply)
    /\ reply' = None
    /\ UNCHANGED <<form, sent, history, wire, left, srv>>

(* No answer within twenty seconds, or the connection breaks.                *)
Unanswered ==
    /\ ui.phase = "sending"
    /\ IF form.safe
       THEN /\ ui' = [ui EXCEPT !.phase = "unknown", !.call = None]
            /\ UNCHANGED dropped
       ELSE AfterFailure("lost")
    /\ reply' = None
    /\ UNCHANGED <<form, keyVars, history, wire, left, srv>>

(* The write was done, or the server is failing, but the body of the answer  *)
(* cannot be read. A safe form keeps the key after all.                      *)
Garbled ==
    /\ ui.phase = "sending"
    /\ reply \in {"ok", "replay", "maintenance"}
    /\ IF form.safe
       THEN /\ ui' = [ui EXCEPT !.phase = "unknown", !.call = None]
            /\ uncertain' = [uncertain EXCEPT ![OpOf(ui.call)] = ui.call.key]
            /\ UNCHANGED dropped
       ELSE /\ uncertain' = IF reply = "maintenance" THEN uncertain
                            ELSE Forget(ui.call)
            /\ AfterFailure("lost")
    /\ reply' = None
    /\ UNCHANGED <<form, sent, history, wire, left, srv>>

(* The person leaves the form. Its last request, if it has an answer to come *)
(* yet, is still waited for. (Handlers with more to send run on to their     *)
(* last request in any case: nobody leaves before that.)                     *)
Leave ==
    /\ ui.phase \in (Open \ Reading) \cup {"mounted"}
    /\ ui.phase = "sending" => ui.step = Last
    /\ left' = IF ui.phase = "sending"
                  /\ (ui.call \in wire \/ reply \notin {None, "maintenance"})
               THEN left \cup {ui.call} ELSE left
    /\ ui' = [ui EXCEPT !.phase = "closed", !.attempt = None, !.call = None]
    /\ reply' = None
    /\ UNCHANGED <<formVars, keyVars, history, wire, srv>>

(* Its answer forgets the key that by now may be another opening's. It may   *)
(* also never come. (After an unreadable one a safe form would have its key  *)
(* put back, where nobody looks it up.)                                      *)
LateAnswer(r) ==
    /\ r \notin wire
    /\ left' = left \ {r}
    /\ uncertain' = Forget(r)
    /\ UNCHANGED <<formVars, sent, history, ui, wire, reply, srv>>

-----------------------------------------------------------------------------
(* The page loads newer data while the form is open or not.                  *)
Reload ==
    /\ ui.phase \in {"closed", "mounted", "editing", "error"}
    /\ ui.shown # srv.version
    /\ ui' = [ui EXCEPT !.shown = srv.version]
    /\ UNCHANGED <<formVars, keyVars, history, wire, reply, left, srv>>

(* Another person writes the same resource. A form none of whose steps names *)
(* a version cannot tell.                                                    *)
OthersWrite ==
    /\ \E s \in 1..Last : form.steps[s].base # "none"
    /\ srv.version < MaxVersion
    /\ srv' = [srv EXCEPT !.version = @ + 1]
    /\ UNCHANGED <<formVars, keyVars, history, ui, wire, reply, left>>

(* Maintenance begins or ends; the role is taken away or given back, or the  *)
(* project is archived or restored.                                          *)
StandingChanges ==
    /\ \/ srv' = [srv EXCEPT !.maintenance = ~@]
       \/ srv' = [srv EXCEPT !.barred = ~@]
    /\ UNCHANGED <<formVars, keyVars, history, ui, wire, reply, left>>

(* What the browser waits for, and what becomes of it.                       *)
Settles ==
    \/ Read \/ Reread \/ ReadFails \/ StepSucceeds \/ Succeeds
    \/ Refreshes \/ RefreshFails \/ Fails \/ Unanswered \/ Garbled
    \/ \E r \in left : LateAnswer(r)

Next ==
    \/ OpenForm \/ Submit \/ Retry \/ Invalid \/ Leave \/ Reload
    \/ Settles
    \/ \E r \in wire :
        \/ \E v \in {"maintenance", "barred", "replay", "conflict", "rule",
                     "ok"} : Serve(r, v)
        \/ LoseRequest(r)
    \/ OthersWrite \/ StandingChanges

Spec == Init /\ [][Next]_vars

-----------------------------------------------------------------------------
(* A retried write takes effect at most once: as long as a safe form was     *)
(* never given a refusal to show, however many of its requests were lost,    *)
(* delayed or answered twice; and always for a write conditional on the      *)
(* copy the form was opened with (api.ts keys, ui.tsx attempt, server.go     *)
(* idempotency record and If-Match).                                         *)
RetriedOnce ==
    \A q, r \in srv.records :
        /\ q.intent = r.intent /\ q.step = r.step
        /\ \/ form.safe /\ dropped[r.intent] = {}
           \/ form.steps[r.step].base = "opened"
        => q = r

(* Submitting a task again after a half-done attempt assigns it once, even   *)
(* if the first attempt's requests arrive late. Only an assignment that      *)
(* arrives between the two GETs of a later attempt is made a second time by  *)
(* that attempt, on the version it has already moved                         *)
(* (TaskOverviewPanel.tsx reads the assignments before the task).            *)
EnsuredOnce ==
    \A q, r \in srv.records :
        q.step = r.step /\ form.steps[r.step].ensured =>
            q = r \/ q.id \in crossed \/ r.id \in crossed

(* The intentions the browser was told have succeeded.                       *)
Confirmed == {r.intent : r \in {a \in accepted : a.step = Last}}

(* The console never reports a success that did not happen. Every step of a  *)
(* confirmed intention was executed, an ensured one by whoever came first:   *)
(* if not for this opening, then for an earlier one with the same data whose *)
(* own success was never seen (api.ts keeps the key of an unknown result for *)
(* the next write of the same path, version and body). And no execution is   *)
(* reported as the success of two intentions.                                *)
HonestSuccess ==
    /\ \A i \in Confirmed, s \in 1..Last :
        IF form.steps[s].ensured THEN DoneBefore(s)
        ELSE \E r \in accepted : r.intent = i /\ r.step = s
    /\ \A r \in accepted : Recorded(r)
    /\ \A q, r \in accepted : q.key = r.key => q = r

(* Once the browser was told that the write succeeded it never sends it      *)
(* again: not when the refresh after it fails, not from the retry button     *)
(* (CreateTask's comment; the dialogs that close before they refresh).       *)
ConfirmedNotResent ==
    [][ \A r \in wire' \ wire :
            form.held \/ form.closes => r.intent \notin Confirmed ]_vars

(* web-console-guide: after a network failure or a server error the same     *)
(* operation is retried with the same key, so an unknown result is never     *)
(* created twice. Refusals below 500 are set aside.                          *)
KeySurvivesServerErrors ==
    \A q, r \in srv.records :
        /\ form.safe /\ q.intent = r.intent
        /\ dropped[r.intent] \subseteq {"maintenance", "lost"}
        => q = r

=============================================================================
