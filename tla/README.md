# Verification of ACCP in TLA+

ACCP (Agent Collaboration Control Plane) lets humans own tasks and delegate
their execution to agent sessions.  An agent claims a *Run* of a task, keeps it
alive with heartbeats, uploads evidence and reports; a human reviews the
evidence and accepts or returns the task.  The server is Go over one PostgreSQL
database, with background loops in `cmd/accp/worker.go`; humans use a React
console (`web/src`), a client that keeps state of its own.  This directory models
the parts of both whose correctness depends on the order of things.

## 1. The system

### Components, their state and their operations

| Component | State | Operations | Hard because |
|---|---|---|---|
| Tasks and Runs (`tasks_execution.go`, `task_lifecycle.go`, `resources.go`) | `tasks`, `task_dependencies`, `task_assignments`, `task_contexts`, `task_runs`, fencing sequence | create, assign, add and remove dependency, SUBMIT, RETRY, CANCEL, ARCHIVE, RESTORE, edit, transfer, claim, heartbeat, report | humans, several agents and the worker act on one task in any order |
| Reconcile worker (`reconcile.go`) | the same rows | every 5 s, one transaction per project: close Runs that lost their authority, release BLOCKED tasks that became ready | decides from its own SQL what the request path decides from its own checks |
| Evidence and review (`artifacts.go`, `delivery.go`, `dependency_evidence.go`) | `artifacts`, resolved references of dependencies | register, verify, accept, reject; accept or return a task | evidence outlives the Run it came from and releases other tasks |
| Sessions and standing (`sessions.go`, `identity.go`, `management.go`) | `agent_sessions`, memberships, roles, accounts | create, handshake, revoke, expire; change membership, change account | authority can go at any moment under a live Run |
| Tool governance (`governance.go`, `governance_worker.go`, `gateway/`) | `tool_policies`, `tool_invocations`, `tool_approvals` | request, approve, reject, process in two transactions with an external effect between, reconcile UNKNOWN | crash between effect and record; authority checked twice; two workers |
| Request transaction (`server.go`) | `idempotency_records` | one transaction per request under the project row lock; stored response replayed for a repeated key | replays must pass today's authorisation |
| Bridge (`internal/bridge/leases.go`, `pkg/client`) | lease per Run, uncertain calls | track, maintain, renew, call, observe | answers get lost after the server committed |
| Events (`internal/eventbus/worker.go`, `events.go`) | outbox, JetStream, inbox, feed, failures, cursors | relay, consume, record failure, replay, poll | ambiguous publish, redelivery, termination, broker's deduplication window |
| Webhooks (`webhooks.go`, `webhook_delivery.go`) | fan-out cursor, deliveries | fan out, dispatch with retry ceiling, change, rotate, delete | POST happens inside the transaction that records it |
| Maintenance and recovery (`database/maintenance.go`, `recovery/`, `cmd/accp/maintenance.go`) | runtime mode, recovery items | enter, leave, quarantine after restore, resolve, finish | an old snapshot must not act as if it were current |
| Project and organisation administration (`management.go`) | projects, organisation roles | archive, restore, change members and accounts | rules about the last administrator; locks in two orders |
| Console: forms (`api.ts`, `ui.tsx` and the page of each form) | `uncertainWrites`, the attempt of a form, what the page shows | open, submit, retry, leave; read before write, send, refresh after it | answers get lost, come late or cannot be read; a refresh fails after the write; versions move meanwhile |
| Console: session and project data (`app/useAuthSession.ts`, `useProjectData.ts`, `useEventStream.ts`, `App.tsx`) | token, `me`, project, `refreshGeneration`, `lastTaskCheck`, data | sign in, out, expire; navigate; full load, ten-second check, early check, a form's refresh | loads of several projects and persons overlap; two reads make one check |
| Console: pages and lists (`tasks/`, `workspace/`, `operations.tsx`, `management.tsx`) | what is selected, its parts, rows and cursor, the loading flag | open, filter, reload, next page, compare, publish | each page guards its answers in its own way, or not at all |
| Git providers (`gitprovider/`, behind `gateway/registry.go`) | the pull requests of the provider | merge at a head, ask whether merged at a head; read revisions and files | others merge as well; the lookup does not know the operation |
| Notifications, comments (server side), queries, audit export, identity provider, scripts, deployment | rows of one reader, files | | no interaction that a model could check |

### How they interact

All requests on a project run in one transaction that locks the project row
(`server.go`, `execute`), authorises, calls the handler, writes the idempotency
record and commits.  The reconcile worker and the tool worker take the same row
lock with SKIP LOCKED.  So inside one project, handlers and scans are serial,
and a handler is one action.  What is *not* under that lock is modelled as
separate steps: account changes (an organisation operation), the external effect
of a tool, the relay, the consumers, webhook POSTs, the bridge's network.
Handlers append to the outbox in their transaction; the relay publishes it, the
consumer writes the feed, and webhook fan-out reads the feed.

The console talks to the server by requests only.  Every write carries an
idempotency key, most carry `If-Match`, and the server answers a key it knows
with the recorded response.  Reads are repeated every ten seconds, and earlier
when the event stream says so.  Nothing orders two requests of a browser, and
a request outlives the component that made it.

Reading the human's row FOR SHARE in `authenticate` and FOR UPDATE in the account
change makes an account change serial with that human's own requests, and an
account change is one transaction, so it too is one action of `TaskRuns`.

## 2. Modules

### `TaskRuns`

One action per handler, the worker's scan, session and standing changes, and the
passing of time.  State is named after the columns and fields:

| Variable | Code |
|---|---|
| `status`, `owner`, `authorized`, `archived` | `tasks.status`, `owner_user_id`, `retry_authorized`, document field `archived` |
| `assignment`, `ctx` | active row of `task_assignments`; version in `task_contexts` |
| `dep`, `evidence` | `task_dependencies.condition`, `resolved_artifact_id` |
| `attempts`, `run`, `nextFence` | `task_runs` by attempt; sequence `run_fencing_tokens` |
| `art`, `published` | `artifacts`; versions PUBLISHED |
| `member`, `account`, `roles`, `sess` | `memberships`, `human_users.active`, `agent_sessions` |
| `lapsed` | sessions past `expires_at` by the database's clock |
| `unsettled` | Runs with a tool operation not in a final state |
| `cancelEvents` | TASK_CANCELED rows of the outbox per task |
| `granted` | history variable: what a human last asked for |

Abstractions: a request whose `If-Match` does not match fails without effect and
has no action; PROGRESS reports, titles, criteria, repositories, comments and
notification rows are data nothing here reads; the set of unsettled operations is
one flag per Run.

Time has two judges.  Leases are written (`tasks_execution.go:266`, `:400`) and
scanned (`reconcile.go:61`) by the database's clock, but a request is judged by
the clock of the server that answers it (`tasks_execution.go:338`,
`sessions.go:27`), and nothing in the code or the deployment keeps the two
together.  A lease is a countdown by the database's clock (`LeaseTicks` stands for
90 s) that goes on below zero down to `-ClockSkew`, the bound on how far a server
is behind: the scan takes a Run whose countdown has reached zero, `LiveRun`
accepts a write until it has reached `-ClockSkew`.  In the same way `LapseSession`
is a session's expiry by the database's clock, and `EndSession` its revocation or
its expiry by every clock.  A server whose clock is ahead only refuses more, which
is the same as a request that is not made.

### `MCTaskRuns`

Constants for TLC and the symmetry set.

### `WorkContract`

What the control plane promises about a piece of work when leases, sessions,
roles, dependencies, evidence and tool operations are left out: an attempt uses
up a grant, takes the terms of that moment (owner and Context version) and a
fence no other attempt has; only its end, a judgement or a cancellation moves
the work on; a cancellation is announced as it happens.  `Contract` in
`TaskRuns` maps the code's state to it: `Phase` makes DRAFT and BLOCKED *open*,
READY *offered* and RUNNING *held*; the grant is what a human last asked for;
what was taken, and its fence, are read from the latest Run.

| `WorkContract` | `TaskRuns` |
|---|---|
| `Define`, `Redefine`, `Ask` | `CreateTask`; `EditTask`, `TransferTask` and the commands that withdraw the authorisation; `Submit`, `Retry` |
| `Take`, `Leave` | `ClaimRun`; `ReportCompletion`, `ReportFailure`, a READY task that stops being ready |
| `Judge`, `Cancel` | `AcceptTask`, `ReturnTask`; `Cancel` |
| `Sweep` | `Reconcile`: every lost Run and every released task of one scan |

Everything else the program does (heartbeats, artifacts, decisions about
evidence, sessions, members, tool operations, archiving) leaves the contract's
state as it was.

### `TaskRunsProofs`, `EvidenceProofs` and `WorkContractProofs`

The proofs, section 5.

### `OperationLedger` and `ToolGateway`

`OperationLedger` is what the gateway promises about one governed operation:
launched at most once and only after it was granted; closed as done only when its
effect is in place, as failed only when the external system refused it, and as
void only if it was never launched and never will be.  Some operations are
`Shared`: others can bring their effect about as well, and then it may be in place
although the operation was refused or has not been sent yet.
`ToolGateway` is the code; `Ledger` maps its state to the ledger (RUNNING and
UNKNOWN both stand for *taken*: from there on the effect may happen).

| Variable | Code |
|---|---|
| `inv`, `approval`, `decider` | `tool_invocations.status`, the approval's `status` and `decided_by_user_id` |
| `bound`, `expired`, `aged` | policy version and schema version in the binding; its `expires_at`; `started_at` older than 45 s |
| `policy`, `config` | `tool_policies` by tool; the registry the processes loaded |
| `session`, `runState`, `member`, `account`, `roles` | what `validateInvocation` reads |
| `pc`, `work`, `lock` | where a worker is in `processInvocation`; the rest of its list; the worker whose second transaction holds the project row |
| `outcome`, `sends` | what became of the operation in the external system, how often it was sent |
| `merged` | the pull requests merged at the head their operations name |

`Start` is the first transaction, `Enter` the checks of the second, `Send` the
call, `Finish` the save.  `Skip` is every way of passing an operation by: the row
is locked, maintenance is on, somebody else was here.  `Stop` is a crash, the
20 s deadline of a round, or an error that drops the rest of the batch;
`LoseConnection` ends the second transaction under a worker that does not know
it yet.  `Ages` needs no worker to be working on the operation, since 45 s
outlast a round.  All operations belong to one Run of one session.  Every process
runs with the same tools file.  A lease, a session and a binding end for all
processes at one moment; clocks that differ are modelled in `TaskRuns` only, and no
property here is about the moment at which time takes authority away.

`Lookup` is what reconciling an UNKNOWN operation is told, and the two kinds of
backends differ in it (`gateway/registry.go:161`).  An MCP tool is asked for the
operation by its id; it is external, and assumed to keep the contract of
`m3-m4-platform.md`: it answers with what happened to that operation.  For a
`git.merge` (`GitMerges`) the id is dropped, and `MergeStatus`
(`gitprovider/github.go:270`) asks only whether the pull request is merged at the
approved head.  Others may merge it too (`OthersMerge`), and two operations may
name the same one (`PullOf`), so the answer may be about somebody else's merge;
it is never that the merge was refused.  These operations are the ledger's
`Shared` ones.

### `MCToolGateway`

Constants for TLC.

### `ToolGatewayProofs`

The proofs, section 5.

### `EventRelay`

The way of an event from the outbox to a subscriber.  An event is its outbox
sequence; two events of a project are committed in the order of their sequences
(row lock), events of two projects need not be.

| Variable | Code |
|---|---|
| `outbox`, `delivered`, `version`, `due` | `outbox_events`: rows, `delivered_at`, `replay_version`, `next_attempt_at <= now()` |
| `relaying`, `answered` | the row `relayOne` holds, and whether its PubAck arrived |
| `wire`, `window`, `stream` | publications under way, ids inside the two minutes of JetStream's deduplication, the stream |
| `acked`, `tries` | the durable consumer: MaxAckPending 1, so what is settled is a prefix; NumDelivered |
| `hold` | per process: the message `consumeOne` has, how far it is, the sequence its open transaction drew |
| `position`, `failure` | `event_feed.sequence`, `event_failures.resolved_at` |
| `cursor`, `received` | a client of `pollEvents` |

`Publish` and one of `ConfirmPublished`, `DeferPublished` and `AbandonPublished`
are `relayOne`; between them the broker may take the message without the relay
ever knowing.  `Deliver` may hand out a message somebody still holds (AckWait).
`Persist` and `CommitFeed` are the two ends of the transaction in `persist`, with
the advisory lock between them; a commit whose answer is lost counts as a
failure.  `LetGo` is a NAK, a lost acknowledgement, or a crash.

The broker is external: it keeps what it accepted.  The stream's seven days of
retention, its refusal when full (a lost publication here) and the content of
an event are left out; `Poison` names the events `persist` refuses every time.

### `MCEventRelay`

Constants for TLC and the symmetry of the consumers.

### `EventRelayProofs`

The proofs, section 5.

### `ConsoleWrites`

One form of the console, from opening it to the refresh after the write, against
the server's request transaction.  What the forms differ in is a record of
`Forms`, one operator per form, named for what it does; `form` never changes.

| Field or variable | Code |
|---|---|
| `steps` | the POSTs of the handler in order; `base` is where a step's `If-Match` comes from (`opened`: the object the form was opened with, `prop`: the page's data when sending, `reread`: a GET just before), `ensured` a step left out when a GET shows it done |
| `safe`, `held`, `closes`, `mounted`, `dead` | `safeRetry`; the refresh is caught; the dialog goes before the refresh; uncontrolled inputs that stay on the page; failures answered with `keepOpen` |
| `ui` | phase of `Form` or `Action`, `typed` and `shown` versions, `attempt.current`, the request waited for |
| `uncertain` | `API.uncertainWrites` |
| `wire`, `reply` | the network; requests may be lost or arrive after the browser gave up |
| `left` | requests `API.call` waits for although their form was left |
| `srv` | version of the resource, the requests executed, each with its row in `idempotency_records`, maintenance, standing of the caller |
| `accepted`, `crossed`, `dropped` | history: the requests the form was told have succeeded; those for an ensured step sent when it had been done since the form looked; failures after which a safe form gave up its key |

`Serve` is `execute` of `server.go` with the order of its checks: maintenance,
standing, record of the key, version, rules.  `StandingChanges` covers the role,
the project's archiving and maintenance.  Opening the form again is a new
intention; its `body` may be new or that of an earlier one, since some forms can
send one body only (`WebhooksPanel.tsx:91`, deleting a comment, deactivating an
account).  `uncertainWrites` tells writes apart by path, version and body
(`OpOf`), so an opening takes over the key of an earlier one that sent the same
and never learnt the result; and the answer to a request of a form that was left
(`LateAnswer`) forgets a key that by then may be another's.  `Read` and `Reread`
are the two GETs before an ensured step: the first shows whether it was done, the
second gives the version to send it on, and anything may happen between them.  A
form is not left between two of its requests: its handler would run on in any
case.  The 20 s limit of every fetch is
`Unanswered`; `Garbled` is an answer whose body cannot be read.  Another person's
writes (`OthersWrite`) happen only where a form names a version, since no other
form could tell.

### `ConsoleData` and `MCConsoleData`

Whose data the console shows, and of which project.

| Variable | Code |
|---|---|
| `world` | the server: per project, numbers of task changes and of other changes |
| `token`, `me`, `boot` | `useAuthSession`; `/me` and `/projects` under way |
| `route`, `projectID`, `unavailable` | the address and what `App.tsx` makes of it |
| `forms` | forms still sending, each with the `refresh` of the render it belongs to |
| `loads` | `refresh()` and `refreshChanges()` under way; `current` stands for `generation === refreshGeneration.current` |
| `loaded`, `dataProjectID`, `lastTaskCheck`, `data` | the state of `useProjectData`; `data.person` is a ghost |
| `apart` | ghost: a load's answers came from moments too far apart for the next check |
| `strayed` | ghost: a form left behind has refreshed its project over the one selected |

`History` says which task each change of a project is to and whether it leaves the
task archived.  A row of the list is the change that made it what it is, so the
list is a set of changes, and `Rows` is what `task_query.go:69` answers: the
latest change of each task, without the archived ones (`:89`).  A check replaces
the rows of the tasks it is told of (`Merged`) and takes none away.

Tasks and workbench are read by two requests (`useProjectData.ts:184`), each at
its own moment between the load's start and its answer (`Applies`), and each may
wait for the project row.  The next check asks for the tasks changed since a
second before the workbench was read; `back` is how many changes had been made by
then.  When the tasks were read before that moment and something changed in
between, the next check is not told of it, and the ghost `apart` says so.  Nothing
in the code keeps the two reads within the second, so the properties say what
holds until then.  `updated_at` is taken to follow the order of the commits:
writers hold the project row FOR UPDATE, readers FOR SHARE, and one server stamps
them; clocks of several servers are left out here.  So are lists longer than a
page and the limit of fifty rows.  Effects run together with the render that
made them due.  A token is found once in the life of a page, so signing in is a
page loaded anew.  The event stream is the early check it asks for (`Nudge`):
its back-off, renewal and cursor only decide when.

### `ConsoleViews`

One page and its overlapping requests.  A page is a record of `Panels`: whether
an overtaken answer is dropped (`guarded`: a generation counter or a live flag),
whether another subject is another component (`keyed`), what the click, the first
answer and closing empty, whether it is a list with a next page, what a failure
wipes, whether its own writes go into the list (`writes`: `TaskComments`, whose
`send` appends the comment it posted and whose `CommentActions` replace a row in
place, whatever is loading).

| Variable | Code |
|---|---|
| `subject`, `selected` | what was opened or filtered for, what the page says it shows |
| `loads` | requests under way; `current` is what the guard compares |
| `slot` | the parts of a page, filled by requests in a row: `ApprovalDialog`, `ArtifactDialog`, `ContextDialog`, `TaskDetail` |
| `rows`, `cursor` | `Tasks`, `AuditRecords`, `TaskComments`, `Notifications` |
| `own`, `writing` | `TaskComments`: the writes of its own the list shows; those whose answers are to come |
| `loading`, `failed` | the flag the controls look at, the error shown |
| `reviewed` | `Contexts`: the version whose comparison was reviewed |

The properties speak of the pages whose code promises something: guarded ones and
keyed ones.  `TaskComments` is keyed and not guarded: its next page is asked for
one at a time but has no live flag.  The unguarded ones (`Approvals`, `Artifacts`,
`AuditRecords`, notifications, the management panels) are modelled as they are.

### `ConsoleDataProofs`, `ConsoleWritesProofs`, `ConsoleViewsProofs`

The proofs, section 5.

## 3. Runs

Every run names its bounds in its cfg.  The bound `MaxCancelEvents` lets a
cancellation be announced a second time.  `Unsteady` bounds whose standing changes,
`GitKinds` whether artifacts may be Git references, `MaxAttempts` the Runs of a
task, `MaxCancelEvents` the cancellations announced.  Deadlock is not checked:
when every task is done or cancelled and every bound reached, the system may
stop; so may a console once its bounds are reached.

| Run | Question | Instance | Why it is enough |
|---|---|---|---|
| `lifecycle` | Do task and Run agree, does no attempt start without a human, does DONE rest on evidence, is history immutable, is nothing put behind an open tool operation, and is the whole an implementation of `WorkContract`? | 1 task, 2 attempts, 1 artifact (a Git reference) | these properties speak of one task and two consecutive attempts; a text artifact behaves like a Git reference verified at once, `standing` has both |
| `standing` | Can an agent write between the loss of its authority and the scan? | 1 task, lease of 2 ticks, a server's clock 1 tick behind, roles, membership, account and session all change | a loss and a write are all that is needed; 2 ticks let a heartbeat matter, 1 tick of skew is a state the two clocks disagree about (the other runs of `TaskRuns` have no skew) |
| `dependencies` | Do the frozen inputs and the dependencies hold until DONE, is a reference taken once and for all, can a cycle form? | 2 tasks that may wait for each other, 2 artifacts, symmetry | one edge is one predecessor, two candidates compete; longer cycles are covered by the proof of `Acyclic` |
| `progress` | Do lost Runs end, is ready work released? | 2 tasks, one waiting for the other, fairness of the worker | |
| `gateway_effect` | Is an operation launched at most once, only with authority that stays through the effect, and do approvals follow operations? | 1 operation, a merge that others may make too, 2 workers that stop anywhere, memberships, accounts, policy, tools file, session and Run change | operations share nothing but the lock and the batch; two workers are needed for a stale list |
| `gateway_progress` | Is what lost its session cancelled, does nothing stay RUNNING? | 2 operations of MCP tools, one read-only, batch of 1, a worker that may stop, fairness | a batch smaller than the queue is the interesting case of LIMIT 25 |
| `event_feed` | Is an event that counts as delivered ever lost, do events of a project keep their order, can a cursor skip an event? | 2 events of a project, one replayed once, 2 consumers, 2 deliveries | an overtaking and a skipped event need two; two consumers hold one message; the second delivery is the last |
| `event_progress` | Is everything queued consumed at last? | 2 events, the first refused by the consumer, the second replayed; 1 consumer; ids forgotten with fewer than 2 messages stored; fairness | the refused event stands in front of the other |
| `console_writes` | Does a retried write take effect once, is a reported success real, is a confirmed write never sent again? | each of 46 forms, opened twice, 3 requests, 3 versions | a lost answer, its retry and a request of the next opening need three; two versions beside the first let a late request and another person both write |
| `console_data` | Does the page show the selected project for the person signed in, all of it, never older, and at last? | 2 people, 2 projects, 2 loads under way, 1 form, 2 tasks, 3 changes of tasks of which the last archives one, and 1 of other data | a late answer needs two loads; a gap needs a change of another task behind it, and archiving a third |
| `console_views` | What does each page show when requests overlap? | 18 pages, 2 subjects, 2 pages of a list, 3 requests, 2 changes, those of the page itself among them | two overlapping openings and a next page; a comment posted before and after the first page |
| `safe_retry` | finding, section 6 | one opening of each form | |

## 4. Fairness

`FairSpec` adds weak fairness of `Reconcile` only.  `cmd/accp/worker.go` calls the
scan on a 5 s ticker for as long as the process runs.  The scan skips a project
whose row is locked, so the assumption is that the row is not locked at every
tick for ever.  Nothing is assumed of humans or agents.

In `ToolGateway` the worker's ticker gives weak fairness of its steps and the
clock weak fairness of `Ages` and `BindingExpires`.  The worker may skip an
operation because the row is locked, or drop its batch because one step failed;
strong fairness of judging each operation, and of getting past it, says that
neither happens in every round for ever.  Nothing is assumed of the external
system: a call without an answer ends UNKNOWN.

In `ConsoleData` the interval keeps firing and answers come.  The ten-second
check can overtake the one before it, and a load can fail; strong fairness of
starting a check and of a current load being answered says that neither happens
for ever, which is so when a load takes less than ten seconds now and then.
Nothing is assumed of the stream, of the person or of forms.  `ConsoleWrites` and
`ConsoleViews` are checked for safety only.

## 5. Proofs

`TaskRunsProofs` proves for every set of tasks, humans, sessions, artifacts and
every bound, from `ConstantsAssumption` alone, that the specification keeps
`TypeOK`, `RunTaskAgreement`, `HumanGrant`, `SettledBehind` and `Acyclic`.  They
are not inductive one by one; `IInv` adds two facts:

- `NoGrantWhileRunning`: a RUNNING task has used up its authorisation.  Without
  it a failed or lost Run could leave a BLOCKED task the worker may release.
- `SettledSupport`: archived tasks are DONE or CANCELED, work waiting for the
  worker has no open operation, and operations belong to Runs that exist.

The argument has one step per action.  Agreement rests on lemmas about what a
step can do (leave status and Runs alone, move a task that is not RUNNING, end
the live Run together with its task, claim, renew, scan).  `Acyclic` needs no
induction: `~Reaches(t, p)` supplies a set closed under successors that holds t
and not p, and the member of any set of tasks that waits for nothing can be
found outside it.

`EvidenceProofs` adds what `TaskRuns` promises about the work itself: the
invariants `FrozenInputs`, `DependenciesHold`, `DoneOnEvidence` and
`CanceledAnnounced`, and the action properties `HistoryImmutable`, `EvidenceKept`
and `NoWriteAfterLoss`, so every safety property the runs check of `TaskRuns` is
proved.  `Moves` sums up what any step can do to one task: leave it and its inputs
alone, change it while it is not worked on, claim it, complete it, accept it.
With that, and with decided evidence never changing (`ArtifactsKept`, which needs
`Undecided`: only registered evidence is decided), each invariant is a case
distinction over five moves and not over every handler.  `TaskMoves` needs
`RunTaskAgreement`: a report reaches the latest Run of a RUNNING task, never an
earlier one.  `NoWriteAfterLoss` comes down to `LostIsDead`: what is lost on
record, or past its end by every clock, `checkRun` refuses on every server.
(`LostIsClosed` says that the scan closes it; the converse fails, since the scan
takes a Run up to `ClockSkew` before every server would refuse it.)  No run has
`CanceledAnnounced` as a property of its own: `KeepsContract` says the same of one
task and more.

`WorkContractProofs` proves that `TaskRuns` implements `WorkContract`
(`KeepsContract`) for every value of the constants, by step simulation: the
initial states map to initial states, and every step is a step of the contract
or leaves its state as it was.  One lemma per kind of step says what it does to
each part of the mapped state (the phases, what was taken, the fences).  The
step of the contract it is follows from the invariants proved before:

- `RunTaskAgreement`: a report ends the attempt that holds the work, so it is a
  `Leave`, and the latest Run of a task is the one that took it.
- `HumanGrant` and `NoGrantWhileRunning`: what a scan releases has a grant, and
  what a scan ends has none, so a whole scan is one `Sweep` that never offers
  work it has just taken back.
- `CanceledAnnounced`: archiving or restoring a cancelled task announces it
  again, which is no news to the contract.

`ToolGatewayProofs` proves for every set of operations, tools, humans and
workers and every batch size, from `GatewayAssumption` alone, that `ToolGateway`
keeps `TypeOK`, `DecisionsPaired` and `AuthorityThroughEffect`, and that it
implements `OperationLedger` (`KeepsLedger`).  The refinement is a step
simulation: the initial states map to initial states, and every step of the
gateway is a step of the ledger for one operation or leaves all of them as they
were.  It holds only in states that obey `Custody`, which is part of the
inductive invariant `GInv`:

- `Idle`, `OneHand`: a worker without a batch has nothing in hand, and two workers
  never have the same operation in hand.  That only READY operations are started,
  under the project lock, is what keeps the second worker away; without it the
  ledger could not tell who launched.
- `Unsent`: what a worker has in hand and has not sent was never sent by anyone and
  is RUNNING or UNKNOWN, so sending it is a first launch of a taken operation.
  (A merge may also be SUCCEEDED by then, closed by what others did; the ledger
  lets a shared operation be launched in vain.)
  UNKNOWN has to be there: a second worker whose list still names the operation
  finds it RUNNING and marks it while the first is between its transactions or
  has lost its connection.
- `Begun`, `Sent`: nothing in hand is back before its start, an outcome exists
  exactly when something was sent, and what is cancelled was not sent.

What the theorem says of an operation closed as SUCCEEDED depends on its kind: an
MCP operation was executed itself, of a merge the pull request is merged at the
approved head.  That the merge was this operation's does not hold, and section 6
says how it fails.

`EventRelayProofs` proves for every set of events, projects and consumers, any
number of deliveries and replays, from `RelayAssumption` alone, that `EventRelay`
keeps `TypeOK`, `NothingLost`, `ProjectOrder` and `CursorComplete`.  None of the
last three is inductive; `RInv` adds:

- `Custody`: at most one consumer is inside the transaction that writes the feed
  (the advisory lock), its sequence lies behind the whole feed, and what a
  consumer holds has a settled prefix before it.  So a commit never lands behind
  a cursor.
- `SettledAnswered` and `PublishedStored`: what is settled is in the feed or on
  the list of failures, and what the relay or the deduplication window takes for
  published is in the stream.  Together they give `NothingLost`.
- `Predecessors` and `HeldInOrder`: the earlier events of a project are committed,
  sent and stored before a later one, hence answered when a consumer draws a
  sequence for it.  `ProjectOrder` follows; it needs the head of the outbox to be
  published whether it is due or not.

`Frames` says for each part of the state which actions change it, so each lemma
treats only the actions that matter to it.

`ConsoleDataProofs` proves for every set of people and projects, any memberships,
any number of loads and forms, any tasks and any history of their changes and
archivings, from `DataAssumption` alone, that
`ConsoleData` keeps `TypeOK`, `ShownIsOurs`, `NoTaskMissed` and `NeverOlder`.
`DInv` adds:

- `OneCurrent`, `Aimed`: at most one load counts, and it is for the selected
  project and the person signed in.  Starting one makes every other stale, and
  so does an effect's cleanup.
- `Listed`: until a load's answers were too far apart, the list shown is that of a
  moment (beside some tasks archived by then) that the next check goes back to or
  beyond, and that the load that counts began after.  The lemma `MergedLists`
  shows that merging the answer of such a check gives the list of the moment the
  tasks were read: what is not told again has not changed since.
- `GoesBack`, `ShownBeforeLoad`: a check that counts starts from the last one, and
  nothing shown is newer than the start of the load that counts, which is why
  nothing goes back even when the reads were apart.
- `CheckedWhenLoaded`, `ShownCommitted`: a page that has no last check is not
  loaded, and what is shown was committed.

`ConsoleWritesProofs` proves for every form of `Forms`, any number of openings,
requests and versions, from `BoundsAssumption` and `NoneAssumption` alone, that
`ConsoleWrites` keeps `TypeOK`, `RetriedOnce`, `EnsuredOnce`, `HonestSuccess` and
`ConfirmedNotResent`.  What the 46 forms have in common is `Shape`.  `WInv` adds:

- `OneKey`, `OneCopy`: all requests of one intention carry one key as long as a
  safe form has shown no failure, one body, and one version where the form keeps
  the copy it was opened with.  The server then finds either the key's record or a version
  that has moved on.
- `OnRecord`, `TooLate`: what was executed is on record at a version that has
  passed, so a request for a step already ensured comes with a stale version,
  unless it was `crossed`: sent on a version read after the step had been done.
- `Phases`, `Honest`: the answer awaited is the one to the step under way, and the
  steps before it were executed and accepted.
- `Unconfirmed`: a form that can still send has not been told of success.

Every step of `Next` is one of four kinds (`Starting`, `Settling`, `Refuses`,
`Executes`), and each kind has one lemma.  That no execution is reported as two
successes rests on an invariant of its own, `KInv`: no key that is kept, drawn for
the attempt or awaited is that of an accepted request, and none is kept for two
operations.

`ConsoleViewsProofs` proves for each of the 18 pages, any number of subjects,
pages of a list, requests under way and changes at the server, from
`ViewsAssumption` and `NoneAssumption` alone, that `ConsoleViews` keeps `TypeOK`,
`SettledShowsSelected`, `OneListing`, `PublishedIsCompared` and `NeverOlder`.
What the pages have in common is `PanelShape`.  `VInv` adds:

- `OneCurrent`: a guarded page waits for one answer at most, to the last request;
  it is for the subject or goes on from the rows that are shown, and it began no
  earlier than what is shown was true (`ShownPast`).  `NeverOlder` is the step
  form of this.
- `Rebuilt`: on a page rebuilt per subject, requests, parts, rows and cursor are
  all of one subject.
- `Settled`: a guarded page that waits for nothing and shows no error shows its
  subject.  `SettledShowsSelected` is not inductive because an overtaken request
  may outlive the answer that counts: it speaks of an empty `loads` only.
- `Listing`: next to `OneListing`, the cursor names the listing on the screen and
  the page after the last one.  Without that the next page could be any page.
- `Compared`: what is reviewed is in the second part, and only a comparison fills
  the second part of that dialog.
- `Commented`: on the page of comments only the load of the first page replaces the
  list, and nothing else is under way before it has come; all of its own writes
  are of its task.
- `NamedAtOnce`, `Layout`: safe pages name the subject at the click; a list has
  rows and no parts, other pages the reverse.

Steps that are not an answer only take away from what is shown (`FewerShown`), so
most of the argument is about answers (`AddsRows`, `AddsPart`).

Every safety property the runs check is proved.  Everything with fairness
(`LostRunsEnd`, `ReadyWorkReleased`, `IntentsCanceled`, `RunningSurfaces`,
`QueuedIsConsumed`, `TaskChangesShown`) is model-checked only; TLAPS has no
support for liveness under fairness here.

## 6. Findings

- `safe_retry`: the form that promises a safe retry (`CreateTask`) gives up its
  idempotency key with any answer that can be read (`web/src/ui.tsx:371`), a
  server error included.  A task whose creation lost its answer is created again
  when the retry was met by a 503 and the person submits once more, although
  `docs/web-console-guide.md:27` says the key is reused and `server.go:234` asks
  for it.

Known divergences that no run checks, because the models contain them as they
are:

- Evidence accepted while its Run is RUNNING still releases dependants after that
  Run is lost, failed or cancelled, although `delivery.go:116` says such evidence
  cannot.
- ARCHIVE and RESTORE of a cancelled task emit TASK_CANCELED again
  (`tasks_execution.go:234`).  `KeepsContract` says who is announced, not how
  often.
- Deactivating an account over the organisation API can take a project's last
  active administrator (`management.go:199`), which `identity.go:94` and the
  operator command refuse.
- An account change takes no project lock, so it does not serialize with the
  effect as `governance_worker.go:220` says.  What the project itself decides
  does (`AuthorityThroughEffect`).
- A form left behind while it is sending refreshes the project it belongs to, and
  the page then shows that project under the address of another until the next
  full load (`useProjectData.ts:145`): `ShownIsOurs` holds only until `strayed`.
- A ten-second check that overtakes a full load also drops what only a full load
  reads (approvals, Contexts, tools), so such a change can stay unseen for longer
  than the ten seconds `useEventStream.ts:70` names.
- The two clocks: a report, a heartbeat or a registration within the skew of a
  server's clock is accepted after the scan's query would call the Run lost
  (`tasks_execution.go:339` against `reconcile.go:61`), and a heartbeat gives the Run
  a new lease.  `NoWriteAfterLoss` speaks of what is lost on record or over by
  every clock.
- A `git.merge` is reconciled by asking whether the pull request is merged at the
  approved head (`gateway/registry.go:162`, `github.go:270`).  An operation that was
  refused, or that was never sent because the worker died, ends SUCCEEDED when
  somebody else merged it; one that was refused and never merged stays UNKNOWN
  for ever (`github.go:283`), since the lookup never says FAILED.
- A SUBMIT that reads the assignments and then the task
  (`TaskOverviewPanel.tsx:307`) assigns again when an earlier attempt's assignment
  arrives between the two: the request carries the version that assignment made.
  `EnsuredOnce` excepts exactly these (`crossed`).
- A write whose result is unknown leaves its key behind, and a later opening that
  sends the same to the same path and version takes it over (`api.ts:62`).  The
  second rotation of a webhook's secret can so be a replay of the first
  (`WebhooksPanel.tsx:91`).  `HonestSuccess` says that what is reported was
  executed, for this opening or an earlier one nobody was told of, and never for
  two.
- Archived tasks stay on the page until the next full load, since a check is not
  told of them (`task_query.go:89`).  A change that falls between two reads of one
  load more than a second apart is skipped until then as well
  (`useProjectData.ts:181`), although `useEventStream.ts:70` relies on the check:
  `NoTaskMissed` and `TaskChangesShown` hold while not `apart`.
- The first page of comments takes away what the person posted while it was
  loading (`TaskComments.tsx:176`).  A comment posted while later pages are not
  loaded is listed behind a gap (`:238`) and a second time when its page comes
  (`:195`).  An error of a further page stays when the next one succeeds.
- When the requests after sign-in fail the console does not ask again until the
  page is loaded anew (`useProjectData.ts:136`).

Smaller hazards of the console that no document speaks of: saving a Context is
three writes, repeated as a whole after a failure (`Contexts.tsx:53`); the edit
form of a task sends what was typed against an older version with the current
`If-Match` (`TaskOverviewPanel.tsx:54`); handlers that answer a failure with
`keepOpen` leave a form that must be opened again (`WebhooksPanel.tsx:276`); the
audit list's Clear works while a search is loading (`AuditRecords.tsx:279`);
marking a notification read can be undone on the screen by an earlier poll
(`useNotifications.ts:108`); two tabs overwrite each other's saved views
(`SavedViews.tsx:53`).  On the server: an untargeted claim takes the first READY
task and gives up if that one is not ready (`tasks_execution.go:243`); one failing
project ends the round of the scan (`reconcile.go:34`); operations waiting for a
decision fill the batch (`governance_worker.go:106`); an UNKNOWN operation without
a lookup stays open (`governance_worker.go:302`); two organisation administrators
can deadlock until the database aborts one (`management.go:171`); the bridge stops
after 4096 writes of a Run (`leases.go:231`); maintenance can begin between the
worker's two transactions (`cmd/accp/maintenance.go:70`).

## 7. Plan

1. `TaskRuns` with its proofs, `TaskRunsProofs` and `EvidenceProofs`, and
   `WorkContract`, which it refines (done).
2. `OperationLedger` and `ToolGateway`, which refines it, with the proofs (done).
3. `EventRelay` with its proofs (done).
4. `ConsoleWrites`, `ConsoleData` and `ConsoleViews` with their proofs (done).
5. `BridgeLease`: heartbeats and writes over a lossy connection against the
   idempotency records; abstract specification of a leased Run.
6. `Webhooks`, `Maintenance`, `Membership`.
7. An abstract feed, refined by `EventRelay`.

### Not modelled

Webhooks, the bridge, maintenance and recovery are planned and not begun.
Read-only queries, the identity provider, what the Git providers answer beyond
merging, backup files, scripts and translations have no order of steps to get
wrong.  The list per component, with what is left out of the modelled ones, is in
`PROJECT.json`.
