----------------------------- MODULE ConsoleData ----------------------------
(* What the web console shows of a project, and whose: app/useAuthSession    *)
(* (who is signed in), app/useProjectData (full loads, the ten-second check  *)
(* for changes, and the generation that discards overtaken answers),         *)
(* app/useEventStream (the stream that asks for an early check) and the part *)
(* of app/App that connects them. React runs effects right after the render  *)
(* that made them due; they are taken to run together with it.               *)
EXTENDS Naturals, FiniteSets

CONSTANTS
    People, Projects,
    ProjectsOf,     \* [People -> SUBSET Projects]: memberships
    Busy,           \* bound: the projects in which anything changes
    MaxTask,        \* bound on changes to the tasks of each
    Tasks,          \* the tasks of a project
    History,        \* per project, the task each of these changes is to, and
                    \* whether it leaves the task archived
    MaxRest,        \* bound on changes to all else of each
    MaxInFlight,    \* bound on loads under way
    MaxForms,       \* bound on forms that are sending
    None

ASSUME DataAssumption ==
    /\ ProjectsOf \in [People -> SUBSET Projects]
    /\ Busy \subseteq Projects
    /\ MaxTask \in Nat /\ MaxRest \in Nat
    /\ History \in
        [Projects -> [1..MaxTask -> [task: Tasks, archived: BOOLEAN]]]
    /\ MaxForms \in Nat /\ MaxInFlight \in Nat \ {0}
    /\ None \notin People \cup Projects \cup Nat

VARIABLES
    world,          \* per project, the changes committed by the server
    token, me,      \* who holds the token, and whose /me has been answered
    boot,           \* the /me and /projects requests under way
    route,          \* the address: a project, or a page outside projects
    projectID, unavailable,
    forms,          \* forms sending: the project and person they refresh for
    loads,          \* loads of the project's data under way
    loaded, dataProjectID,
    lastTaskCheck,  \* the changes made a second before workbench.checked_at
                    \* of the last load, None for ""
    data,           \* what was loaded, and (a ghost) for whom
    apart,          \* ghost: the answers of one load came from moments so far
                    \* apart that the next check did not go back far enough
    strayed         \* ghost: a form left behind has refreshed its project

sessionVars == <<token, me, boot>>
placeVars == <<route, projectID, unavailable>>
shownVars == <<loaded, dataProjectID, lastTaskCheck, data, apart>>
vars == <<world, sessionVars, placeVars, forms, loads, shownVars, strayed>>

Routes == Projects \cup {"work"}
Maybe(S) == S \cup {None}
Load ==
    [kind: {"full", "changes"}, current: BOOLEAN, project: Projects,
     person: People, since: Maybe(0..MaxTask), begun: 0..MaxTask,
     rest: 0..MaxRest]
Empty == [person |-> None, tasks |-> {}, rest |-> 0]

TypeOK ==
    /\ world \in [Projects -> [task: 0..MaxTask, rest: 0..MaxRest]]
    /\ token \in Maybe(People) /\ me \in Maybe(People)
    /\ boot \in Maybe(People)
    /\ route \in Routes /\ projectID \in Maybe(Projects)
    /\ unavailable \in BOOLEAN
    /\ forms \subseteq Projects \X People
    /\ strayed \in BOOLEAN /\ apart \in BOOLEAN
    /\ loads \subseteq Load /\ loaded \in BOOLEAN
    /\ dataProjectID \in Maybe(Projects)
    /\ lastTaskCheck \in Maybe(0..MaxTask)
    /\ data \in [person: Maybe(People), rest: 0..MaxRest,
                 tasks: SUBSET (Projects \X (1..MaxTask))]

Init ==
    /\ world = [p \in Projects |-> [task |-> 0, rest |-> 0]]
    /\ token = None /\ me = None /\ boot = None
    /\ route \in Routes
    /\ projectID = None /\ unavailable = FALSE
    /\ forms = {} /\ loads = {} /\ loaded = FALSE /\ dataProjectID = None
    /\ lastTaskCheck = None /\ data = Empty
    /\ strayed = FALSE /\ apart = FALSE

-----------------------------------------------------------------------------
(* The server's side: somebody changes a task, or anything else.             *)
Change(p) ==
    /\ \/ /\ world[p].task < MaxTask
          /\ world' = [world EXCEPT ![p].task = @ + 1]
       \/ /\ world[p].rest < MaxRest
          /\ world' = [world EXCEPT ![p].rest = @ + 1]
    /\ UNCHANGED <<sessionVars, placeVars, forms, loads, shownVars, strayed>>

-----------------------------------------------------------------------------
(* Loads. Starting one overtakes every other: ++refreshGeneration. Of an     *)
(* overtaken load it is forgotten what it had found when it began.           *)
Discarded ==
    {[l EXCEPT !.current = FALSE, !.begun = 0, !.rest = 0] : l \in loads}
Start(kind, p, person, since) ==
    /\ Cardinality(loads) < MaxInFlight
    /\ loads' = Discarded \cup
        {[kind |-> kind, current |-> TRUE, project |-> p, person |-> person,
          since |-> since, begun |-> world[p].task, rest |-> world[p].rest]}

(* The effect for another project, person or token: what is under way is     *)
(* overtaken, the page waits, and a full load starts.                        *)
LoadEffect(p, person) ==
    /\ IF p # None /\ person # None THEN Start("full", p, person, None)
       ELSE loads' = Discarded
    /\ loaded' = FALSE
    /\ lastTaskCheck' = None
    /\ strayed' = FALSE /\ apart' = FALSE
    /\ UNCHANGED dataProjectID

(* The refresh button of the project pages, there before anything is loaded. *)
Refresh ==
    /\ route # "work" /\ projectID # None /\ me # None
    /\ Start("full", projectID, me, None)
    /\ UNCHANGED <<world, sessionVars, placeVars, forms, shownVars, strayed>>

(* A form of the page is sent; those of the project's management do not wait *)
(* for a load. It holds the refresh() of the render it belongs to: that      *)
(* project's and that person's.                                              *)
SendForm ==
    /\ route # "work" /\ ~unavailable /\ projectID # None /\ me # None
    /\ <<projectID, me>> \notin forms /\ Cardinality(forms) < MaxForms
    /\ forms' = forms \cup {<<projectID, me>>}
    /\ UNCHANGED <<world, sessionVars, placeVars, loads, shownVars, strayed>>

(* The form has written and refreshes, wherever the person has gone since.   *)
FormWritten(f) ==
    /\ forms' = forms \ {f}
    /\ Start("full", f[1], f[2], None)
    /\ strayed' = (strayed \/ f # <<projectID, me>>)
    /\ UNCHANGED <<world, sessionVars, placeVars, shownVars>>

FormFails(f) ==
    /\ forms' = forms \ {f}
    /\ UNCHANGED <<world, sessionVars, placeVars, loads, shownVars, strayed>>

(* refreshChanges(), every ten seconds. Until a full load has come there is  *)
(* no lastTaskCheck, and it does nothing.                                    *)
RefreshChanges ==
    /\ projectID # None /\ me # None /\ lastTaskCheck # None
    /\ Start("changes", projectID, me, lastTaskCheck)
    /\ UNCHANGED <<world, sessionVars, placeVars, forms, shownVars, strayed>>

(* The stream of events asks for an early check. Its limited life, its       *)
(* losses and its back-off decide when it does, and nothing else.            *)
Nudge == token # None /\ RefreshChanges

(* Of the first n changes to the tasks of p, the ones a query of its tasks   *)
(* shows: the latest of each task, unless it leaves the task archived.       *)
SameTask(p, m, n) == History[p][m].task = History[p][n].task
Latest(p, n) == {m \in 1..n : \A k \in (m + 1)..n : ~SameTask(p, m, k)}
Rows(p, n) == {m \in Latest(p, n) : ~History[p][m].archived}

(* What a check is answered takes the place of what is shown of the same     *)
(* tasks.                                                                    *)
Merged(shown, new) ==
    {c \in shown : \A d \in new : d[1] = c[1] => ~SameTask(c[1], c[2], d[2])}
        \cup new

(* The answers of a load. The tasks and the workbench are read by requests   *)
(* of their own, each at its own moment between the load's start and now.    *)
(* The next check asks for the tasks changed since a second before the       *)
(* workbench was read: `back` of its changes had been made by then.          *)
\* Mutant: a check asks for nothing it should have been told already.
ApplyNoOverlap(l, tasks, bench, rest, back) ==
    /\ lastTaskCheck' = bench
    /\ IF l.kind = "full"
       THEN /\ data' = [person |-> l.person, rest |-> rest,
                        tasks |-> {l.project} \X Rows(l.project, tasks)]
            /\ dataProjectID' = l.project
            /\ loaded' = TRUE
            /\ apart' = (tasks < back)
       ELSE /\ data' = [data EXCEPT !.tasks = Merged(@,
                {l.project} \X {m \in Rows(l.project, tasks) : m > l.since})]
            /\ apart' = (apart \/ tasks < back)
            /\ UNCHANGED <<dataProjectID, loaded>>

\* Mutant: the client's own clock, ahead of the server's, dates the check.
ApplyOwnClock(l, tasks, bench, rest, back) ==
    /\ lastTaskCheck' = bench + 1
    /\ data' = [person |-> l.person, rest |-> rest,
                tasks |-> {l.project} \X Rows(l.project, tasks)]
    /\ dataProjectID' = l.project /\ loaded' = TRUE
    /\ apart' = (tasks < back)

Apply(l, tasks, bench, rest, back) ==
    /\ lastTaskCheck' = back
    /\ IF l.kind = "full"
       THEN /\ data' = [person |-> l.person, rest |-> rest,
                        tasks |-> {l.project} \X Rows(l.project, tasks)]
            /\ dataProjectID' = l.project
            /\ loaded' = TRUE
            /\ apart' = (tasks < back)
       ELSE /\ data' = [data EXCEPT !.tasks = Merged(@,
                {l.project} \X {m \in Rows(l.project, tasks) : m > l.since})]
            /\ apart' = (apart \/ tasks < back)
            /\ UNCHANGED <<dataProjectID, loaded>>

Applies(l) ==
    \E tasks, bench \in l.begun..world[l.project].task,
       rest \in l.rest..world[l.project].rest :
        \E back \in 0..bench : Apply(l, tasks, bench, rest, back)

\* Mutant: overtaken answers are applied.
AnswerLate(l) ==
    /\ loads' = loads \ {l}
    /\ Applies(l)
    /\ UNCHANGED <<world, sessionVars, placeVars, forms, strayed>>

Answer(l) ==
    /\ loads' = loads \ {l}
    /\ IF l.current THEN Applies(l) ELSE UNCHANGED shownVars
    /\ UNCHANGED <<world, sessionVars, placeVars, forms, strayed>>

(* Any of its requests fails or times out: an error is shown, no more.       *)
LoadFails(l) ==
    /\ loads' = loads \ {l}
    /\ UNCHANGED <<world, sessionVars, placeVars, forms, shownVars, strayed>>

-----------------------------------------------------------------------------
(* Sessions. A token is found once in the life of a page: the development    *)
(* sign-in form, the way back from the identity provider, or what it left in *)
(* the session store. Whoever signs in later does so on a page loaded anew,  *)
(* of which nothing was there before.                                        *)
NewToken(person) == token' = person /\ boot' = person

SignIn(person) ==
    /\ NewToken(person) /\ me' = None /\ route' \in Routes
    /\ projectID' = None /\ unavailable' = FALSE
    /\ forms' = {} /\ loads' = {} /\ loaded' = FALSE
    /\ dataProjectID' = None /\ lastTaskCheck' = None
    /\ data' = Empty /\ strayed' = FALSE /\ apart' = FALSE
    /\ UNCHANGED world

SignedOut ==
    /\ token' = None /\ me' = None /\ boot' = None
    /\ LoadEffect(projectID, None)

Logout ==
    /\ me # None
    /\ SignedOut
    /\ data' = Empty
    /\ UNCHANGED <<world, placeVars, forms>>

(* The token expires, or a request is answered 401 (API.onExpired).          *)
Expire ==
    /\ token # None
    /\ SignedOut
    /\ UNCHANGED <<world, placeVars, forms, data>>

(* list[0]: which of the projects comes first is the server's choice.        *)
Booted(first) ==
    /\ boot # None
    /\ first \in ProjectsOf[boot]
    /\ unavailable' = (route \in Projects \ ProjectsOf[boot])
    /\ projectID' = IF route = "work" THEN first
                    ELSE IF unavailable' THEN None ELSE route
    /\ me' = boot /\ boot' = None
    /\ LoadEffect(projectID', boot)
    /\ UNCHANGED <<world, token, route, forms, data>>

BootFails ==
    /\ boot # None
    /\ boot' = None
    /\ UNCHANGED <<world, token, me, placeVars, forms, loads, shownVars,
                   strayed>>

(* An effect brings the selected project in line with the address.           *)
RouteEffect(r) ==
    /\ unavailable' = (r \in Projects \ ProjectsOf[me])
    /\ projectID' \in
        IF r \in ProjectsOf[me] THEN {r}
        ELSE IF r = "work" /\ projectID = None THEN ProjectsOf[me]
        ELSE {projectID}
    /\ IF projectID' = projectID THEN UNCHANGED <<loads, shownVars, strayed>>
       ELSE LoadEffect(projectID', me) /\ UNCHANGED data

(* Following a link, the project switcher or the back button.                *)
Navigate(r) ==
    /\ r # route
    /\ route' = r
    /\ IF me # None THEN RouteEffect(r)
       ELSE UNCHANGED <<projectID, unavailable, loads, shownVars, strayed>>
    /\ UNCHANGED <<world, sessionVars, forms>>

-----------------------------------------------------------------------------
Next ==
    \/ \E p \in Busy : Change(p)
    \/ \E p \in Projects : Booted(p)
    \/ \E a \in People : SignIn(a)
    \/ Logout \/ Expire \/ BootFails
    \/ \E r \in Routes : Navigate(r)
    \/ Refresh \/ RefreshChanges \/ Nudge \/ SendForm
    \/ \E f \in forms : FormWritten(f) \/ FormFails(f)
    \/ \E l \in loads : Answer(l) \/ LoadFails(l)

Spec == Init /\ [][Next]_vars

(* The interval keeps firing; answers come, and if they are overtaken or     *)
(* fail again and again, one comes through at last. Nothing is assumed of    *)
(* the stream or of the person.                                              *)
Arrives == \E l \in loads : l.current /\ Answer(l)
Cleared == \E l \in loads : ~l.current /\ Answer(l)
FairSpec ==
    /\ Spec
    /\ SF_vars(RefreshChanges) /\ SF_vars(Arrives) /\ WF_vars(Cleared)

-----------------------------------------------------------------------------
(* A page that counts as loaded shows the selected project as loaded for the *)
(* person signed in now: never the project left behind, never what somebody  *)
(* else was shown, however late the answers (cleanup, refreshGeneration,     *)
(* resetProjectData). It fails only once a form that was left while it was   *)
(* sending has refreshed the project it belonged to.                         *)
ShownIsOurs ==
    loaded /\ ~strayed =>
        /\ dataProjectID = projectID
        /\ data.person = me
        /\ data.tasks \subseteq {projectID} \X (1..MaxTask)

(* The checks for changes never leave a gap: what is shown is the list of    *)
(* tasks as it was at one moment, with at most some tasks beside it that     *)
(* were archived by then (a check is not told of them). This holds as long   *)
(* as the tasks and the workbench of each load were read at moments less     *)
(* than a second apart, or nothing changed between them: that second is all  *)
(* a check goes back.                                                        *)
ListAt(n) ==
    /\ {projectID} \X Rows(projectID, n) \subseteq data.tasks
    /\ \A c \in data.tasks :
        c[2] \in Rows(projectID, n) \/
            \E k \in Latest(projectID, n) :
                /\ k > c[2] /\ SameTask(projectID, c[2], k)
                /\ History[projectID][k].archived
NoTaskMissed ==
    loaded /\ ~strayed /\ ~apart =>
        \E n \in 0..world[projectID].task : ListAt(n)

(* What is shown of a project never goes back to an older state, however     *)
(* late or out of order the answers come: a task goes from the list only     *)
(* when it has changed since, and nothing comes that what was shown already  *)
(* had overtaken.                                                            *)
Overtaken(c, n) == \E k \in (c[2] + 1)..n : SameTask(c[1], c[2], k)
NotBack ==
    /\ data.rest <= data'.rest
    /\ \A c \in data.tasks \ data'.tasks : Overtaken(c, world[c[1]].task)
    /\ \A c \in data'.tasks \ data.tasks, d \in data.tasks :
        c[1] = d[1] => ~Overtaken(c, d[2])
NeverOlder ==
    [][ loaded /\ ~strayed /\ data' # Empty
        /\ dataProjectID' = dataProjectID => NotBack ]_vars

(* Changes to tasks that are not archived reach a page that stays on its     *)
(* project by the poll alone, whatever becomes of the stream and of earlier  *)
(* checks, unless a load's answers were too far apart.                       *)
TasksBehind ==
    /\ loaded /\ ~strayed /\ ~apart
    /\ ~({projectID} \X Rows(projectID, world[projectID].task)
            \subseteq data.tasks)
TaskChangesShown == TasksBehind ~> ~TasksBehind
=============================================================================
