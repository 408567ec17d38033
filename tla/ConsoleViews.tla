---------------------------- MODULE ConsoleViews ----------------------------
(* What a page of the web console shows when its requests overlap: a person  *)
(* opens one thing and then another, a poll fires, a form has written, the   *)
(* next page is asked for, and answers arrive late and in any order. The     *)
(* pages differ in what they do about it; what they do is a record, and one  *)
(* behaviour is the life of one page.                                        *)
EXTENDS Naturals, Sequences, FiniteSets

CONSTANTS
    MaxSubject,   \* bound: things to open, filters to choose
    MaxAt,        \* bound on the changes at the server
    MaxPage,      \* bound on the pages of a list
    MaxLoads,     \* bound on requests under way
    None

ASSUME ViewsAssumption ==
    /\ MaxSubject \in Nat \ {0} /\ MaxAt \in Nat \ {0}
    /\ MaxPage \in Nat \ {0} /\ MaxLoads \in Nat \ {0}
    /\ None \notin Nat

-----------------------------------------------------------------------------
(* guarded:  an answer that another request has overtaken is dropped         *)
(* keyed:    another subject is another component; the old one is gone       *)
(* early:    the subject is named at the click, not with the first answer    *)
(* parts:    requests in a row, each filling a part of the page              *)
(* answered: parts the first answer empties                                  *)
(* opened:   parts the click empties                                         *)
(* closed:   parts that closing the dialog empties                           *)
(* list:     rows in pages, the next one asked for by a button               *)
(* busy:     while loading, neither the filter nor the button can be used    *)
(* wiped:    a failure to load empties the list                              *)
(* writes:   the answers of the page's own writes go into the list           *)
Parts == 1..3
Single ==
    [guarded |-> FALSE, keyed |-> FALSE, early |-> TRUE, parts |-> 1,
     answered |-> {}, opened |-> {}, closed |-> {}, list |-> FALSE,
     busy |-> FALSE, wiped |-> FALSE, writes |-> FALSE]
Guarded == [Single EXCEPT !.guarded = TRUE]
Keyed == [Single EXCEPT !.keyed = TRUE]
List == [Single EXCEPT !.list = TRUE]

ApprovalDialog ==
    [Single EXCEPT !.early = FALSE, !.parts = 2, !.closed = {2}]
ArtifactDialog ==
    [Single EXCEPT !.early = FALSE, !.parts = 3, !.answered = {3}]
ContextDialog == [Single EXCEPT !.opened = {2}]
TaskDetail == [Keyed EXCEPT !.parts = 2]
TaskToolTimeline == Guarded
DependencySearch == Guarded
TaskComments ==
    [List EXCEPT !.keyed = TRUE, !.busy = TRUE, !.writes = TRUE]
Tasks == [List EXCEPT !.guarded = TRUE, !.wiped = TRUE]
AuditRecords == [List EXCEPT !.busy = TRUE]
Notifications == List
MyWork == Keyed
Operations == Single
Tools == Keyed
Agents == Keyed
OrgAccounts == Keyed
Management == Single
WebhooksPanel == Single
RepositoriesPanel == Single

Panels ==
    {ApprovalDialog, ArtifactDialog, ContextDialog, TaskDetail,
     TaskToolTimeline, DependencySearch, TaskComments, Tasks, AuditRecords,
     Notifications, MyWork, Operations, Tools, Agents, OrgAccounts,
     Management, WebhooksPanel, RepositoriesPanel}

-----------------------------------------------------------------------------
VARIABLES
    panel,     \* the page this behaviour is about, never changed
    subject,   \* what was opened last: an approval, a task, a filter...
    selected,  \* what the page says it shows, None when closed
    loads,     \* requests under way
    slot,      \* the parts of the page, each with its subject and time
    rows,      \* the rows of a list, page by page
    own,       \* TaskComments: its own writes that the list shows, beside
               \* or over what the pages brought
    writing,   \* TaskComments: when the writes were made whose answers are
               \* still to come
    cursor,    \* for the next page: of which filter, and which page
    loading,   \* the flag the controls look at
    failed,    \* an error is shown
    reviewed,  \* ContextDialog: the version whose comparison was reviewed
    server     \* changes committed by the server so far

vars == <<panel, subject, selected, loads, slot, rows, own, writing, cursor,
          loading, failed, reviewed, server>>
listVars == <<rows, own, cursor>>
shownVars == <<selected, slot, listVars, failed, reviewed>>

Subjects == 1..MaxSubject
Times == 0..MaxAt
Candidates == 1..2
Maybe(S) == S \cup {None}
Cursor == [subject: Subjects, page: 2..MaxPage]
\* `version` is 0 but for the comparison of a candidate version.
Load ==
    [current: BOOLEAN, subject: Subjects, begun: Times, part: Parts,
     from: Maybe(Cursor), version: Candidates \cup {0}]
Piece == [subject: Subjects, at: Times, version: Candidates \cup {0}]
Row == [subject: Subjects, at: Times, page: 1..MaxPage]
Written == [subject: Subjects, at: Times]

\* `None` stands for null, which no answer is.
ASSUME NoneAssumption == None \notin Piece

TypeOK ==
    /\ panel \in Panels
    /\ subject \in Subjects /\ selected \in Maybe(Subjects)
    /\ loads \subseteq Load
    /\ slot \in [Parts -> Maybe(Piece)]
    /\ rows \in Seq(Row) /\ cursor \in Maybe(Cursor)
    /\ own \subseteq Written /\ writing \subseteq Times
    /\ loading \in BOOLEAN /\ failed \in BOOLEAN
    /\ reviewed \in Maybe(Subjects \X Candidates)
    /\ server \in Times

Blank == [p \in Parts |-> None]
First(s) ==
    [current |-> TRUE, subject |-> s, begun |-> server, part |-> 1,
     from |-> None, version |-> 0]
IsDialog == ~panel.early \/ panel = ContextDialog

Init ==
    /\ panel \in Panels
    /\ subject = 1
    /\ slot = Blank /\ rows = <<>> /\ cursor = None /\ reviewed = None
    /\ server = 0 /\ failed = FALSE /\ own = {} /\ writing = {}
    /\ IF IsDialog THEN selected = None /\ loads = {} /\ loading = FALSE
       ELSE selected = 1 /\ loads = {First(1)} /\ loading = TRUE

-----------------------------------------------------------------------------
(* A request goes out and overtakes the others. A guarded page will know.    *)
Overtaken == {[l EXCEPT !.current = FALSE] : l \in loads}
Send(l) ==
    /\ Cardinality(loads) < MaxLoads
    /\ loads' = Overtaken \cup {l}
    /\ loading' = TRUE

\* Mutant: the parts that are not emptied are lost as well.
EmptiedOnly(which) == [p \in which |-> None]
Emptied(which) == [p \in Parts |-> IF p \in which THEN None ELSE slot[p]]

(* Another subject is opened, filtered for, or handed down by the page       *)
(* around. The Clear button of an empty audit list is not disabled.          *)
MayChoose(s) == panel.busy /\ loading => panel.list /\ rows = <<>> /\ s = 1

Select(s) ==
    /\ s # subject \/ IsDialog
    /\ panel.keyed \/ MayChoose(s)
    /\ subject' = s
    /\ selected' = IF panel.early THEN s ELSE selected
    /\ IF panel.keyed
       THEN /\ loads' = {First(s)} /\ loading' = TRUE
            /\ slot' = Blank /\ rows' = <<>> /\ cursor' = None
            /\ own' = {} /\ writing' = {}
            /\ reviewed' = None /\ failed' = FALSE
       ELSE /\ Send(First(s))
            /\ slot' = Emptied(panel.opened)
            /\ reviewed' = None /\ UNCHANGED <<own, writing, failed>>
            /\ IF panel = AuditRecords THEN rows' = <<>> /\ cursor' = None
               ELSE UNCHANGED <<rows, cursor>>
    /\ UNCHANGED <<panel, server>>

Close ==
    /\ IsDialog /\ selected # None
    /\ selected' = None
    /\ slot' = Emptied(panel.closed)
    /\ UNCHANGED <<panel, subject, loads, listVars, writing, loading, failed,
                   reviewed, server>>

(* The same once more: a poll, a pulse of the event stream, a button, or a   *)
(* form that has written. Comments and audit records are never reloaded, a   *)
(* Context is opened again instead.                                          *)
Reload ==
    /\ selected # None
    /\ panel \notin {AuditRecords, TaskComments, ContextDialog}
    /\ Send(First(IF panel.early THEN subject ELSE selected))
    /\ UNCHANGED <<panel, subject, shownVars, writing, server>>

(* The button for the next page. Tasks disables it only while it is itself   *)
(* waiting for a next page.                                                  *)
Appending == \E l \in loads : l.current /\ l.from # None
More ==
    /\ cursor # None /\ rows # <<>>
    /\ IF panel = Tasks THEN ~Appending ELSE ~loading
    /\ Send([First(subject) EXCEPT !.from = cursor])
    /\ UNCHANGED <<panel, subject, shownVars, writing, server>>

\* Mutant: the version counts as reviewed at the click.
CompareNamedFirst(v) ==
    /\ panel = ContextDialog /\ slot[1] # None
    /\ slot[1].subject = selected
    /\ Cardinality(loads) < MaxLoads
    /\ loads' = loads \cup
        {[First(selected) EXCEPT !.part = 2, !.version = v]}
    /\ reviewed' = <<selected, v>>
    /\ UNCHANGED <<panel, subject, selected, slot, listVars, writing, failed,
                   loading, server>>

(* Contexts: the comparison of a listed candidate with what is published.    *)
(* While the list is still another Context's the server knows no such version*)
(* of this one.                                                              *)
Compare(v) ==
    /\ panel = ContextDialog /\ slot[1] # None
    /\ slot[1].subject = selected
    /\ Cardinality(loads) < MaxLoads
    /\ loads' = loads \cup
        {[First(selected) EXCEPT !.part = 2, !.version = v]}
    /\ UNCHANGED <<panel, subject, shownVars, writing, loading, server>>

-----------------------------------------------------------------------------
(* An answer. What it says was true at a moment since the request.           *)
\* Mutant: overtaken answers are applied.
DroppedNever(l) == FALSE
Dropped(l) == panel.guarded /\ ~l.current

(* The tasks' cursor holds its filter; for another one the server refuses it.*)
\* Mutant: the server takes the cursor of any filter.
ForeignNever(l) == FALSE
Foreign(l) == panel = Tasks /\ l.from # None /\ l.from.subject # l.subject

Ignore(l) ==
    /\ Dropped(l)
    /\ loads' = loads \ {l}
    /\ UNCHANGED <<panel, subject, shownVars, writing, loading, server>>

ShowRows(l, at) ==
    LET page == IF l.from = None THEN 1 ELSE l.from.page
        row == [subject |-> l.subject, at |-> at, page |-> page]
    IN  /\ rows' = IF l.from = None THEN <<row>> ELSE Append(rows, row)
        /\ cursor' \in
            {None} \cup (IF page < MaxPage
                         THEN {[subject |-> l.subject, page |-> page + 1]}
                         ELSE {})
        /\ own' = IF l.from = None THEN {} ELSE own
        /\ loads' = loads \ {l}
        /\ loading' = FALSE
        /\ UNCHANGED <<selected, slot, reviewed>>

(* The first answer names the subject of a dialog; after each but the last   *)
(* the next request of the row goes out.                                     *)
ShowPart(l, at) ==
    LET piece == [subject |-> l.subject, at |-> at, version |-> l.version]
        rest == IF l.part < panel.parts /\ l.version = 0
                THEN {[l EXCEPT !.part = @ + 1, !.begun = server]} ELSE {}
        emptied == IF l.part = 1 THEN Emptied(panel.answered) ELSE slot
    IN  /\ slot' = [emptied EXCEPT ![l.part] = piece]
        /\ selected' = IF l.part = 1 /\ ~panel.early THEN l.subject
                       ELSE selected
        /\ reviewed' = IF l.version # 0 THEN <<l.subject, l.version>>
                       ELSE reviewed
        /\ loads' = (loads \ {l}) \cup rest
        /\ loading' = (rest # {} /\ loading)
        /\ UNCHANGED listVars

(* An answer takes the error away, but that of a further page of comments    *)
(* leaves it.                                                                *)
Answer(l) ==
    /\ ~Dropped(l) /\ ~Foreign(l)
    /\ \E at \in l.begun..server :
        IF panel.list THEN ShowRows(l, at) ELSE ShowPart(l, at)
    /\ failed' = (panel.writes /\ l.from # None /\ failed)
    /\ UNCHANGED <<panel, subject, writing, server>>

(* INVALID_CURSOR: the list starts again from its first page.                *)
Restart(l) ==
    /\ ~Dropped(l) /\ Foreign(l)
    /\ loads' = {[x EXCEPT !.current = FALSE] : x \in loads \ {l}}
                \cup {First(subject)}
    /\ rows' = <<>>
    /\ UNCHANGED <<panel, subject, selected, slot, own, writing, cursor,
                   loading, failed, reviewed, server>>

(* The spinner stands for the load of the page, not for a comparison.        *)
LoadingAfter(l) == IF l.version = 0 THEN FALSE ELSE loading

(* A request fails. What is shown stays, beside the error, but for a list    *)
(* that is wiped.                                                            *)
Fails(l) ==
    /\ ~Dropped(l)
    /\ loads' = loads \ {l} /\ failed' = TRUE
    /\ loading' = LoadingAfter(l)
    /\ IF panel.wiped /\ l.from = None THEN rows' = <<>> /\ cursor' = None
       ELSE UNCHANGED <<rows, cursor>>
    /\ UNCHANGED <<panel, subject, selected, slot, own, writing, reviewed,
                   server>>

(* TaskComments: a comment is posted, whatever is loading, or one of the     *)
(* list edited or deleted. A second write under way is one of the latter.    *)
Write ==
    /\ panel.writes /\ server < MaxAt
    /\ writing = {} \/ (~failed /\ (rows # <<>> \/ own # {}))
    /\ server' = server + 1
    /\ writing' = writing \cup {server'}
    /\ UNCHANGED <<panel, subject, loads, loading, shownVars>>

(* The answer goes into the list: a new row, or in place of the old one.     *)
WriteAnswered(at) ==
    /\ own' = own \cup {[subject |-> subject, at |-> at]}
    /\ writing' = writing \ {at}
    /\ UNCHANGED <<panel, subject, selected, loads, slot, rows, cursor,
                   loading, failed, reviewed, server>>

(* No answer comes, or it is of a comment that is not in the list any more.  *)
WriteLost(at) ==
    /\ writing' = writing \ {at}
    /\ UNCHANGED <<panel, subject, loads, loading, shownVars, server>>

ServerChanges ==
    /\ server < MaxAt
    /\ server' = server + 1
    /\ UNCHANGED <<panel, subject, loads, loading, shownVars, writing>>

Next ==
    \/ \E s \in Subjects : Select(s)
    \/ Close \/ Reload \/ More
    \/ \E v \in Candidates : Compare(v)
    \/ \E l \in loads : Ignore(l) \/ Answer(l) \/ Restart(l) \/ Fails(l)
    \/ Write
    \/ \E at \in writing : WriteAnswered(at) \/ WriteLost(at)
    \/ ServerChanges

Spec == Init /\ [][Next]_vars

-----------------------------------------------------------------------------
(* Contexts shows the publish form for the reviewed version if it is listed. *)
CanPublish == reviewed # None /\ slot[1] # None
              /\ slot[1].subject = reviewed[1]

Safe == panel.guarded \/ panel.keyed

(* Pages that guard their answers, or are rebuilt for every subject: when    *)
(* nothing is under way and no error is shown, everything on the page        *)
(* belongs to what it says it shows, whatever overlapped before (Tasks       *)
(* requestGen, live flags, keys).                                            *)
SettledShowsSelected ==
    Safe /\ loads = {} /\ ~failed =>
        /\ \A p \in Parts : slot[p] # None => slot[p].subject = selected
        /\ \A i \in DOMAIN rows : rows[i].subject = selected
        /\ \A c \in own : c.subject = selected

(* A guarded list never holds rows of two filters, a page twice, or a gap:   *)
(* not when the next page is asked for while a new filter is loading (Tasks: *)
(* the server refuses the old cursor and the list starts again). It is not   *)
(* said of TaskComments, whose own comments are listed ahead of their page.  *)
OneListing ==
    panel.guarded => \A i \in DOMAIN rows :
        rows[i].page = i /\ rows[i].subject = rows[1].subject

(* A guarded page never goes back to an older state of what it shows. The    *)
(* comments of a task are not guarded: their first page may take away what   *)
(* the person posted while it was loading. Once it has come, no load takes   *)
(* away what the page's own writes have put into the list.                   *)
NeverOlder ==
    [][
       /\ panel.guarded =>
            /\ \A p \in Parts :
                slot[p] # None /\ slot'[p] # None
                    /\ slot[p].subject = slot'[p].subject
                => slot[p].at <= slot'[p].at
            /\ rows # <<>> /\ rows' # <<>>
                    /\ rows[1].subject = rows'[1].subject
                => rows[1].at <= rows'[1].at
       /\ panel.writes /\ rows # <<>> /\ rows' # <<>>
            => own \subseteq own' ]_vars

(* Contexts: however reviews and openings overlap, the version that can be   *)
(* published is the one whose comparison is on the screen.                   *)
PublishedIsCompared ==
    panel = ContextDialog /\ CanPublish =>
        /\ slot[2] # None
        /\ <<slot[2].subject, slot[2].version>> = reviewed
=============================================================================
