------------------------- MODULE ConsoleViewsProofs -------------------------
(***************************************************************************)
(* What a page of the console shows belongs together and to what the page  *)
(* says it shows, for every page, any number of subjects, pages of a list  *)
(* and requests under way, and any order of their answers.                 *)
(***************************************************************************)
EXTENDS ConsoleViews, TLAPS

(***************************************************************************)
(* The pages.                                                              *)
(***************************************************************************)
\* What the pages have in common.
PanelShape(p) ==
  /\ p.guarded \in BOOLEAN /\ p.keyed \in BOOLEAN /\ p.early \in BOOLEAN
  /\ p.list \in BOOLEAN /\ p.busy \in BOOLEAN /\ p.wiped \in BOOLEAN
  /\ p.parts \in Parts
  /\ p.guarded \/ p.keyed =>
       p.early /\ p # ContextDialog /\ p # AuditRecords
  /\ p.guarded => p.parts = 1
  /\ p.list => p.early /\ p # ContextDialog
  /\ p.guarded /\ p.list => p = Tasks
  /\ p.writes => p = TaskComments /\ p.keyed /\ p.list
  /\ p = Tasks => p.guarded /\ ~p.keyed /\ p.list
  /\ p = AuditRecords => p.list
  /\ p = ContextDialog =>
       /\ p.parts = 1 /\ p.answered = {} /\ p.closed = {}
       /\ ~p.list /\ ~p.keyed /\ ~p.guarded

(***************************************************************************)
(* The strengthening.                                                      *)
(***************************************************************************)
\* Pages that guard or are rebuilt name their subject at the click.
NamedAtOnce == Safe => selected = subject

\* Lists have rows, other pages have parts, and a guarded one only the first.
Layout ==
  /\ ~panel.list => rows = <<>> /\ cursor = None
  /\ panel.list => \A p \in Parts : slot[p] = None
  /\ panel.guarded => \A p \in Parts \ {1} : slot[p] = None

\* Nothing of another subject survives on a page that was rebuilt.
Rebuilt ==
  panel.keyed =>
    /\ \A l \in loads : l.subject = subject
    /\ \A p \in Parts : slot[p] # None => slot[p].subject = subject
    /\ \A i \in 1..Len(rows) : rows[i].subject = subject
    /\ cursor # None => cursor.subject = subject

\* A guarded page waits for one answer at most, to the last request: it is for
\* the subject, or goes on from what is shown, and will not be older.
OneCurrent ==
  panel.guarded =>
    /\ \A l, m \in loads : l.current /\ m.current => l = m
    /\ \A l \in loads : l.current =>
         /\ l.subject = subject /\ l.part = 1 /\ l.version = 0
         /\ l.from # None => l.from = cursor /\ rows # <<>>
         /\ \A p \in Parts : slot[p] # None => slot[p].at <= l.begun
         /\ rows # <<>> => rows[1].at <= l.begun

\* What is shown was true at some time up to now.
ShownPast ==
  /\ \A p \in Parts : slot[p] # None => slot[p].at <= server
  /\ rows # <<>> => rows[1].at <= server

\* With nothing awaited and no error, a guarded page shows its subject.
Settled ==
  panel.guarded /\ ~failed /\ (\A l \in loads : ~l.current) =>
    /\ \A p \in Parts : slot[p] # None => slot[p].subject = subject
    /\ \A i \in 1..Len(rows) : rows[i].subject = subject

\* The rows are the first pages of one listing, and the cursor goes on there.
Listing ==
  panel.guarded =>
    /\ \A i \in 1..Len(rows) :
         rows[i].page = i /\ rows[i].subject = rows[1].subject
    /\ rows # <<>> /\ cursor # None =>
         cursor.subject = rows[1].subject /\ cursor.page = Len(rows) + 1

\* Comparisons go to the second part of the dialog, which shows the last.
Compared ==
  panel = ContextDialog =>
    /\ \A l \in loads : IF l.version = 0 THEN l.part = 1 ELSE l.part = 2
    /\ reviewed # None =>
         slot[2] # None /\ <<slot[2].subject, slot[2].version>> = reviewed

\* Comments: only the load of their first page replaces the list, and nothing
\* else is under way before it has come.
Commented ==
  /\ ~panel.writes => own = {} /\ writing = {}
  /\ panel.writes =>
       /\ \A c \in own : c.subject = subject
       /\ rows = <<>> => \A l, m \in loads : l = m
       /\ rows # <<>> => \A l \in loads : l.from # None

VInv == /\ TypeOK /\ NamedAtOnce /\ Layout /\ Rebuilt /\ OneCurrent
        /\ ShownPast /\ Settled /\ Listing /\ Compared /\ Commented

-----------------------------------------------------------------------------
(***************************************************************************)
(* Facts about the pages and about requests.                               *)
(***************************************************************************)
\* What a page does about overtaken answers and lists, field by field.
Fields(p, guarded, keyed, early, n, list, busy) ==
  /\ p.guarded = guarded /\ p.keyed = keyed /\ p.early = early /\ p.parts = n
  /\ p.list = list /\ p.busy = busy /\ p.wiped \in BOOLEAN
  /\ p.writes = (keyed /\ list)

LEMMA PlainFields ==
  /\ Fields(Single, FALSE, FALSE, TRUE, 1, FALSE, FALSE)
  /\ Fields(Guarded, TRUE, FALSE, TRUE, 1, FALSE, FALSE)
  /\ Fields(Keyed, FALSE, TRUE, TRUE, 1, FALSE, FALSE)
  /\ Fields(List, FALSE, FALSE, TRUE, 1, TRUE, FALSE)
BY DEF Fields, Single, Guarded, Keyed, List

LEMMA DialogFields ==
  /\ Fields(ApprovalDialog, FALSE, FALSE, FALSE, 2, FALSE, FALSE)
  /\ Fields(ArtifactDialog, FALSE, FALSE, FALSE, 3, FALSE, FALSE)
  /\ Fields(ContextDialog, FALSE, FALSE, TRUE, 1, FALSE, FALSE)
  /\ ContextDialog.answered = {} /\ ContextDialog.closed = {}
<1>1. Fields(ApprovalDialog, FALSE, FALSE, FALSE, 2, FALSE, FALSE)
  BY DEF Fields, Single, ApprovalDialog
<1>2. Fields(ArtifactDialog, FALSE, FALSE, FALSE, 3, FALSE, FALSE)
  BY DEF Fields, Single, ArtifactDialog
<1>3. Fields(ContextDialog, FALSE, FALSE, TRUE, 1, FALSE, FALSE)
      /\ ContextDialog.answered = {} /\ ContextDialog.closed = {}
  BY DEF Fields, Single, ContextDialog
<1> QED
  BY <1>1, <1>2, <1>3

LEMMA OtherFields ==
  /\ Fields(TaskDetail, FALSE, TRUE, TRUE, 2, FALSE, FALSE)
  /\ Fields(TaskComments, FALSE, TRUE, TRUE, 1, TRUE, TRUE)
  /\ Fields(Tasks, TRUE, FALSE, TRUE, 1, TRUE, FALSE)
  /\ Fields(AuditRecords, FALSE, FALSE, TRUE, 1, TRUE, TRUE)
<1>1. Fields(TaskDetail, FALSE, TRUE, TRUE, 2, FALSE, FALSE)
  BY DEF Fields, Single, Keyed, TaskDetail
<1>2. Fields(TaskComments, FALSE, TRUE, TRUE, 1, TRUE, TRUE)
  BY DEF Fields, Single, List, TaskComments
<1>3. Fields(Tasks, TRUE, FALSE, TRUE, 1, TRUE, FALSE)
  BY DEF Fields, Single, List, Tasks
<1>4. Fields(AuditRecords, FALSE, FALSE, TRUE, 1, TRUE, TRUE)
  BY DEF Fields, Single, List, AuditRecords
<1> QED
  BY <1>1, <1>2, <1>3, <1>4

\* Which pages are lists, and which of them are safe.
LEMMA ShapeOf ==
  ASSUME NEW p, NEW g \in BOOLEAN, NEW k \in BOOLEAN, NEW e \in BOOLEAN,
         NEW n \in Parts, NEW l \in BOOLEAN, NEW b \in BOOLEAN,
         Fields(p, g, k, e, n, l, b),
         g \/ k \/ l => e, g => n = 1, l /\ k => p = TaskComments,
         g /\ l => p = Tasks, p # ContextDialog
  PROVE  PanelShape(p)
<1>1. /\ p.guarded \in BOOLEAN /\ p.keyed \in BOOLEAN /\ p.early \in BOOLEAN
      /\ p.list \in BOOLEAN /\ p.busy \in BOOLEAN /\ p.wiped \in BOOLEAN
      /\ p.parts \in Parts
  BY DEF Fields
<1>2. p.guarded \/ p.keyed => p.early /\ p # AuditRecords
  BY OtherFields DEF Fields
<1>3. p.guarded => p.parts = 1
  BY DEF Fields
<1>4. p.list => p.early
  BY DEF Fields
<1>5. /\ p.guarded /\ p.list => p = Tasks
      /\ p.writes => p = TaskComments /\ p.keyed /\ p.list
  BY DEF Fields
<1>6. /\ p = Tasks => p.guarded /\ ~p.keyed /\ p.list
      /\ p = AuditRecords => p.list
  BY OtherFields DEF Fields
<1> QED
  BY <1>1, <1>2, <1>3, <1>4, <1>5, <1>6 DEF PanelShape

LEMMA PanelShapes == \A p \in Panels : PanelShape(p)
<1>1. /\ Single # ContextDialog /\ Guarded # ContextDialog
      /\ Keyed # ContextDialog /\ List # ContextDialog
      /\ TaskDetail # ContextDialog /\ TaskComments # ContextDialog
      /\ Tasks # ContextDialog /\ AuditRecords # ContextDialog
      /\ ApprovalDialog # ContextDialog /\ ArtifactDialog # ContextDialog
  <2>1. Single.opened = {} /\ ContextDialog.opened = {2}
    BY DEF Single, ContextDialog
  <2> QED
    BY <2>1, PlainFields, DialogFields, OtherFields DEF Fields
<1>2. 1 \in Parts /\ 2 \in Parts /\ 3 \in Parts
  BY DEF Parts
<1>3. /\ PanelShape(Single) /\ PanelShape(Guarded) /\ PanelShape(Keyed)
      /\ PanelShape(List)
  BY <1>1, <1>2, ShapeOf, PlainFields
<1>4. PanelShape(ApprovalDialog) /\ PanelShape(ArtifactDialog)
  BY <1>1, <1>2, ShapeOf, DialogFields
<1>5. PanelShape(ContextDialog)
  <2>1. ContextDialog # Tasks /\ ContextDialog # AuditRecords
    BY DialogFields, OtherFields DEF Fields
  <2> QED
    BY <1>2, <2>1, DialogFields DEF Fields, PanelShape
<1>6. /\ PanelShape(TaskDetail) /\ PanelShape(TaskComments)
      /\ PanelShape(Tasks) /\ PanelShape(AuditRecords)
  BY <1>1, <1>2, ShapeOf, OtherFields
<1> QED
  BY <1>3, <1>4, <1>5, <1>6
     DEF Panels, TaskToolTimeline, DependencySearch, Notifications, MyWork,
         Operations, Tools, Agents, OrgAccounts, Management, WebhooksPanel,
         RepositoriesPanel

\* A request for the first part, and what is left of one that was overtaken.
LEMMA FirstFacts ==
  ASSUME TypeOK, NEW s \in Subjects
  PROVE  /\ First(s) \in Load
         /\ First(s).current /\ First(s).subject = s
         /\ First(s).begun = server /\ First(s).part = 1
         /\ First(s).from = None /\ First(s).version = 0
BY DEF First, Load, TypeOK, Parts, Maybe

LEMMA OvertakenFacts ==
  ASSUME TypeOK, NEW m \in Overtaken
  PROVE  /\ m \in Load /\ ~m.current
         /\ \E l \in loads : /\ m.subject = l.subject /\ m.from = l.from
                             /\ m.part = l.part /\ m.version = l.version
<1>1. PICK l \in loads : m = [l EXCEPT !.current = FALSE]
  BY DEF Overtaken
<1>2. l \in Load
  BY DEF TypeOK
<1> QED
  BY <1>1, <1>2 DEF Load

LEMMA Ranges ==
  /\ Subjects \subseteq Nat /\ Times \subseteq Nat /\ 1 \in Subjects
  /\ None \notin Subjects
BY ViewsAssumption DEF Subjects, Times

-----------------------------------------------------------------------------
(***************************************************************************)
(* Types.                                                                  *)
(***************************************************************************)
\* Sending leaves requests.
LEMMA SendType ==
  ASSUME TypeOK, NEW l \in Load, Send(l)
  PROVE  loads' \subseteq Load /\ loading' = TRUE
BY OvertakenFacts DEF Send

LEMMA EmptiedType ==
  ASSUME TypeOK, NEW S
  PROVE  Emptied(S) \in [Parts -> Maybe(Piece)]
BY DEF Emptied, TypeOK, Maybe

\* Rows appear one page at a time.
LEMMA RowsType ==
  ASSUME TypeOK, NEW l \in loads, NEW at \in l.begun..server, ShowRows(l, at)
  PROVE  /\ rows' \in Seq(Row) /\ cursor' \in Maybe(Cursor)
         /\ loads' \subseteq loads /\ own' \subseteq own
<1> DEFINE page == IF l.from = None THEN 1 ELSE l.from.page
           row == [subject |-> l.subject, at |-> at, page |-> page]
<1>1. l \in Load /\ rows \in Seq(Row) /\ server \in Times
  BY DEF TypeOK
<1>2. at \in Times
  <2>1. l.begun \in Times
    BY <1>1 DEF Load
  <2> QED
    BY <1>1, <2>1, ViewsAssumption DEF Times
<1>3. page \in 1..MaxPage
  <2>1. l.from \in Maybe(Cursor)
    BY <1>1 DEF Load
  <2>2. l.from # None => l.from.page \in 2..MaxPage
    BY <2>1 DEF Maybe, Cursor
  <2> QED
    BY <2>2, ViewsAssumption
<1>4. row \in Row /\ l.subject \in Subjects
  BY <1>1, <1>2, <1>3 DEF Row, Load
<1>5. rows' \in Seq(Row)
  <2>1. rows' = IF l.from = None THEN <<row>> ELSE Append(rows, row)
    BY DEF ShowRows
  <2> HIDE DEF row
  <2> QED
    BY <1>1, <1>4, <2>1
<1>6. page < MaxPage => page + 1 \in 2..MaxPage
  BY <1>3, ViewsAssumption
<1>7. cursor' \in {None} \cup
        (IF page < MaxPage THEN {[subject |-> l.subject, page |-> page + 1]}
                           ELSE {})
  BY DEF ShowRows
<1>8. cursor' \in Maybe(Cursor)
  <2> HIDE DEF page
  <2> QED
    BY <1>4, <1>6, <1>7 DEF Maybe, Cursor
<1> QED
  BY <1>5, <1>8 DEF ShowRows

\* A part appears, and the next one may be asked for.
LEMMA PartType ==
  ASSUME TypeOK, NEW l \in loads, NEW at \in l.begun..server, ShowPart(l, at)
  PROVE  /\ slot' \in [Parts -> Maybe(Piece)] /\ selected' \in Maybe(Subjects)
         /\ reviewed' \in Maybe(Subjects \X Candidates)
         /\ loads' \subseteq Load /\ loading' \in BOOLEAN
<1> DEFINE piece == [subject |-> l.subject, at |-> at, version |-> l.version]
           next == [l EXCEPT !.part = @ + 1, !.begun = server]
           emptied == IF l.part = 1 THEN Emptied(panel.answered) ELSE slot
<1>1. /\ l \in Load /\ server \in Times /\ panel.parts \in Parts
      /\ loads \subseteq Load
  BY PanelShapes DEF TypeOK, PanelShape
<1>2. at \in Times
  <2>1. l.begun \in Times
    BY <1>1 DEF Load
  <2> QED
    BY <1>1, <2>1, ViewsAssumption DEF Times
<1>3. piece \in Piece /\ l.part \in Parts
  BY <1>1, <1>2 DEF Piece, Load
<1>4. emptied \in [Parts -> Maybe(Piece)]
  BY EmptiedType DEF TypeOK
<1>5. slot' = [emptied EXCEPT ![l.part] = piece]
  BY DEF ShowPart
<1>6. slot' \in [Parts -> Maybe(Piece)]
  <2> HIDE DEF piece, emptied
  <2> QED
    BY <1>3, <1>4, <1>5 DEF Maybe
<1>7. selected' \in Maybe(Subjects)
  BY <1>1 DEF ShowPart, TypeOK, Maybe, Load
<1>8. reviewed' \in Maybe(Subjects \X Candidates)
  <2>1. l.subject \in Subjects /\ l.version \in Candidates \cup {0}
    BY <1>1 DEF Load
  <2> QED
    BY <2>1 DEF ShowPart, TypeOK, Maybe
<1>9. l.part < panel.parts => next \in Load
  <2>1. l.part < panel.parts => l.part + 1 \in Parts
    BY <1>1, <1>3 DEF Parts
  <2> QED
    BY <1>1, <2>1 DEF Load
<1>10. loads' \subseteq loads \/ (l.part < panel.parts /\
                                   loads' \subseteq loads \cup {next})
  BY DEF ShowPart
<1>11. loads' \subseteq Load
  <2> HIDE DEF next
  <2> QED
    BY <1>1, <1>9, <1>10
<1>12. loading' \in BOOLEAN
  BY DEF ShowPart, TypeOK
<1> QED
  BY <1>6, <1>7, <1>8, <1>11, <1>12

LEMMA TypeStep == TypeOK /\ [Next]_vars => TypeOK'
<1> SUFFICES ASSUME TypeOK, [Next]_vars PROVE TypeOK'
  OBVIOUS
<1>a. None \in Maybe(Subjects) /\ None \in Maybe(Cursor)
      /\ None \in Maybe(Subjects \X Candidates)
  BY DEF Maybe
<1>b. Blank \in [Parts -> Maybe(Piece)] /\ <<>> \in Seq(Row)
  BY DEF Blank, Maybe
<1>1. ASSUME NEW s \in Subjects, Select(s)
      PROVE  TypeOK'
  <2>1. First(s) \in Load
    BY FirstFacts
  <2>2. /\ panel' = panel /\ server' = server /\ subject' \in Subjects
        /\ selected' \in Maybe(Subjects)
    BY <1>1 DEF Select, TypeOK, Maybe
  <2>3. loads' \subseteq Load /\ loading' \in BOOLEAN
    BY <1>1, <2>1, SendType DEF Select
  <2>4. slot' \in [Parts -> Maybe(Piece)]
    BY <1>1, <1>b, EmptiedType DEF Select
  <2>5. /\ rows' \in Seq(Row) /\ cursor' \in Maybe(Cursor)
        /\ reviewed' \in Maybe(Subjects \X Candidates) /\ failed' \in BOOLEAN
        /\ own' \subseteq Written /\ writing' \subseteq Times
    BY <1>1, <1>a, <1>b DEF Select, TypeOK
  <2> QED
    BY <2>2, <2>3, <2>4, <2>5 DEF TypeOK
<1>2. ASSUME Close
      PROVE  TypeOK'
  BY <1>a, <1>2, EmptiedType DEF Close, listVars, TypeOK
<1>3. ASSUME Reload
      PROVE  TypeOK'
  <2> DEFINE s == IF panel.early THEN subject ELSE selected
  <2>1. s \in Subjects
    BY <1>3 DEF Reload, TypeOK, Maybe
  <2>2. First(s) \in Load /\ Send(First(s))
    BY <1>3, <2>1, FirstFacts DEF Reload
  <2>3. loads' \subseteq Load /\ loading' = TRUE
    BY <2>2, SendType
  <2> QED
    BY <1>3, <2>3 DEF Reload, shownVars, listVars, TypeOK
<1>4. ASSUME More
      PROVE  TypeOK'
  <2> DEFINE l == [First(subject) EXCEPT !.from = cursor]
  <2>1. First(subject) \in Load
    BY FirstFacts DEF TypeOK
  <2>2. l \in Load /\ Send(l)
    BY <1>4, <2>1 DEF More, Load, TypeOK
  <2>3. loads' \subseteq Load /\ loading' = TRUE
    BY <2>2, SendType
  <2> QED
    BY <1>4, <2>3 DEF More, shownVars, listVars, TypeOK
<1>5. ASSUME NEW v \in Candidates, Compare(v)
      PROVE  TypeOK'
  <2> DEFINE l == [First(selected) EXCEPT !.part = 2, !.version = v]
  <2>1. selected \in Subjects
    <3>1. slot[1] \in Piece
      BY <1>5 DEF Compare, TypeOK, Maybe, Parts
    <3> QED
      BY <1>5, <3>1 DEF Compare, Piece
  <2>2. First(selected) \in Load
    BY <2>1, FirstFacts
  <2>3. 2 \in Parts /\ v \in Candidates \cup {0}
    BY DEF Parts
  <2>4. l \in Load
    BY <2>2, <2>3 DEF Load
  <2> QED
    BY <1>5, <2>4 DEF Compare, shownVars, listVars, TypeOK
<1>6. ASSUME NEW l \in loads, Ignore(l)
      PROVE  TypeOK'
  BY <1>6 DEF Ignore, shownVars, listVars, TypeOK
<1>7. ASSUME NEW l \in loads, Answer(l)
      PROVE  TypeOK'
  <2>1. PICK at \in l.begun..server :
          IF panel.list THEN ShowRows(l, at) ELSE ShowPart(l, at)
    BY <1>7 DEF Answer
  <2>2. UNCHANGED <<panel, subject, writing, server>> /\ failed' \in BOOLEAN
    <3>1. failed' = (panel.writes /\ l.from # None /\ failed)
      BY <1>7 DEF Answer
    <3>2. failed' \in BOOLEAN
      BY <3>1, SMT
    <3> QED
      BY <1>7, <3>2 DEF Answer
  <2>3. CASE panel.list
    BY <2>1, <2>2, <2>3, RowsType DEF ShowRows, TypeOK
  <2>4. CASE ~panel.list
    BY <2>1, <2>2, <2>4, PartType DEF ShowPart, listVars, TypeOK
  <2> QED
    BY <2>3, <2>4
<1>8. ASSUME NEW l \in loads, Restart(l)
      PROVE  TypeOK'
  <2>1. First(subject) \in Load
    BY FirstFacts DEF TypeOK
  <2>2. loads' \subseteq Overtaken \cup {First(subject)}
    BY <1>8 DEF Restart, Overtaken
  <2>3. loads' \subseteq Load
    BY <2>1, <2>2, OvertakenFacts
  <2> QED
    BY <1>8, <1>b, <2>3 DEF Restart, TypeOK
<1>9. ASSUME NEW l \in loads, Fails(l)
      PROVE  TypeOK'
  BY <1>9, <1>a, <1>b DEF Fails, LoadingAfter, TypeOK
<1>10. ASSUME ServerChanges
       PROVE  TypeOK'
  BY <1>10, ViewsAssumption
     DEF ServerChanges, shownVars, listVars, TypeOK, Times
<1>11. CASE UNCHANGED vars
  BY <1>11 DEF vars, TypeOK
<1>12. ASSUME Write
       PROVE  TypeOK'
  <2>1. server' \in Times
    BY <1>12, ViewsAssumption DEF Write, TypeOK, Times
  <2> QED
    BY <1>12, <2>1 DEF Write, shownVars, listVars, TypeOK
<1>13. ASSUME NEW at \in writing, WriteAnswered(at)
       PROVE  TypeOK'
  <2>1. [subject |-> subject, at |-> at] \in Written
    BY DEF TypeOK, Written
  <2> QED
    BY <1>13, <2>1 DEF WriteAnswered, TypeOK
<1>14. ASSUME NEW at \in writing, WriteLost(at)
       PROVE  TypeOK'
  BY <1>14 DEF WriteLost, shownVars, listVars, TypeOK
<1> QED
  BY <1>1, <1>2, <1>3, <1>4, <1>5, <1>6, <1>7, <1>8, <1>9, <1>10, <1>11,
     <1>12, <1>13, <1>14 DEF Next

-----------------------------------------------------------------------------
(***************************************************************************)
(* What each step shows.                                                   *)
(***************************************************************************)
LEMMA SafePages ==
  ASSUME TypeOK, Safe
  PROVE  /\ panel.early /\ ~IsDialog
         /\ panel # ContextDialog /\ panel # AuditRecords
         /\ panel.guarded => panel.parts = 1
BY PanelShapes DEF TypeOK, Safe, IsDialog, PanelShape

LEMMA PanelStays ==
  ASSUME [Next]_vars
  PROVE  panel' = panel
BY DEF Next, vars, Select, Close, Reload, More, Compare, Ignore, Answer,
       Restart, Fails, ServerChanges, Write, WriteAnswered, WriteLost

\* What TaskComments does about its own writes leaves the rest of the page.
OwnWrite == Write \/ \E at \in writing : WriteAnswered(at) \/ WriteLost(at)

LEMMA OwnWriteKeeps ==
  ASSUME OwnWrite
  PROVE  /\ UNCHANGED <<panel, subject, selected, loads, slot, rows, cursor,
                        loading, failed, reviewed>>
         /\ server' \in {server, server + 1}
         /\ own' \subseteq own \cup {[subject |-> subject, at |-> t] :
                                        t \in writing}
         /\ own \subseteq own'
BY DEF OwnWrite, Write, WriteAnswered, WriteLost, shownVars, listVars

\* A step that is not an answer.
Unanswered ==
  \/ \E s \in Subjects : Select(s)
  \/ Close \/ Reload \/ More
  \/ \E v \in Candidates : Compare(v)
  \/ \E l \in loads : Ignore(l) \/ Restart(l) \/ Fails(l)
  \/ OwnWrite
  \/ ServerChanges
  \/ UNCHANGED vars

\* It adds nothing to what is shown.
Fewer ==
  /\ \A p \in Parts : slot'[p] = slot[p] \/ slot'[p] = None
  /\ rows' = rows \/ rows' = <<>>
  /\ cursor' = cursor \/ cursor' = None

LEMMA FewerShown ==
  ASSUME TypeOK, Unanswered
  PROVE  Fewer
<1>1. ASSUME NEW s \in Subjects, Select(s)
      PROVE  Fewer
  BY <1>1 DEF Select, Emptied, Blank, Fewer
<1>2. ASSUME Close
      PROVE  Fewer
  BY <1>2 DEF Close, listVars, Emptied, Fewer
<1>3. CASE Reload \/ More \/ ServerChanges \/ UNCHANGED vars
           \/ \E v \in Candidates : Compare(v)
  BY <1>3
     DEF Reload, More, Compare, ServerChanges, vars, shownVars, listVars, Fewer
<1>4. ASSUME NEW l \in loads, Ignore(l) \/ Restart(l) \/ Fails(l)
      PROVE  Fewer
  BY <1>4 DEF Ignore, Restart, Fails, shownVars, listVars, Fewer
<1>5. ASSUME OwnWrite
      PROVE  Fewer
  BY <1>5, OwnWriteKeeps DEF Fewer
<1> QED
  BY <1>1, <1>2, <1>3, <1>4, <1>5 DEF Unanswered

\* An answer adds a page of rows, or a part.
AddsRows(l, at) ==
  /\ panel.list /\ at \in l.begun..server
  /\ \/ l.from = None /\ Len(rows') = 1 /\ rows'[1].page = 1
     \/ /\ l.from # None /\ Len(rows') = Len(rows) + 1
        /\ \A i \in 1..Len(rows) : rows'[i] = rows[i]
        /\ rows'[Len(rows')].page = l.from.page
  /\ rows'[Len(rows')].subject = l.subject
  /\ rows'[Len(rows')].at = at
  /\ cursor' # None => /\ cursor'.subject = l.subject
                       /\ cursor'.page = rows'[Len(rows')].page + 1
  /\ loads' = loads \ {l} /\ rows' # <<>>
  /\ own' = IF l.from = None THEN {} ELSE own
  /\ UNCHANGED <<panel, subject, selected, slot, reviewed, server>>

AddsPart(l, at) ==
  /\ ~panel.list /\ at \in l.begun..server
  /\ slot'[l.part] \in Piece
  /\ slot'[l.part].subject = l.subject /\ slot'[l.part].at = at
  /\ slot'[l.part].version = l.version
  /\ \A p \in Parts \ {l.part} :
       slot'[p] = slot[p] \/ (slot'[p] = None /\ panel.answered # {})
  /\ selected' = IF l.part = 1 /\ ~panel.early THEN l.subject ELSE selected
  /\ reviewed' = IF l.version # 0 THEN <<l.subject, l.version>> ELSE reviewed
  /\ \/ loads' = loads \ {l}
     \/ /\ l.part < panel.parts /\ l.version = 0
        /\ \E m \in Load : /\ loads' = (loads \ {l}) \cup {m}
                           /\ m.subject = l.subject
  /\ UNCHANGED <<panel, subject, rows, own, cursor, server>>

LEMMA AnswerAdds ==
  ASSUME TypeOK, NEW l \in loads, Answer(l)
  PROVE  \E at \in Nat : AddsRows(l, at) \/ AddsPart(l, at)
<1>1. PICK at \in l.begun..server :
        IF panel.list THEN ShowRows(l, at) ELSE ShowPart(l, at)
  BY DEF Answer
<1>2. l \in Load /\ rows \in Seq(Row) /\ l.part \in Parts
  BY DEF TypeOK, Load
<1>3. at \in Nat
  <2>1. l.begun \in Nat /\ server \in Nat
    BY <1>2, Ranges DEF Load, TypeOK
  <2> QED
    BY <2>1
<1>4. CASE panel.list
  <2> DEFINE page == IF l.from = None THEN 1 ELSE l.from.page
             row == [subject |-> l.subject, at |-> at, page |-> page]
  <2>1. rows' = IF l.from = None THEN <<row>> ELSE Append(rows, row)
    BY <1>1, <1>4 DEF ShowRows
  <2>2. /\ row.subject = l.subject /\ row.at = at
        /\ l.from = None => row.page = 1
        /\ l.from # None => row.page = l.from.page
    OBVIOUS
  <2>3. cursor' # None => cursor' = [subject |-> l.subject, page |-> page + 1]
    BY <1>1, <1>4 DEF ShowRows
  <2>4. cursor' # None => /\ cursor'.subject = l.subject
                          /\ cursor'.page = row.page + 1
    BY <2>3
  <2>5. rows'[Len(rows')] = row /\ rows' # <<>>
    <3> HIDE DEF row
    <3> QED
      BY <1>2, <2>1
  <2>6. l.from = None => Len(rows') = 1
    BY <2>1
  <2>7. l.from # None => /\ Len(rows') = Len(rows) + 1
                         /\ \A i \in 1..Len(rows) : rows'[i] = rows[i]
    <3> HIDE DEF row
    <3> QED
      BY <1>2, <2>1
  <2>8. /\ loads' = loads \ {l}
        /\ own' = IF l.from = None THEN {} ELSE own
        /\ UNCHANGED <<panel, subject, selected, slot, reviewed, server>>
    BY <1>1, <1>4 DEF Answer, ShowRows
  <2> HIDE DEF row
  <2>9. l.from = None => rows'[1].page = 1
    BY <2>2, <2>5, <2>6
  <2>10. AddsRows(l, at)
    BY <1>1, <1>4, <2>2, <2>4, <2>5, <2>6, <2>7, <2>8, <2>9 DEF AddsRows
  <2> QED
    BY <1>3, <2>10
<1>5. CASE ~panel.list
  <2> DEFINE piece == [subject |-> l.subject, at |-> at, version |-> l.version]
             emptied == IF l.part = 1 THEN Emptied(panel.answered) ELSE slot
             next == [l EXCEPT !.part = @ + 1, !.begun = server]
  <2>1. slot' = [emptied EXCEPT ![l.part] = piece]
    BY <1>1, <1>5 DEF ShowPart
  <2>2. emptied \in [Parts -> Maybe(Piece)]
    BY EmptiedType DEF TypeOK
  <2>3. \A p \in Parts :
          emptied[p] = slot[p] \/ (emptied[p] = None /\ panel.answered # {})
    BY DEF Emptied
  <2>4. slot'[l.part] = piece /\ \A p \in Parts \ {l.part} :
                                    slot'[p] = emptied[p]
    <3> HIDE DEF emptied, piece
    <3> QED
      BY <1>2, <2>1, <2>2
  <2>5. piece \in Piece
    <3>1. at \in Times
      <4>1. l.begun \in Times /\ server \in Times
        BY <1>2 DEF Load, TypeOK
      <4> QED
        BY <4>1, ViewsAssumption DEF Times
    <3> QED
      BY <1>2, <3>1 DEF Piece, Load
  <2>6. \/ loads' = loads \ {l}
        \/ /\ l.part < panel.parts /\ l.version = 0
           /\ loads' = (loads \ {l}) \cup {next}
    BY <1>1, <1>5 DEF ShowPart
  <2>7. next.subject = l.subject
    BY <1>2 DEF Load
  <2>8. l.part < panel.parts => next \in Load
    <3>1. panel.parts \in Parts /\ server \in Times
      BY PanelShapes DEF TypeOK, PanelShape
    <3>2. l.part < panel.parts => l.part + 1 \in Parts
      BY <1>2, <3>1 DEF Parts
    <3> QED
      BY <1>2, <3>1, <3>2 DEF Load
  <2>9. /\ selected' = IF l.part = 1 /\ ~panel.early THEN l.subject
                       ELSE selected
        /\ reviewed' = IF l.version # 0 THEN <<l.subject, l.version>>
                       ELSE reviewed
        /\ UNCHANGED <<panel, subject, rows, own, cursor, server>>
    BY <1>1, <1>5 DEF Answer, ShowPart, listVars
  <2>10. /\ piece.subject = l.subject /\ piece.at = at
         /\ piece.version = l.version
    OBVIOUS
  <2> HIDE DEF piece, emptied, next
  <2>11. \/ loads' = loads \ {l}
         \/ /\ l.part < panel.parts /\ l.version = 0
            /\ \E m \in Load : /\ loads' = (loads \ {l}) \cup {m}
                               /\ m.subject = l.subject
    BY <2>6, <2>7, <2>8
  <2>12. \A p \in Parts \ {l.part} :
           slot'[p] = slot[p] \/ (slot'[p] = None /\ panel.answered # {})
    BY <2>3, <2>4
  <2>13. /\ slot'[l.part] \in Piece
         /\ slot'[l.part].subject = l.subject /\ slot'[l.part].at = at
         /\ slot'[l.part].version = l.version
    BY <2>4, <2>5, <2>10
  <2>14. AddsPart(l, at)
    BY <1>5, <2>9, <2>11, <2>12, <2>13 DEF AddsPart
  <2> QED
    BY <1>3, <2>14
<1> QED
  BY <1>4, <1>5

LEMMA StepKinds ==
  ASSUME TypeOK, [Next]_vars
  PROVE  \/ Unanswered
         \/ \E l \in loads, at \in Nat :
              /\ AddsRows(l, at) \/ AddsPart(l, at)
              /\ ~Dropped(l) /\ ~Foreign(l)
<1>1. ASSUME NEW l \in loads, Answer(l)
      PROVE  \E at \in Nat : /\ AddsRows(l, at) \/ AddsPart(l, at)
                             /\ ~Dropped(l) /\ ~Foreign(l)
  BY <1>1, AnswerAdds DEF Answer
<1> QED
  BY <1>1 DEF Next, Unanswered, OwnWrite

-----------------------------------------------------------------------------
(***************************************************************************)
(* Each part of the invariant is kept.                                     *)
(***************************************************************************)
LEMMA NamedStep ==
  ASSUME TypeOK, NamedAtOnce, [Next]_vars
  PROVE  NamedAtOnce'
<1> SUFFICES ASSUME Safe PROVE selected' = subject'
  BY PanelStays DEF NamedAtOnce, Safe
<1>1. selected = subject /\ panel.early /\ ~IsDialog
  BY SafePages DEF NamedAtOnce
<1>2. CASE Unanswered
  BY <1>1, <1>2, OwnWriteKeeps
     DEF Unanswered, Select, Close, Reload, More, Compare, Ignore, Restart,
         Fails, ServerChanges, vars, shownVars
<1>3. ASSUME NEW l \in loads, NEW at \in Nat, AddsRows(l, at) \/ AddsPart(l, at)
      PROVE  selected' = subject'
  BY <1>1, <1>3 DEF AddsRows, AddsPart
<1> QED
  BY <1>2, <1>3, StepKinds

LEMMA PastStep ==
  ASSUME TypeOK, ShownPast, [Next]_vars
  PROVE  ShownPast'
<1>a. /\ server \in Nat /\ rows \in Seq(Row)
      /\ \A p \in Parts : slot[p] # None => slot[p].at \in Nat
      /\ rows # <<>> => rows[1].at \in Nat
  <2>1. \A p \in Parts : slot[p] # None => slot[p].at \in Times
    BY DEF TypeOK, Maybe, Piece
  <2>2. rows # <<>> => rows[1] \in Row
    BY DEF TypeOK
  <2> QED
    BY <2>1, <2>2, Ranges DEF TypeOK, Row
<1>1. CASE Unanswered
  <2>1. Fewer
    BY <1>1, FewerShown
  <2>2. server' \in {server, server + 1}
    BY <1>1, OwnWriteKeeps
       DEF Unanswered, Select, Close, Reload, More, Compare, Ignore, Restart,
           Fails, ServerChanges, vars
  <2>3. /\ \A p \in Parts : slot[p] # None => slot[p].at <= server'
        /\ rows # <<>> => rows[1].at <= server'
    BY <1>a, <2>2 DEF ShownPast
  <2> QED
    BY <2>1, <2>3 DEF Fewer, ShownPast
<1>2. ASSUME NEW l \in loads, NEW at \in Nat, AddsRows(l, at)
      PROVE  ShownPast'
  <2>1. at <= server /\ server' = server /\ slot' = slot
    <3>1. l.begun \in Nat
      BY Ranges DEF TypeOK, Load
    <3> QED
      BY <1>2, <1>a, <3>1 DEF AddsRows
  <2>2. CASE l.from = None \/ rows = <<>>
    <3>1. CASE l.from = None
      <4>1. Len(rows') = 1
        BY <1>2, <3>1 DEF AddsRows
      <4> QED
        BY <1>2, <2>1, <4>1 DEF AddsRows, ShownPast
    <3>2. CASE l.from # None /\ rows = <<>>
      <4>1. Len(rows') = Len(rows) + 1 /\ Len(rows) = 0
        BY <1>2, <3>2 DEF AddsRows
      <4>2. Len(rows') = 1
        BY <4>1
      <4> QED
        BY <1>2, <2>1, <4>2 DEF AddsRows, ShownPast
    <3> QED
      BY <2>2, <3>1, <3>2
  <2>3. CASE l.from # None /\ rows # <<>>
    <3>1. 1 \in 1..Len(rows)
      BY <1>a, <2>3
    <3>2. rows'[1] = rows[1]
      BY <1>2, <2>3, <3>1 DEF AddsRows
    <3> QED
      BY <2>1, <2>3, <3>2 DEF ShownPast
  <2> QED
    BY <2>2, <2>3
<1>3. ASSUME NEW l \in loads, NEW at \in Nat, AddsPart(l, at)
      PROVE  ShownPast'
  <2>1. at <= server /\ server' = server /\ rows' = rows
    <3>1. l.begun \in Nat
      BY Ranges DEF TypeOK, Load
    <3> QED
      BY <1>3, <1>a, <3>1 DEF AddsPart
  <2>2. \A p \in Parts : slot'[p] # None => slot'[p].at <= server
    BY <1>3, <2>1 DEF AddsPart, ShownPast
  <2> QED
    BY <2>1, <2>2 DEF ShownPast
<1> QED
  BY <1>1, <1>2, <1>3, StepKinds

\* An answer that a guarded page takes is the one it waits for.
LEMMA Awaited ==
  ASSUME TypeOK, OneCurrent, panel.guarded, NEW l \in loads, ~Dropped(l)
  PROVE  /\ l.current /\ l.subject = subject /\ l.part = 1 /\ l.version = 0
         /\ l.from # None => l.from = cursor /\ rows # <<>>
         /\ \A m \in loads \ {l} : ~m.current
BY DEF Dropped, OneCurrent

LEMMA LayoutStep ==
  ASSUME TypeOK, Layout, OneCurrent, [Next]_vars
  PROVE  Layout'
<1>1. CASE Unanswered
  BY <1>1, FewerShown, PanelStays DEF Layout, Fewer
<1>2. ASSUME NEW l \in loads, NEW at \in Nat, AddsRows(l, at)
      PROVE  Layout'
  BY <1>2 DEF AddsRows, Layout
<1>3. ASSUME NEW l \in loads, NEW at \in Nat, AddsPart(l, at), ~Dropped(l)
      PROVE  Layout'
  <2>1. panel.guarded => l.part = 1
    BY <1>3, Awaited
  <2> QED
    BY <1>3, <2>1 DEF AddsPart, Layout
<1> QED
  BY <1>1, <1>2, <1>3, StepKinds

LEMMA RebuiltStep ==
  ASSUME TypeOK, Rebuilt, [Next]_vars
  PROVE  Rebuilt'
<1> SUFFICES ASSUME panel.keyed PROVE Rebuilt'
  BY PanelStays DEF Rebuilt
<1>a. /\ panel.early /\ panel # ContextDialog /\ panel # Tasks
      /\ \A l \in loads : l.subject = subject
  BY PanelShapes DEF TypeOK, PanelShape, Rebuilt
<1>b. /\ First(subject).subject = subject /\ subject \in Subjects
      /\ First(subject) \in Load
      /\ \A m \in Overtaken : m.subject = subject
  BY <1>a, FirstFacts, OvertakenFacts DEF TypeOK
<1>c. ASSUME Fewer, subject' = subject, \A l \in loads' : l.subject = subject
      PROVE  Rebuilt'
  BY <1>c DEF Fewer, Rebuilt
<1>1. ASSUME NEW s \in Subjects, Select(s)
      PROVE  Rebuilt'
  <2>1. /\ loads' = {First(s)} /\ subject' = s /\ rows' = <<>>
        /\ cursor' = None /\ \A p \in Parts : slot'[p] = None
    BY <1>1 DEF Select, Blank
  <2> QED
    BY <2>1, FirstFacts DEF Rebuilt
<1>2. CASE Unanswered /\ ~ \E s \in Subjects : Select(s)
  <2>1. Fewer
    BY <1>2, FewerShown
  <2>2. subject' = subject
    BY <1>2, OwnWriteKeeps
       DEF Unanswered, Close, Reload, More, Compare, Ignore, Restart, Fails,
           ServerChanges, vars
  <2>3. CASE Reload
    BY <1>a, <1>b, <1>c, <2>1, <2>2, <2>3 DEF Reload, Send
  <2>4. CASE More
    <3>1. [First(subject) EXCEPT !.from = cursor].subject = subject
      BY <1>b DEF Load
    <3> QED
      BY <1>a, <1>b, <1>c, <2>1, <2>2, <2>4, <3>1 DEF More, Send
  <2>5. CASE Close \/ OwnWrite \/ ServerChanges \/ UNCHANGED vars
             \/ \E l \in loads : Ignore(l) \/ Restart(l) \/ Fails(l)
    <3>1. loads' \subseteq loads
      BY <1>a, <2>5, OwnWriteKeeps
         DEF Close, ServerChanges, vars, Ignore, Restart, Foreign, Fails
    <3> QED
      BY <1>a, <1>c, <2>1, <2>2, <3>1
  <2> QED
    BY <1>2, <1>a, <2>3, <2>4, <2>5 DEF Unanswered, Compare
<1>3. ASSUME NEW l \in loads, NEW at \in Nat, AddsRows(l, at)
      PROVE  Rebuilt'
  <2>1. \A i \in 1..Len(rows') : rows'[i].subject = subject
    <3>1. rows \in Seq(Row) /\ l.subject = subject
      BY <1>a DEF TypeOK
    <3>2. \A i \in 1..Len(rows) : rows[i].subject = subject
      BY DEF Rebuilt
    <3>3. \A i \in 1..Len(rows') : i = Len(rows') \/ i \in 1..Len(rows)
      BY <1>3, <3>1 DEF AddsRows
    <3>4. CASE l.from = None
      <4>1. Len(rows') = 1 /\ rows'[Len(rows')].subject = subject
        BY <1>3, <3>1, <3>4 DEF AddsRows
      <4>2. \A i \in 1..1 : i = 1
        OBVIOUS
      <4> QED
        BY <4>1, <4>2
    <3>5. CASE l.from # None
      BY <1>3, <3>1, <3>2, <3>3, <3>5 DEF AddsRows
    <3> QED
      BY <3>4, <3>5
  <2> QED
    BY <1>3, <1>a, <2>1 DEF AddsRows, Rebuilt
<1>4. ASSUME NEW l \in loads, NEW at \in Nat, AddsPart(l, at)
      PROVE  Rebuilt'
  <2>1. \A p \in Parts : slot'[p] # None => slot'[p].subject = subject
    BY <1>4, <1>a DEF AddsPart, Rebuilt
  <2>2. \A m \in loads' : m.subject = subject
    BY <1>4, <1>a DEF AddsPart
  <2> QED
    BY <1>4, <2>1, <2>2 DEF AddsPart, Rebuilt
<1> QED
  BY <1>1, <1>2, <1>3, <1>4, StepKinds

\* An answer that is added to a guarded list goes on from what is shown.
LEMMA Continues ==
  ASSUME TypeOK, Listing, OneCurrent, panel.guarded, panel.list,
         NEW l \in loads, ~Dropped(l), ~Foreign(l), l.from # None
  PROVE  /\ rows # <<>> /\ l.from.page = Len(rows) + 1
         /\ l.subject = rows[1].subject /\ l.subject = subject
<1>1. panel = Tasks
  BY PanelShapes DEF TypeOK, PanelShape
<1>2. l.from = cursor /\ rows # <<>> /\ l.subject = subject
  BY Awaited
<1>3. /\ l.from.page = Len(rows) + 1 /\ l.from.subject = rows[1].subject
  BY <1>2 DEF Listing
<1> QED
  BY <1>1, <1>2, <1>3 DEF Foreign

LEMMA ListingStep ==
  ASSUME TypeOK, Listing, OneCurrent, [Next]_vars
  PROVE  Listing'
<1> SUFFICES ASSUME panel.guarded PROVE Listing'
  BY PanelStays DEF Listing
<1>a. rows \in Seq(Row) /\ Len(rows) \in Nat
  BY DEF TypeOK
<1>1. CASE Unanswered
  <2>1. Fewer
    BY <1>1, FewerShown
  <2>2. CASE rows' = <<>>
    BY <2>2 DEF Listing
  <2>3. CASE rows' = rows
    BY <2>1, <2>3 DEF Fewer, Listing
  <2> QED
    BY <2>1, <2>2, <2>3 DEF Fewer
<1>2. ASSUME NEW l \in loads, NEW at \in Nat, AddsRows(l, at),
             ~Dropped(l), ~Foreign(l)
      PROVE  Listing'
  <2>1. panel.list /\ \A i \in 1..1 : i = 1
    BY <1>2 DEF AddsRows
  <2>2. CASE l.from = None
    <3>1. Len(rows') = 1 /\ rows'[1].page = 1
      BY <1>2, <2>2 DEF AddsRows
    <3>2. cursor' # None => /\ cursor'.subject = rows'[1].subject
                            /\ cursor'.page = Len(rows') + 1
      BY <1>2, <3>1 DEF AddsRows
    <3> QED
      BY <2>1, <3>1, <3>2 DEF Listing
  <2>3. CASE l.from # None
    <3>1. /\ Len(rows') = Len(rows) + 1
          /\ \A i \in 1..Len(rows) : rows'[i] = rows[i]
          /\ rows'[Len(rows')].page = l.from.page
          /\ rows'[Len(rows')].subject = l.subject
      BY <1>2, <2>3 DEF AddsRows
    <3>2. /\ rows # <<>> /\ l.from.page = Len(rows) + 1
          /\ l.subject = rows[1].subject
      BY <1>2, <2>1, <2>3, Continues
    <3>3. 1 \in 1..Len(rows) /\ rows'[1] = rows[1]
      BY <1>a, <3>1, <3>2
    <3>4. \A i \in 1..Len(rows') : i = Len(rows') \/ i \in 1..Len(rows)
      BY <1>a, <3>1
    <3>5. \A i \in 1..Len(rows') :
            rows'[i].page = i /\ rows'[i].subject = rows'[1].subject
      <4>1. \A i \in 1..Len(rows) :
              rows[i].page = i /\ rows[i].subject = rows[1].subject
        BY DEF Listing
      <4>2. /\ rows'[Len(rows')].page = Len(rows')
            /\ rows'[Len(rows')].subject = rows[1].subject
        BY <3>1, <3>2
      <4> QED
        BY <3>1, <3>3, <3>4, <4>1, <4>2
    <3>6. cursor' # None => /\ cursor'.subject = l.subject
                            /\ cursor'.page = rows'[Len(rows')].page + 1
      BY <1>2 DEF AddsRows
    <3> QED
      BY <3>1, <3>2, <3>3, <3>5, <3>6 DEF Listing
  <2> QED
    BY <2>2, <2>3
<1>3. ASSUME NEW l \in loads, NEW at \in Nat, AddsPart(l, at)
      PROVE  Listing'
  BY <1>3 DEF AddsPart, Listing
<1> QED
  BY <1>1, <1>2, <1>3, StepKinds

LEMMA SettledStep ==
  ASSUME TypeOK, Settled, Listing, OneCurrent, Layout, [Next]_vars
  PROVE  Settled'
<1> SUFFICES ASSUME panel.guarded, ~failed', \A l \in loads' : ~l.current
             PROVE  /\ \A p \in Parts : slot'[p] # None =>
                         slot'[p].subject = subject'
                    /\ \A i \in 1..Len(rows') : rows'[i].subject = subject'
  BY PanelStays DEF Settled
<1>a. /\ Safe /\ panel.early /\ panel # ContextDialog
      /\ rows \in Seq(Row) /\ Len(rows) \in Nat
  BY SafePages DEF Safe, TypeOK
<1>b. \A s \in Subjects : First(s).current
  BY FirstFacts
<1>1. CASE Unanswered
  <2>1. Fewer
    BY <1>1, FewerShown
  <2>2. ASSUME NEW s \in Subjects, Select(s)
        PROVE  FALSE
    <3>1. First(s) \in loads'
      BY <2>2 DEF Select, Send
    <3> QED
      BY <1>b, <3>1
  <2>3. ASSUME Reload
        PROVE  FALSE
    <3>1. First(subject) \in loads'
      BY <1>a, <2>3 DEF Reload, Send
    <3> QED
      BY <1>b, <3>1 DEF TypeOK
  <2>4. ASSUME More
        PROVE  FALSE
    <3>1. [First(subject) EXCEPT !.from = cursor] \in loads'
      BY <2>4 DEF More, Send
    <3>2. [First(subject) EXCEPT !.from = cursor].current
      BY DEF First
    <3> QED
      BY <3>1, <3>2
  <2>5. ASSUME NEW l \in loads, Restart(l)
        PROVE  FALSE
    <3>1. First(subject) \in loads'
      BY <2>5 DEF Restart
    <3> QED
      BY <1>b, <3>1 DEF TypeOK
  <2>6. ASSUME NEW l \in loads, Fails(l)
        PROVE  FALSE
    BY <2>6 DEF Fails
  <2>7. CASE Close \/ OwnWrite \/ ServerChanges \/ UNCHANGED vars
             \/ \E l \in loads : Ignore(l)
    <3>1. subject' = subject /\ ~failed /\ \A l \in loads : ~l.current
      BY <1>a, <2>7, OwnWriteKeeps
         DEF Close, ServerChanges, vars, Ignore, Dropped, shownVars
    <3>2. /\ \A p \in Parts : slot[p] # None => slot[p].subject = subject
          /\ \A i \in 1..Len(rows) : rows[i].subject = subject
      BY <3>1 DEF Settled
    <3>3. rows' = <<>> => Len(rows') = 0
      OBVIOUS
    <3> QED
      BY <2>1, <3>1, <3>2, <3>3 DEF Fewer
  <2> QED
    BY <1>1, <1>a, <2>2, <2>3, <2>4, <2>5, <2>6, <2>7
       DEF Unanswered, Compare
<1>2. ASSUME NEW l \in loads, NEW at \in Nat, AddsRows(l, at),
             ~Dropped(l), ~Foreign(l)
      PROVE  /\ \A p \in Parts : slot'[p] = None
             /\ \A i \in 1..Len(rows') : rows'[i].subject = subject'
  <2>1. /\ l.subject = subject /\ subject' = subject
        /\ \A p \in Parts : slot'[p] = None /\ panel.list
        /\ rows'[Len(rows')].subject = subject
    BY <1>2, Awaited DEF AddsRows, Layout
  <2>2. CASE l.from = None
    <3>1. Len(rows') = 1 /\ \A i \in 1..1 : i = 1
      BY <1>2, <2>2 DEF AddsRows
    <3> QED
      BY <2>1, <3>1
  <2>3. CASE l.from # None
    <3>1. /\ Len(rows') = Len(rows) + 1
          /\ \A i \in 1..Len(rows) : rows'[i] = rows[i]
      BY <1>2, <2>3 DEF AddsRows
    <3>2. rows[1].subject = subject
      BY <1>a, <1>2, <2>1, <2>3, Continues DEF AddsRows
    <3>3. \A i \in 1..Len(rows) : rows[i].subject = subject
      BY <1>a, <3>2 DEF Listing
    <3>4. \A i \in 1..Len(rows') : i = Len(rows') \/ i \in 1..Len(rows)
      BY <1>a, <3>1
    <3> QED
      BY <2>1, <3>1, <3>3, <3>4
  <2> QED
    BY <2>2, <2>3
<1>3. ASSUME NEW l \in loads, NEW at \in Nat, AddsPart(l, at), ~Dropped(l)
      PROVE  /\ \A p \in Parts : slot'[p] # None =>
                  slot'[p].subject = subject'
             /\ Len(rows') = 0
  <2>1. l.subject = subject /\ l.part = 1 /\ subject' = subject
    BY <1>3, Awaited DEF AddsPart
  <2>2. \A p \in Parts \ {1} : slot[p] = None
    BY DEF Layout
  <2>3. rows' = <<>>
    BY <1>3 DEF AddsPart, Layout
  <2> QED
    BY <1>3, <2>1, <2>2, <2>3 DEF AddsPart
<1> QED
  BY <1>1, <1>2, <1>3, StepKinds

LEMMA OneCurrentStep ==
  ASSUME VInv, [Next]_vars
  PROVE  OneCurrent'
<1> SUFFICES ASSUME panel.guarded PROVE OneCurrent'
  BY PanelStays DEF OneCurrent
<1> USE DEF VInv
<1>a. /\ panel.early /\ panel.parts = 1 /\ panel # ContextDialog /\ ~IsDialog
      /\ rows \in Seq(Row) /\ Len(rows) \in Nat /\ server \in Nat
      /\ panel # AuditRecords
  BY SafePages, Ranges DEF Safe, TypeOK
<1>b. \A s \in Subjects :
        /\ First(s).current /\ First(s).subject = s /\ First(s).begun = server
        /\ First(s).part = 1 /\ First(s).from = None /\ First(s).version = 0
  BY FirstFacts
<1>c. ASSUME loads' \subseteq loads, Fewer, UNCHANGED <<subject, rows, cursor>>
      PROVE  OneCurrent'
  BY <1>c DEF Fewer, OneCurrent
\* One request goes out, the others are no longer current.
<1>d. ASSUME NEW m, Fewer, m.current, m.subject = subject', m.part = 1,
             m.version = 0, m.begun = server,
             m.from # None => m.from = cursor' /\ rows' # <<>>,
             \A l \in loads' : l.current => l = m
      PROVE  OneCurrent'
  BY <1>d DEF Fewer, OneCurrent, ShownPast
\* None is awaited any more.
<1>e. ASSUME \A l \in loads' : ~l.current
      PROVE  OneCurrent'
  BY <1>e DEF OneCurrent
<1>1. CASE Unanswered
  <2>1. Fewer
    BY <1>1, FewerShown
  <2>2. ASSUME NEW s \in Subjects, Select(s)
        PROVE  OneCurrent'
    <3>1. loads' \subseteq Overtaken \cup {First(s)} /\ subject' = s
      BY <2>2 DEF Select, Send
    <3>2. \A l \in loads' : l.current => l = First(s)
      BY <3>1, OvertakenFacts
    <3> QED
      BY <1>b, <1>d, <2>1, <3>1, <3>2
  <2>3. ASSUME Reload
        PROVE  OneCurrent'
    <3>1. loads' \subseteq Overtaken \cup {First(subject)}
          /\ subject' = subject
      BY <1>a, <2>3 DEF Reload, Send
    <3>2. \A l \in loads' : l.current => l = First(subject)
      BY <3>1, OvertakenFacts
    <3> QED
      BY <1>b, <1>d, <2>1, <3>1, <3>2 DEF TypeOK
  <2>4. ASSUME More
        PROVE  OneCurrent'
    <3> DEFINE m == [First(subject) EXCEPT !.from = cursor]
    <3>1. /\ loads' = Overtaken \cup {m} /\ subject' = subject
          /\ cursor' = cursor /\ rows' = rows /\ rows # <<>>
      BY <2>4 DEF More, Send, shownVars, listVars
    <3>2. \A l \in loads' : l.current => l = m
      BY <3>1, OvertakenFacts
    <3>3. /\ m.current /\ m.subject = subject' /\ m.part = 1
          /\ m.version = 0 /\ m.begun = server /\ m.from = cursor'
      BY <3>1 DEF First
    <3> QED
      BY <1>d, <2>1, <3>1, <3>2, <3>3
  <2>5. ASSUME NEW l \in loads, Ignore(l)
        PROVE  OneCurrent'
    BY <1>c, <2>1, <2>5 DEF Ignore, shownVars, listVars
  <2>6. ASSUME NEW l \in loads, Restart(l)
        PROVE  OneCurrent'
    <3>1. loads' \subseteq Overtaken \cup {First(subject)}
          /\ subject' = subject
      BY <2>6 DEF Restart, Overtaken
    <3>2. \A m \in loads' : m.current => m = First(subject)
      BY <3>1, OvertakenFacts
    <3> QED
      BY <1>b, <1>d, <2>1, <3>1, <3>2 DEF TypeOK
  <2>7. ASSUME NEW l \in loads, Fails(l)
        PROVE  OneCurrent'
    <3>1. \A m \in loads \ {l} : ~m.current
      BY <2>7, Awaited DEF Fails
    <3> QED
      BY <1>e, <2>7, <3>1 DEF Fails
  <2>8. CASE OwnWrite \/ ServerChanges \/ UNCHANGED vars
    BY <1>c, <2>1, <2>8, OwnWriteKeeps
       DEF ServerChanges, shownVars, listVars, vars
  <2> QED
    BY <1>1, <1>a, <2>2, <2>3, <2>4, <2>5, <2>6, <2>7, <2>8
       DEF Unanswered, Close, Compare
<1>2. ASSUME NEW l \in loads, NEW at \in Nat,
             AddsRows(l, at) \/ AddsPart(l, at),
             ~Dropped(l)
      PROVE  OneCurrent'
  <2>1. l.part = 1 /\ \A m \in loads \ {l} : ~m.current
    BY <1>2, Awaited
  <2>2. loads' = loads \ {l}
    BY <1>a, <1>2, <2>1 DEF AddsRows, AddsPart
  <2> QED
    BY <1>e, <2>1, <2>2
<1> QED
  BY <1>1, <1>2, StepKinds

LEMMA ComparedStep ==
  ASSUME TypeOK, Layout, Compared, [Next]_vars
  PROVE  Compared'
<1> SUFFICES ASSUME panel = ContextDialog PROVE Compared'
  BY PanelStays DEF Compared
<1>a. /\ panel.parts = 1 /\ panel.answered = {} /\ panel.closed = {}
      /\ ~panel.list /\ ~panel.keyed /\ ~panel.guarded /\ panel # Tasks
      /\ panel' = panel /\ cursor = None
  BY PanelShapes, PanelStays DEF TypeOK, PanelShape, Layout
<1> DEFINE Placed(l) == IF l.version = 0 THEN l.part = 1 ELSE l.part = 2
           Kept == reviewed' # None =>
                     /\ slot'[2] # None
                     /\ <<slot'[2].subject, slot'[2].version>> = reviewed'
<1>b. /\ \A l \in loads : Placed(l)
      /\ \A m \in Overtaken : Placed(m)
      /\ \A s \in Subjects : Placed(First(s))
  <2>1. \A l \in loads : Placed(l)
    BY DEF Compared
  <2> QED
    BY <2>1, FirstFacts, OvertakenFacts
<1>c. slot' = slot /\ reviewed' = reviewed => Kept
  BY DEF Compared
<1>1. ASSUME NEW s \in Subjects, Select(s)
      PROVE  (\A l \in loads' : Placed(l)) /\ Kept
  BY <1>1, <1>a, <1>b DEF Select, Send
<1>2. ASSUME Close
      PROVE  (\A l \in loads' : Placed(l)) /\ Kept
  BY <1>2, <1>a, <1>b, <1>c DEF Close, Emptied, Compared, Parts
<1>3. ASSUME NEW v \in Candidates, Compare(v)
      PROVE  (\A l \in loads' : Placed(l)) /\ Kept
  <2> DEFINE m == [First(selected) EXCEPT !.part = 2, !.version = v]
  <2>1. loads' = loads \cup {m} /\ slot' = slot /\ reviewed' = reviewed
    BY <1>3 DEF Compare, shownVars
  <2>2. m.part = 2 /\ m.version # 0
    BY DEF First, Candidates
  <2> QED
    BY <1>b, <1>c, <2>1, <2>2
<1>4. ASSUME NEW l \in loads, NEW at \in Nat, AddsPart(l, at)
      PROVE  (\A m \in loads' : Placed(m)) /\ Kept
  <2>1. Placed(l) /\ 2 \in Parts
    BY <1>b DEF Parts
  <2>2. loads' = loads \ {l}
    BY <1>4, <1>a, <2>1 DEF AddsPart
  <2>3. CASE l.version = 0
    <3>1. slot'[2] = slot[2] /\ reviewed' = reviewed
      BY <1>4, <1>a, <2>1, <2>3 DEF AddsPart
    <3> QED
      BY <1>b, <2>2, <3>1 DEF Compared
  <2>4. CASE l.version # 0
    <3>1. /\ reviewed' = <<l.subject, l.version>> /\ slot'[2] # None
          /\ slot'[2].subject = l.subject /\ slot'[2].version = l.version
      BY <1>4, <2>1, <2>4, NoneAssumption DEF AddsPart
    <3> QED
      BY <1>b, <2>2, <3>1
  <2> QED
    BY <2>3, <2>4
<1>5. ASSUME Reload \/ More \/ \E l \in loads : Ignore(l) \/ Restart(l)
      PROVE  FALSE
  BY <1>5, <1>a DEF Reload, More, Ignore, Dropped, Restart, Foreign
<1>6. ASSUME \/ OwnWrite \/ ServerChanges \/ UNCHANGED vars
             \/ \E l \in loads : Fails(l)
      PROVE  (\A l \in loads' : Placed(l)) /\ Kept
  <2>1. loads' \subseteq loads /\ slot' = slot /\ reviewed' = reviewed
    BY <1>6, OwnWriteKeeps DEF ServerChanges, shownVars, vars, Fails
  <2> QED
    BY <1>b, <1>c, <2>1
<1>7. (\A l \in loads' : Placed(l)) /\ Kept
  <2> HIDE DEF Placed, Kept
  <2>1. CASE Unanswered
    BY <1>1, <1>2, <1>3, <1>5, <1>6, <2>1 DEF Unanswered
  <2>2. CASE \E l \in loads, at \in Nat : AddsPart(l, at)
    BY <1>4, <2>2
  <2> QED
    BY <2>1, <2>2, <1>a, StepKinds DEF AddsRows
<1> QED
  BY <1>7 DEF Compared

\* Of a page whose own writes go into the list.
LEMMA WritesPage ==
  ASSUME TypeOK, panel.writes
  PROVE  /\ panel = TaskComments /\ panel.keyed /\ panel.list /\ ~IsDialog
         /\ panel # Tasks /\ panel # ContextDialog
<1>1. panel = TaskComments /\ panel.keyed /\ panel.list /\ panel # Tasks
  BY PanelShapes DEF TypeOK, PanelShape
<1> QED
  BY <1>1, SafePages DEF Safe

LEMMA NotWrites ==
  ASSUME Commented, ~panel.writes, [Next]_vars
  PROVE  own' = {} /\ writing' = {}
<1>1. own = {} /\ writing = {}
  BY DEF Commented
<1>2. ASSUME NEW l \in loads, Answer(l)
      PROVE  own' = {} /\ writing' = {}
  BY <1>1, <1>2 DEF Answer, ShowRows, ShowPart, listVars
<1>3. ASSUME NEW s \in Subjects, Select(s)
      PROVE  own' = {} /\ writing' = {}
  BY <1>1, <1>3 DEF Select
<1> QED
  BY <1>1, <1>2, <1>3
     DEF Next, vars, shownVars, listVars, Close, Reload, More, Compare, Ignore,
         Restart, Fails, Write, ServerChanges

LEMMA CommentedStep ==
  ASSUME TypeOK, Commented, [Next]_vars
  PROVE  Commented'
<1>1. CASE ~panel.writes
  BY <1>1, NotWrites, PanelStays DEF Commented
<1>2. CASE panel.writes
  <2> USE <1>2
  <2>a. /\ panel = TaskComments /\ panel.keyed /\ panel.list /\ ~IsDialog
        /\ panel # Tasks /\ panel # ContextDialog /\ panel' = panel
    BY WritesPage, PanelStays
  <2>b. /\ \A c \in own : c.subject = subject
        /\ rows = <<>> => \A l, m \in loads : l = m
        /\ rows # <<>> => \A l \in loads : l.from # None
    BY DEF Commented
  <2>c. ASSUME loads' \subseteq loads, subject' = subject, rows' = rows,
               \A c \in own' : c.subject = subject
        PROVE  Commented'
    BY <2>a, <2>b, <2>c DEF Commented
  <2>1. ASSUME NEW s \in Subjects, Select(s)
        PROVE  Commented'
    BY <2>a, <2>1 DEF Select, Commented
  <2>2. ASSUME More
        PROVE  Commented'
    <3> DEFINE m == [First(subject) EXCEPT !.from = cursor]
    <3>1. /\ loads' = Overtaken \cup {m} /\ subject' = subject /\ own' = own
          /\ rows' = rows /\ rows # <<>> /\ cursor # None
      BY <2>2 DEF More, Send, shownVars, listVars
    <3>2. m.from # None
      BY <3>1 DEF First
    <3>3. \A l \in Overtaken : l.from # None
      BY <2>b, <3>1, OvertakenFacts
    <3> HIDE DEF m
    <3> QED
      BY <2>a, <2>b, <3>1, <3>2, <3>3 DEF Commented
  <2>3. ASSUME \/ Close \/ Reload
               \/ \E v \in Candidates : Compare(v)
               \/ \E l \in loads : Restart(l)
        PROVE  FALSE
    BY <2>a, <2>3 DEF Close, Reload, Compare, Restart, Foreign
  <2>4. ASSUME NEW l \in loads, Ignore(l) \/ Fails(l)
        PROVE  Commented'
    <3>1. /\ loads' \subseteq loads /\ subject' = subject /\ own' = own
          /\ rows' = rows \/ (rows' = <<>> /\ l.from = None)
      BY <2>4 DEF Ignore, Fails, shownVars, listVars
    <3> QED
      BY <2>b, <2>c, <3>1
  <2>5. CASE OwnWrite
    BY <2>b, <2>c, <2>5, OwnWriteKeeps
  <2>6. CASE ServerChanges \/ UNCHANGED vars
    BY <2>b, <2>c, <2>6 DEF ServerChanges, vars, shownVars, listVars
  <2>7. ASSUME NEW l \in loads, NEW at \in Nat, AddsRows(l, at)
        PROVE  Commented'
    <3>1. /\ loads' = loads \ {l} /\ subject' = subject /\ rows' # <<>>
          /\ own' \subseteq own
      BY <2>7 DEF AddsRows
    <3>2. \A m \in loads' : m.from # None
      BY <2>b, <3>1
    <3> QED
      BY <2>a, <2>b, <3>1, <3>2 DEF Commented
  <2>8. ASSUME NEW l \in loads, NEW at \in Nat, AddsPart(l, at)
        PROVE  FALSE
    BY <2>a, <2>8 DEF AddsPart
  <2> QED
    BY <2>1, <2>2, <2>3, <2>4, <2>5, <2>6, <2>7, <2>8, StepKinds
       DEF Unanswered
<1> QED
  BY <1>1, <1>2

-----------------------------------------------------------------------------
(***************************************************************************)
(* The invariant, and what it gives.                                       *)
(***************************************************************************)
LEMMA InitVInv == Init => VInv
<1> SUFFICES ASSUME Init PROVE VInv
  OBVIOUS
<1>1. /\ PanelShape(panel) /\ 1 \in Subjects /\ 0 \in Times
      /\ \A p \in Parts : slot[p] = None
      /\ rows = <<>> /\ Len(rows) = 0 /\ cursor = None /\ reviewed = None
  BY PanelShapes, Ranges, ViewsAssumption DEF Init, Blank, Times
<1>2. /\ First(1).subject = 1 /\ First(1).part = 1 /\ First(1).from = None
      /\ First(1).version = 0 /\ First(1).current
  BY DEF First
<1>3. /\ loads = {} \/ loads = {First(1)}
      /\ subject = 1
      /\ ~IsDialog => selected = 1
  BY DEF Init
<1>4. TypeOK
  <2>1. First(1) \in Load
    BY <1>1 DEF First, Load, Parts, Maybe, Init
  <2>2. /\ panel \in Panels /\ subject \in Subjects
        /\ selected \in Maybe(Subjects) /\ loads \subseteq Load
        /\ server \in Times /\ loading \in BOOLEAN /\ failed \in BOOLEAN
        /\ own \subseteq Written /\ writing \subseteq Times
    BY <1>1, <2>1 DEF Init, Maybe
  <2>3. /\ slot \in [Parts -> Maybe(Piece)] /\ rows \in Seq(Row)
        /\ cursor \in Maybe(Cursor)
        /\ reviewed \in Maybe(Subjects \X Candidates)
    BY <1>1 DEF Init, Maybe, Blank
  <2> QED
    BY <2>2, <2>3 DEF TypeOK
<1>5. NamedAtOnce
  BY <1>3, <1>4, SafePages DEF NamedAtOnce
<1>6. Layout /\ Rebuilt /\ ShownPast /\ Listing /\ Settled
  BY <1>1, <1>2, <1>3
     DEF Layout, Rebuilt, ShownPast, Listing, Settled
<1>7. OneCurrent /\ Compared /\ Commented
  BY <1>1, <1>2, <1>3 DEF OneCurrent, Compared, Commented, Init
<1> QED
  BY <1>4, <1>5, <1>6, <1>7 DEF VInv

LEMMA VInvStep == VInv /\ [Next]_vars => VInv'
<1> SUFFICES ASSUME VInv, [Next]_vars PROVE VInv'
  OBVIOUS
<1>1. OneCurrent'
  BY OneCurrentStep
<1>2. TypeOK' /\ NamedAtOnce' /\ Layout' /\ Rebuilt'
  BY TypeStep, NamedStep, LayoutStep, RebuiltStep DEF VInv
<1>3. ShownPast' /\ Settled' /\ Listing' /\ Compared' /\ Commented'
  BY PastStep, SettledStep, ListingStep, ComparedStep, CommentedStep DEF VInv
<1> QED
  BY <1>1, <1>2, <1>3 DEF VInv

LEMMA VHolds == Spec => []VInv
BY InitVInv, VInvStep, PTL DEF Spec

\* The state of a page has the types of its hooks (useState in the pages of
\* web/src), whatever was opened and whichever answers came.
THEOREM ViewsTypeCorrect == Spec => []TypeOK
<1>1. VInv => TypeOK
  BY DEF VInv
<1> QED
  BY <1>1, VHolds, PTL

\* A page that drops overtaken answers (Tasks.tsx requestGen, the live flags)
\* or is rebuilt for another subject (key=) shows, once nothing is under way
\* and no error is shown, only what it says it shows.
THEOREM SettledShowsSelectedHolds == Spec => []SettledShowsSelected
<1>1. VInv => SettledShowsSelected
  <2> SUFFICES ASSUME VInv, Safe, loads = {}, ~failed
               PROVE  /\ \A p \in Parts : slot[p] # None =>
                           slot[p].subject = selected
                      /\ \A i \in DOMAIN rows : rows[i].subject = selected
                      /\ \A c \in own : c.subject = selected
    BY DEF SettledShowsSelected
  <2>1. selected = subject /\ DOMAIN rows = 1..Len(rows)
    BY DEF VInv, NamedAtOnce, TypeOK
  <2> QED
    BY <2>1 DEF VInv, Safe, Settled, Rebuilt, Commented
<1> QED
  BY <1>1, VHolds, PTL

\* The rows of a list that guards its answers are the first pages of one
\* listing, without a gap or a page twice: also when the button for the next
\* page is used while another filter loads (Tasks.tsx, INVALID_CURSOR).
THEOREM OneListingHolds == Spec => []OneListing
<1>1. VInv => OneListing
  <2> SUFFICES ASSUME VInv PROVE OneListing
    OBVIOUS
  <2>1. DOMAIN rows = 1..Len(rows)
    BY DEF VInv, TypeOK
  <2> QED
    BY <2>1 DEF VInv, Listing, OneListing
<1> QED
  BY <1>1, VHolds, PTL

\* The version for which Contexts.tsx shows the publish form is the one whose
\* comparison is on the screen, however openings and reviews overlapped.
THEOREM PublishedIsComparedHolds == Spec => []PublishedIsCompared
<1>1. VInv => PublishedIsCompared
  BY DEF VInv, Compared, PublishedIsCompared, CanPublish
<1> QED
  BY <1>1, VHolds, PTL

\* A page that drops overtaken answers never goes back to an older state of
\* what it shows: the one answer it takes began after what is shown was read.
\* What TaskComments has put into its list itself stays there from the moment
\* the first page has come; until then that page may replace it
\* (TaskComments.tsx, setItems).
THEOREM ViewsNeverOlder == Spec => NeverOlder
<1>1. VInv /\ [Next]_vars =>
        (panel.guarded =>
            /\ \A p \in Parts :
                slot[p] # None /\ slot'[p] # None
                    /\ slot[p].subject = slot'[p].subject
                => slot[p].at <= slot'[p].at
            /\ rows # <<>> /\ rows' # <<>>
                    /\ rows[1].subject = rows'[1].subject
                => rows[1].at <= rows'[1].at)
  <2> SUFFICES ASSUME VInv, [Next]_vars, panel.guarded
               PROVE  /\ \A p \in Parts : slot[p] # None /\ slot'[p] # None
                           => slot[p].at <= slot'[p].at
                      /\ rows # <<>> /\ rows' # <<>>
                           => rows[1].at <= rows'[1].at
    OBVIOUS
  <2>a. TypeOK /\ OneCurrent /\ rows \in Seq(Row) /\ Len(rows) \in Nat
    BY DEF VInv, TypeOK
  <2>b. /\ \A p \in Parts : slot[p] # None => slot[p].at \in Nat
        /\ rows # <<>> => rows[1].at \in Nat /\ 1 \in 1..Len(rows)
        /\ \A l \in loads : l.begun \in Nat
        /\ server \in Nat
    <3>1. \A p \in Parts : slot[p] # None => slot[p].at \in Times
      BY <2>a DEF TypeOK, Maybe, Piece
    <3>2. rows # <<>> => rows[1] \in Row /\ 1 \in 1..Len(rows)
      BY <2>a DEF TypeOK
    <3>3. \A l \in loads : l.begun \in Times
      BY <2>a DEF TypeOK, Load
    <3> QED
      BY <2>a, <3>1, <3>2, <3>3, Ranges DEF TypeOK, Row
  <2>1. CASE Unanswered
    <3>1. Fewer
      BY <2>1, <2>a, FewerShown
    <3> QED
      BY <2>b, <3>1 DEF Fewer
  <2>2. ASSUME NEW l \in loads, NEW at \in Nat, ~Dropped(l), AddsRows(l, at)
        PROVE  /\ slot' = slot
               /\ rows # <<>> => rows[1].at <= rows'[1].at
    <3>1. l.current /\ at \in l.begun..server
      BY <2>a, <2>2, Awaited DEF AddsRows
    <3>2. rows # <<>> => rows[1].at <= at
      BY <2>a, <2>b, <3>1 DEF OneCurrent
    <3>3. CASE l.from = None
      <4>1. Len(rows') = 1 /\ rows'[Len(rows')].at = at
        BY <2>2, <3>3 DEF AddsRows
      <4> QED
        BY <2>2, <3>2, <4>1 DEF AddsRows
    <3>4. CASE l.from # None
      BY <2>2, <2>b, <3>4 DEF AddsRows
    <3> QED
      BY <3>3, <3>4
  <2>3. ASSUME NEW l \in loads, NEW at \in Nat, ~Dropped(l), AddsPart(l, at)
        PROVE  /\ rows' = rows
               /\ \A p \in Parts : slot[p] # None /\ slot'[p] # None
                    => slot[p].at <= slot'[p].at
    <3>1. l.current /\ l.part = 1 /\ at \in l.begun..server
      BY <2>a, <2>3, Awaited DEF AddsPart
    <3>2. \A p \in Parts : slot[p] # None => slot[p].at <= at
      BY <2>a, <2>b, <3>1 DEF OneCurrent
    <3> QED
      BY <2>3, <2>b, <3>2 DEF AddsPart
  <2> QED
    BY <2>1, <2>2, <2>3, <2>a, <2>b, StepKinds
<1>2. VInv /\ [Next]_vars =>
        (panel.writes /\ rows # <<>> /\ rows' # <<>> => own \subseteq own')
  <2> SUFFICES ASSUME VInv, [Next]_vars, panel.writes, rows # <<>>, rows' # <<>>
               PROVE  own \subseteq own'
    OBVIOUS
  <2>1. /\ TypeOK /\ panel.keyed /\ \A l \in loads : l.from # None
    BY WritesPage DEF VInv, Commented
  <2>2. CASE Unanswered
    BY <2>1, <2>2, OwnWriteKeeps
       DEF Unanswered, Select, Close, Reload, More, Compare, Ignore, Restart,
           Fails, ServerChanges, vars, shownVars, listVars
  <2>3. ASSUME NEW l \in loads, NEW at \in Nat,
               AddsRows(l, at) \/ AddsPart(l, at)
        PROVE  own \subseteq own'
    BY <2>1, <2>3 DEF AddsRows, AddsPart
  <2> QED
    BY <2>1, <2>2, <2>3, StepKinds
<1>3. VInv /\ [Next]_vars =>
        [ /\ panel.guarded =>
               /\ \A p \in Parts :
                   slot[p] # None /\ slot'[p] # None
                       /\ slot[p].subject = slot'[p].subject
                   => slot[p].at <= slot'[p].at
               /\ rows # <<>> /\ rows' # <<>>
                       /\ rows[1].subject = rows'[1].subject
                   => rows[1].at <= rows'[1].at
          /\ panel.writes /\ rows # <<>> /\ rows' # <<>>
               => own \subseteq own' ]_vars
  BY <1>1, <1>2, Zenon
<1> QED
  BY <1>3, VHolds, PTL DEF Spec, NeverOlder
=============================================================================
