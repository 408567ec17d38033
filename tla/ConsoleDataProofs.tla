-------------------------- MODULE ConsoleDataProofs --------------------------
(***************************************************************************)
(* ConsoleData keeps its types, shows what belongs to the selected project *)
(* and the person signed in, misses no change of a task, and never goes    *)
(* back to an older state, for any people, projects, loads and forms.      *)
(***************************************************************************)
EXTENDS ConsoleData, WellFoundedInduction, TLAPS

(***************************************************************************)
(* The strengthening.                                                      *)
(***************************************************************************)
\* One load counts, and it is for the project and person on the screen.
OneCurrent == \A k, l \in loads : k.current /\ l.current => k = l
Aimed ==
  ~strayed => \A l \in loads :
    l.current => l.project = projectID /\ l.person = me

\* A page has a last check when it is loaded, and a check under way that
\* counts goes back from there.
CheckedWhenLoaded == loaded <=> lastTaskCheck # None
GoesBack ==
  \A l \in loads : l.current /\ l.kind = "changes" =>
    l.since = lastTaskCheck /\ l.since # None

\* What is shown was committed, and before the load that counts began; and
\* no task is shown archived.
ShownCommitted ==
  loaded /\ ~strayed =>
    /\ projectID \in Projects
    /\ data.tasks \subseteq {projectID} \X (1..world[projectID].task)
    /\ \A c \in data.tasks : ~History[projectID][c[2]].archived
    /\ data.rest <= world[projectID].rest
ShownBeforeLoad ==
  loaded /\ ~strayed => \A l \in loads : l.current =>
    /\ data.tasks \subseteq {projectID} \X (1..l.begun)
    /\ data.rest <= l.rest

\* The list of tasks is shown as of a moment that the next check goes back
\* to or beyond, and that the load that counts began after.
Lists(p, shown, n) ==
  /\ {p} \X Rows(p, n) \subseteq shown
  /\ \A c \in shown :
       c[2] \in Rows(p, n) \/
         \E k \in Latest(p, n) :
           k > c[2] /\ SameTask(p, c[2], k) /\ History[p][k].archived
Listed ==
  loaded /\ ~strayed /\ ~apart =>
    \E n \in 0..world[projectID].task :
      /\ Lists(projectID, data.tasks, n)
      /\ lastTaskCheck <= n
      /\ \A l \in loads : l.current => n <= l.begun

Loading == OneCurrent /\ Aimed /\ GoesBack /\ ShownBeforeLoad /\ Listed
Showing == CheckedWhenLoaded /\ ShownIsOurs /\ ShownCommitted
DInv == TypeOK /\ Loading /\ Showing

(***************************************************************************)
(* Lists of tasks.                                                         *)
(***************************************************************************)
\* Every task changed has a latest change.
LEMMA LatestOf ==
  ASSUME NEW p, NEW n \in Nat, NEW m \in 1..n
  PROVE  \E k \in Latest(p, n) : m <= k /\ SameTask(p, m, k)
<1> DEFINE Less == {ss \in Nat \X Nat : ss[1] < ss[2]}
           T == {j \in 0..n : m <= n - j /\ SameTask(p, m, n - j)}
<1>1. IsWellFoundedOn(Less, Nat)
  BY NatLessThanWellFounded DEF OpToRel
<1>2. T \subseteq Nat /\ T # {}
  <2>1. n - m \in 0..n /\ n - (n - m) = m
    OBVIOUS
  <2>2. SameTask(p, m, m)
    BY DEF SameTask
  <2>3. n - m \in T /\ T \subseteq Nat
    BY <2>1, <2>2
  <2> HIDE DEF T
  <2>4. QED
    BY <2>3
<1>3. PICK j \in T : \A i \in T : <<i, j>> \notin Less
  <2> HIDE DEF Less, T
  <2> QED
    BY <1>1, <1>2, WFMin
<1>4. n - j \in 1..n /\ m <= n - j /\ SameTask(p, m, n - j)
  OBVIOUS
<1>5. ASSUME NEW k \in (n - j + 1)..n
      PROVE  ~SameTask(p, n - j, k)
  <2>1. SUFFICES ASSUME SameTask(p, n - j, k) PROVE FALSE
    OBVIOUS
  <2>2. SameTask(p, m, k)
    BY <1>4, <2>1 DEF SameTask
  <2>3. n - k \in 0..n /\ n - (n - k) = k /\ m <= k /\ n - k < j
        /\ j \in Nat
    BY <1>4
  <2>4. n - k \in T
    BY <2>2, <2>3
  <2>5. <<n - k, j>> \in Less
    BY <2>3
  <2> HIDE DEF Less, T
  <2>6. QED
    BY <1>3, <2>4, <2>5
<1>6. QED
  BY <1>4, <1>5 DEF Latest

\* Of a list and what a check is answered, nothing is lost: the result is
\* the list at the moment the check was answered.
LEMMA MergedLists ==
  ASSUME NEW p, NEW shown, NEW since \in Nat, NEW before \in Nat,
         NEW tasks \in Nat, since <= before, before <= tasks,
         shown \subseteq {p} \X (1..before), Lists(p, shown, before)
  PROVE  Lists(p, Merged(shown, {p} \X {m \in Rows(p, tasks) : m > since}),
               tasks)
<1> DEFINE new == {p} \X {m \in Rows(p, tasks) : m > since}
           next == Merged(shown, new)
<1>1. ASSUME NEW m \in Rows(p, tasks)
      PROVE  <<p, m>> \in next
  <2>1. CASE m > since
    BY <2>1 DEF Merged
  <2>2. CASE ~(m > since)
    <3>1. m \in 1..tasks /\ m <= since
      BY <2>2 DEF Rows, Latest
    <3>2. m \in Rows(p, before)
      BY <3>1 DEF Rows, Latest
    <3>3. <<p, m>> \in shown
      BY <3>2 DEF Lists
    <3>4. ASSUME NEW d \in new PROVE ~SameTask(p, m, d[2])
      <4>1. d[2] \in (m + 1)..tasks
        BY <3>1, <3>4 DEF Rows, Latest
      <4>2. QED
        BY <4>1 DEF Rows, Latest
    <3>5. QED
      BY <3>3, <3>4 DEF Merged
  <2>3. QED
    BY <2>1, <2>2
<1>2. ASSUME NEW c \in next
      PROVE  c[2] \in Rows(p, tasks) \/
               \E k \in Latest(p, tasks) :
                 k > c[2] /\ SameTask(p, c[2], k) /\ History[p][k].archived
  <2>1. CASE c \in new
    BY <2>1
  <2>2. CASE c \notin new
    <3>1. /\ c \in shown
          /\ \A d \in new : d[1] = c[1] => ~SameTask(c[1], c[2], d[2])
      BY <2>2 DEF Merged
    <3>2. c[1] = p /\ c[2] \in 1..before /\ c[2] \in 1..tasks
      BY <3>1
    <3>3. PICK k \in Latest(p, tasks) : c[2] <= k /\ SameTask(p, c[2], k)
      BY <3>2, LatestOf
    <3>4. k \in 1..tasks
      BY DEF Latest
    <3>5. CASE History[p][k].archived /\ k > c[2]
      BY <3>3, <3>5
    <3>6. CASE ~History[p][k].archived
      <4>1. k \in Rows(p, tasks)
        BY <3>6 DEF Rows
      <4>2. ~(k > since)
        <5>1. SUFFICES ASSUME k > since PROVE FALSE
          OBVIOUS
        <5>2. <<p, k>> \in new
          BY <4>1, <5>1
        <5>3. <<p, k>>[1] = p /\ <<p, k>>[2] = k
          OBVIOUS
        <5> HIDE DEF new
        <5>4. QED
          BY <3>1, <3>2, <3>3, <5>2, <5>3
      <4>3. k \in 1..before /\ k \in Latest(p, before)
        BY <3>4, <4>2 DEF Latest
      <4>4. CASE c[2] \in Rows(p, before)
        <5>1. ~(k \in (c[2] + 1)..before)
          BY <3>3, <4>4 DEF Rows, Latest
        <5>2. k = c[2]
          BY <3>2, <3>3, <4>3, <5>1
        <5>3. QED
          BY <4>1, <5>2
      <4>5. ASSUME NEW i \in Latest(p, before), i > c[2],
                   SameTask(p, c[2], i), History[p][i].archived
            PROVE  FALSE
        <5>1. SameTask(p, i, k) /\ SameTask(p, k, i)
          BY <3>3, <4>5 DEF SameTask
        <5>2. i \in 1..before
          BY DEF Latest
        <5>3. ~(k \in (i + 1)..before) /\ ~(i \in (k + 1)..before)
          BY <4>3, <5>1 DEF Latest
        <5>4. i = k
          BY <4>3, <5>2, <5>3
        <5>5. QED
          BY <3>6, <4>5, <5>4
      <4>6. QED
        BY <3>1, <4>4, <4>5 DEF Lists
    <3>7. CASE History[p][k].archived /\ ~(k > c[2])
      <4>1. k = c[2]
        BY <3>2, <3>3, <3>4, <3>7
      <4>2. ~(c[2] \in Rows(p, before))
        BY <3>7, <4>1 DEF Rows
      <4>3. PICK i \in Latest(p, before) :
              i > c[2] /\ SameTask(p, c[2], i)
        BY <3>1, <4>2 DEF Lists
      <4>4. i \in (k + 1)..tasks
        BY <3>2, <4>1, <4>3 DEF Latest
      <4>5. QED
        BY <4>1, <4>3, <4>4 DEF Latest
    <3>8. QED
      BY <3>5, <3>6, <3>7
  <2>3. QED
    BY <2>1, <2>2
<1>3. QED
  BY <1>1, <1>2 DEF Lists

\* What the answer of a full load or of a check takes away was overtaken, and
\* what it brings was not.
LEMMA RowsReplaced ==
  ASSUME NEW p, NEW begun \in Nat, NEW tasks \in Nat, NEW now \in Nat,
         begun <= tasks, tasks <= now,
         NEW shown, shown \subseteq {p} \X (1..begun),
         \A c \in shown : ~History[p][c[2]].archived,
         NEW more, more \subseteq Rows(p, tasks),
         NEW next,
         \/ next = {p} \X Rows(p, tasks)
         \/ next = Merged(shown, {p} \X more)
  PROVE  /\ \A c \in shown \ next : Overtaken(c, now)
         /\ \A c \in next \ shown, d \in shown : ~Overtaken(c, d[2])
<1>1. ASSUME NEW c \in shown, c \notin next
      PROVE  Overtaken(c, now)
  <2>1. c = <<p, c[2]>> /\ c[2] \in 1..begun /\ c[2] \in 1..tasks
    BY <1>1
  <2>2. PICK k \in Latest(p, tasks) :
          SameTask(p, c[2], k) /\ k # c[2] /\ k \in 1..tasks
    <3>1. CASE next = {p} \X Rows(p, tasks)
      <4>1. PICK k \in Latest(p, tasks) : SameTask(p, c[2], k)
        BY <2>1, LatestOf
      <4>2. k # c[2]
        BY <1>1, <2>1, <3>1 DEF Rows
      <4>3. QED
        BY <4>1, <4>2 DEF Latest
    <3>2. CASE next = Merged(shown, {p} \X more)
      <4>1. PICK d \in {p} \X more : SameTask(c[1], c[2], d[2])
        BY <1>1, <3>2 DEF Merged
      <4>2. d # c
        BY <1>1, <3>2 DEF Merged
      <4>3. d = <<p, d[2]>> /\ d[2] \in Latest(p, tasks)
        BY DEF Rows
      <4>4. QED
        BY <2>1, <4>1, <4>2, <4>3 DEF Latest
    <3>3. QED
      BY <3>1, <3>2
  <2>3. ~(c[2] \in (k + 1)..tasks)
    BY <2>2 DEF Latest, SameTask
  <2>4. k \in (c[2] + 1)..now
    BY <2>1, <2>2, <2>3
  <2>5. QED
    BY <2>1, <2>2, <2>4 DEF Overtaken
<1>2. ASSUME NEW c \in next, c \notin shown, NEW d \in shown
      PROVE  ~Overtaken(c, d[2])
  <2>1. c \in {p} \X Rows(p, tasks)
    BY <1>2 DEF Merged
  <2>2. c[1] = p /\ c[2] \in Latest(p, tasks) /\ d[2] \in 1..begun
    BY <2>1 DEF Rows
  <2>3. \A k \in (c[2] + 1)..d[2] : k \in (c[2] + 1)..tasks
    BY <2>2 DEF Latest
  <2>4. QED
    BY <2>2, <2>3 DEF Overtaken, Latest
<1>3. QED
  BY <1>1, <1>2

(***************************************************************************)
(* Loads that start.                                                       *)
(***************************************************************************)
\* Overtaken loads are loads, and none of them counts.
LEMMA DiscardedLoads ==
  TypeOK => Discarded \subseteq Load /\ \A l \in Discarded : ~l.current
<1> SUFFICES ASSUME TypeOK, NEW l \in loads
             PROVE  LET d == [l EXCEPT !.current = FALSE, !.begun = 0,
                                       !.rest = 0]
                    IN  d \in Load /\ ~d.current
  BY DEF Discarded
<1>1. l \in Load
  BY DEF TypeOK
<1>2. 0 \in 0..MaxTask /\ 0 \in 0..MaxRest
  BY DataAssumption
<1>3. QED
  BY <1>1, <1>2 DEF Load

\* The load a step starts is the only one that counts.
LEMMA StartedLoads ==
  ASSUME TypeOK, NEW kind \in {"full", "changes"}, NEW p \in Projects,
         NEW a \in People, NEW since \in Maybe(0..MaxTask),
         Start(kind, p, a, since)
  PROVE  /\ loads' \subseteq Load
         /\ \A l \in loads' : l.current =>
              /\ l.kind = kind /\ l.project = p /\ l.person = a
              /\ l.since = since
              /\ l.begun = world[p].task /\ l.rest = world[p].rest
         /\ OneCurrent'
<1> DEFINE new == [kind |-> kind, current |-> TRUE, project |-> p,
                   person |-> a, since |-> since,
                   begun |-> world[p].task, rest |-> world[p].rest]
<1>1. world[p].task \in 0..MaxTask /\ world[p].rest \in 0..MaxRest
  BY DEF TypeOK
<1>2. new \in Load
  BY <1>1 DEF Load
<1>3. loads' = Discarded \cup {new}
  BY DEF Start
<1>4. \A l \in loads' : l.current => l = new
  BY <1>3, DiscardedLoads
<1>5. /\ new.kind = kind /\ new.project = p /\ new.person = a
      /\ new.since = since
      /\ new.begun = world[p].task /\ new.rest = world[p].rest
  OBVIOUS
<1>6. loads' \subseteq Load
  BY <1>2, <1>3, DiscardedLoads
<1> HIDE DEF new
<1>7. OneCurrent'
  BY <1>4 DEF OneCurrent
<1>8. QED
  BY <1>4, <1>5, <1>6, <1>7

\* After the effect nothing counts but a full load for the new selection.
LEMMA EffectLoads ==
  ASSUME TypeOK, NEW p \in Maybe(Projects), NEW a \in Maybe(People),
         LoadEffect(p, a)
  PROVE  /\ loads' \subseteq Load
         /\ \A l \in loads' : l.current =>
              l.kind = "full" /\ l.project = p /\ l.person = a
         /\ OneCurrent'
         /\ loaded' = FALSE /\ lastTaskCheck' = None /\ strayed' = FALSE
         /\ apart' = FALSE /\ dataProjectID' = dataProjectID
<1>1. CASE p # None /\ a # None
  <2>1. p \in Projects /\ a \in People /\ None \in Maybe(0..MaxTask)
    BY <1>1 DEF Maybe
  <2>2. Start("full", p, a, None)
    BY <1>1 DEF LoadEffect
  <2>3. QED
    BY <2>1, <2>2, StartedLoads DEF LoadEffect
<1>2. CASE ~(p # None /\ a # None)
  <2>1. loads' = Discarded
    BY <1>2 DEF LoadEffect
  <2>2. QED
    BY <2>1, DiscardedLoads DEF LoadEffect, OneCurrent
<1>3. QED
  BY <1>1, <1>2

(***************************************************************************)
(* What the three sorts of steps keep.                                     *)
(***************************************************************************)
\* A page that waits: nothing is claimed of what it shows.
LEMMA Waiting ==
  ASSUME loaded' = FALSE, lastTaskCheck' = None, OneCurrent',
         \A l \in loads' : l.current =>
           l.kind = "full" /\ l.project = projectID' /\ l.person = me'
  PROVE  Loading' /\ Showing'
BY DEF Loading, Showing, OneCurrent, Aimed, GoesBack, ShownBeforeLoad,
       Listed, CheckedWhenLoaded, ShownIsOurs, ShownCommitted

\* What is on the screen, and beside it.
screen == <<world, projectID, me, shownVars>>

\* Steps that leave the screen alone keep what is claimed of it.
LEMMA ScreenKept ==
  ASSUME Showing, UNCHANGED screen, strayed' = FALSE => strayed = FALSE,
         strayed \in BOOLEAN, strayed' \in BOOLEAN
  PROVE  Showing'
BY DEF Showing, screen, shownVars, CheckedWhenLoaded, ShownIsOurs,
       ShownCommitted

\* Loads that end without effect.
LEMMA LoadsEnd ==
  ASSUME Loading, Showing, UNCHANGED <<screen, strayed>>,
         loads' \subseteq loads
  PROVE  Loading' /\ Showing'
<1>1. Showing'
  BY DEF Showing, screen, shownVars, CheckedWhenLoaded, ShownIsOurs,
         ShownCommitted
<1>2. OneCurrent' /\ Aimed' /\ GoesBack' /\ ShownBeforeLoad'
  BY DEF Loading, screen, shownVars, OneCurrent, Aimed, GoesBack,
         ShownBeforeLoad
<1>3. Listed'
  <2>1. SUFFICES ASSUME loaded', ~strayed', ~apart'
                 PROVE  \E n \in 0..world'[projectID'].task :
                          /\ Lists(projectID', data'.tasks, n)
                          /\ lastTaskCheck' <= n
                          /\ \A l \in loads' : l.current => n <= l.begun
    BY DEF Listed
  <2>2. QED
    BY <2>1 DEF Loading, Listed, screen, shownVars
<1>4. QED
  BY <1>1, <1>2, <1>3 DEF Loading

\* A load that starts for the selection, or for a form left behind.
LEMMA LoadStarts ==
  ASSUME TypeOK, Loading, Showing, UNCHANGED screen,
         NEW kind \in {"full", "changes"}, NEW p \in Projects,
         NEW a \in People, NEW since \in Maybe(0..MaxTask),
         Start(kind, p, a, since),
         kind = "changes" => since = lastTaskCheck /\ since # None,
         strayed' \in BOOLEAN,
         ~strayed' => ~strayed /\ p = projectID /\ a = me
  PROVE  Loading' /\ Showing'
<1>1. /\ \A l \in loads' : l.current =>
           /\ l.kind = kind /\ l.project = p /\ l.person = a
           /\ l.since = since
           /\ l.begun = world[p].task /\ l.rest = world[p].rest
      /\ OneCurrent'
  BY StartedLoads
<1>2. Aimed'
  BY <1>1 DEF Aimed, screen
<1>3. GoesBack'
  BY <1>1 DEF GoesBack, screen, shownVars
<1>4. ShownBeforeLoad'
  <2> SUFFICES ASSUME loaded', ~strayed', NEW l \in loads', l.current
               PROVE  /\ data'.tasks \subseteq
                           {projectID'} \X (1..l.begun)
                      /\ data'.rest <= l.rest
    BY DEF ShownBeforeLoad
  <2>1. /\ data.tasks \subseteq {projectID} \X (1..world[projectID].task)
        /\ data.rest <= world[projectID].rest
    BY DEF Showing, ShownCommitted, screen, shownVars
  <2>2. l.begun = world[projectID].task /\ l.rest = world[projectID].rest
    BY <1>1
  <2>3. QED
    BY <2>1, <2>2 DEF screen, shownVars
<1>5. Showing'
  BY ScreenKept DEF TypeOK
<1>6. Listed'
  <2>1. SUFFICES ASSUME loaded', ~strayed', ~apart'
                 PROVE  \E n \in 0..world'[projectID'].task :
                          /\ Lists(projectID', data'.tasks, n)
                          /\ lastTaskCheck' <= n
                          /\ \A l \in loads' : l.current => n <= l.begun
    BY DEF Listed
  <2>2. PICK n \in 0..world[projectID].task :
          Lists(projectID, data.tasks, n) /\ lastTaskCheck <= n
    BY <2>1 DEF Loading, Listed, screen, shownVars
  <2>3. \A l \in loads' : l.current => n <= l.begun
    BY <1>1, <2>1
  <2>4. QED
    BY <2>2, <2>3 DEF screen, shownVars
<1>7. QED
  BY <1>1, <1>2, <1>3, <1>4, <1>5, <1>6 DEF Loading

(***************************************************************************)
(* Answers.                                                                *)
(***************************************************************************)
\* What is known of the numbers in an answer.
LEMMA AnswerNumbers ==
  ASSUME TypeOK, NEW l \in loads,
         NEW tasks \in l.begun..world[l.project].task,
         NEW bench \in l.begun..world[l.project].task,
         NEW rest \in l.rest..world[l.project].rest,
         NEW back \in 0..bench
  PROVE  /\ l \in Load
         /\ tasks \in 0..MaxTask /\ back \in 0..MaxTask
         /\ rest \in 0..MaxRest
         /\ l.begun \in 0..MaxTask /\ l.rest \in 0..MaxRest
         /\ l.begun <= tasks /\ tasks <= world[l.project].task
         /\ l.rest <= rest /\ rest <= world[l.project].rest
<1>1. l \in Load
  BY DEF TypeOK
<1>2. l.begun \in 0..MaxTask /\ l.rest \in 0..MaxRest
      /\ l.project \in Projects
  BY <1>1 DEF Load
<1>3. /\ world[l.project].task \in 0..MaxTask
      /\ world[l.project].rest \in 0..MaxRest
  BY <1>2 DEF TypeOK
<1>4. QED
  BY <1>1, <1>2, <1>3, DataAssumption

\* An answer that counts leaves a loaded page. If no form has strayed it is
\* of the selected project and person; the tasks are those of the moment they
\* were read, or for a check what it merges.
LEMMA Applied ==
  ASSUME TypeOK, Loading, Showing, NEW l \in loads, l.current,
         NEW tasks \in l.begun..world[l.project].task,
         NEW bench \in l.begun..world[l.project].task,
         NEW rest \in l.rest..world[l.project].rest,
         NEW back \in 0..bench,
         Apply(l, tasks, bench, rest, back)
  PROVE  /\ loaded' = TRUE /\ lastTaskCheck' = back
         /\ l.kind = "full" =>
              /\ data'.tasks = {l.project} \X Rows(l.project, tasks)
              /\ ~apart' => back <= tasks
         /\ l.kind # "full" =>
              /\ loaded = TRUE
              /\ data'.tasks = Merged(data.tasks, {l.project} \X
                   {m \in Rows(l.project, tasks) : m > lastTaskCheck})
              /\ lastTaskCheck \in Nat
              /\ ~apart' => ~apart /\ back <= tasks
         /\ ~strayed =>
              /\ dataProjectID' = projectID /\ l.project = projectID
              /\ data'.person = me
              /\ data'.rest = IF l.kind = "full" THEN rest ELSE data.rest
<1>1. l \in Load /\ (~(tasks < back) => back <= tasks)
  BY AnswerNumbers
<1>2. CASE l.kind = "full"
  <2>1. data' = [person |-> l.person, rest |-> rest,
                 tasks |-> {l.project} \X Rows(l.project, tasks)]
        /\ dataProjectID' = l.project /\ loaded' = TRUE
        /\ lastTaskCheck' = back
    BY <1>2 DEF Apply
  <2>2. ~apart' => ~(tasks < back)
    BY <1>2, Zenon DEF Apply
  <2>3. QED
    BY <1>1, <1>2, <2>1, <2>2 DEF Loading, Aimed
<1>3. CASE l.kind = "changes"
  <2> DEFINE new ==
        {l.project} \X {m \in Rows(l.project, tasks) : m > l.since}
  <2>1. data' = [data EXCEPT !.tasks = Merged(data.tasks, new)]
        /\ dataProjectID' = dataProjectID /\ loaded' = loaded
        /\ lastTaskCheck' = back
    BY <1>3 DEF Apply
  <2>0. ~apart' => ~apart /\ ~(tasks < back)
    <3>1. l.kind # "full"
      BY <1>3
    <3>2. apart' = (apart \/ tasks < back)
      BY <3>1, Zenon DEF Apply
    <3>3. QED
      BY <3>2, Zenon
  <2>2. l.since = lastTaskCheck /\ lastTaskCheck # None
    BY <1>3 DEF Loading, GoesBack
  <2>3. loaded = TRUE /\ lastTaskCheck \in Nat
    BY <2>2 DEF Showing, CheckedWhenLoaded, TypeOK, Maybe
  <2>4. data'.person = data.person /\ data'.rest = data.rest
    <3> HIDE DEF new
    <3>1. QED
      BY <2>1 DEF TypeOK
  <2>5. data'.tasks = Merged(data.tasks, new)
    <3> HIDE DEF new
    <3>1. QED
      BY <2>1 DEF TypeOK
  <2>6. ~strayed => /\ dataProjectID = projectID /\ data.person = me
                    /\ l.project = projectID
    BY <2>3 DEF Showing, ShownIsOurs, Loading, Aimed
  <2>7. QED
    BY <1>1, <1>3, <2>1, <2>2, <2>3, <2>4, <2>5, <2>6, <2>0
<1>4. QED
  BY <1>1, <1>2, <1>3 DEF Load

\* The tasks shown after an answer that counts.
LEMMA AnswerLists ==
  ASSUME TypeOK, Loading, Showing, NEW l \in loads, l.current, ~strayed,
         NEW tasks \in l.begun..world[l.project].task,
         NEW bench \in l.begun..world[l.project].task,
         NEW rest \in l.rest..world[l.project].rest,
         NEW back \in 0..bench,
         Apply(l, tasks, bench, rest, back)
  PROVE  /\ data'.tasks \subseteq {projectID} \X (1..tasks)
         /\ \A c \in data'.tasks : ~History[projectID][c[2]].archived
         /\ ~apart' => Lists(projectID, data'.tasks, tasks) /\ back <= tasks
<1>1. /\ l.kind = "full" =>
           /\ data'.tasks = {projectID} \X Rows(projectID, tasks)
           /\ ~apart' => back <= tasks
      /\ l.kind # "full" =>
           /\ loaded = TRUE
           /\ data'.tasks = Merged(data.tasks, {projectID} \X
                {m \in Rows(projectID, tasks) : m > lastTaskCheck})
           /\ lastTaskCheck \in Nat
           /\ ~apart' => ~apart /\ back <= tasks
  BY Applied
<1>2. /\ tasks \in Nat /\ back \in Nat /\ l.begun \in Nat
      /\ l.begun <= tasks
  BY AnswerNumbers
<1>3. ~apart' => back <= tasks
  BY <1>1, <1>2
<1>4. \A m \in Rows(projectID, tasks) :
        m \in 1..tasks /\ ~History[projectID][m].archived
  BY DEF Rows, Latest
<1>5. CASE l.kind = "full"
  <2>1. Lists(projectID, data'.tasks, tasks)
    BY <1>1, <1>5 DEF Lists
  <2>2. QED
    BY <1>1, <1>3, <1>4, <1>5, <2>1
<1>6. CASE l.kind # "full"
  <2>1. /\ data.tasks \subseteq {projectID} \X (1..l.begun)
        /\ \A c \in data.tasks : ~History[projectID][c[2]].archived
    BY <1>1, <1>6
       DEF Loading, ShownBeforeLoad, Showing, ShownCommitted
  <2>2. \A c \in data'.tasks :
          \/ c \in data.tasks
          \/ c \in {projectID} \X Rows(projectID, tasks)
    BY <1>1, <1>6 DEF Merged
  <2>3. /\ data'.tasks \subseteq {projectID} \X (1..tasks)
        /\ \A c \in data'.tasks : ~History[projectID][c[2]].archived
    BY <1>2, <1>4, <2>1, <2>2
  <2>4. ASSUME ~apart'
        PROVE  Lists(projectID, data'.tasks, tasks)
    <3>1. PICK n \in 0..world[projectID].task :
            /\ Lists(projectID, data.tasks, n)
            /\ lastTaskCheck <= n /\ n <= l.begun
      BY <1>1, <1>6, <2>4 DEF Loading, Listed
    <3>2. n \in Nat /\ n <= tasks
      BY <1>2, <3>1
    <3>3. data.tasks \subseteq {projectID} \X (1..n)
      <4>1. SUFFICES ASSUME NEW c \in data.tasks
                     PROVE  c[2] \in 1..n
        BY <2>1
      <4>2. c[2] \in 1..l.begun
        BY <2>1
      <4>3. c[2] \in Rows(projectID, n) \/
              \E k \in Latest(projectID, n) : k > c[2]
        BY <3>1 DEF Lists
      <4>4. QED
        BY <3>2, <4>2, <4>3 DEF Rows, Latest
    <3>4. Lists(projectID, Merged(data.tasks, {projectID} \X
            {m \in Rows(projectID, tasks) : m > lastTaskCheck}), tasks)
      BY <1>1, <1>2, <1>6, <3>1, <3>2, <3>3, MergedLists
    <3>5. QED
      BY <1>1, <1>6, <3>4
  <2>5. QED
    BY <1>3, <2>3, <2>4
<1>7. QED
  BY <1>5, <1>6

\* An answer that counts keeps what is claimed, and takes nothing back.
LEMMA AnswerKept ==
  ASSUME TypeOK, Loading, Showing, NEW l \in loads, l.current,
         loads' = loads \ {l}, UNCHANGED <<world, projectID, me, strayed>>,
         NEW tasks \in l.begun..world[l.project].task,
         NEW bench \in l.begun..world[l.project].task,
         NEW rest \in l.rest..world[l.project].rest,
         NEW back \in 0..bench,
         Apply(l, tasks, bench, rest, back)
  PROVE  /\ Loading' /\ Showing'
         /\ loaded /\ ~strayed => NotBack
<1>1. \A k \in loads' : ~k.current
  BY DEF Loading, OneCurrent
<1>2. /\ loaded' = TRUE /\ lastTaskCheck' = back
      /\ ~strayed =>
           /\ dataProjectID' = projectID /\ l.project = projectID
           /\ data'.person = me
           /\ data'.rest = IF l.kind = "full" THEN rest ELSE data.rest
  BY Applied
<1>3. /\ tasks \in Nat /\ back \in Nat /\ l.begun \in Nat
      /\ l.begun <= tasks /\ tasks <= world[l.project].task
      /\ rest \in Nat /\ l.rest \in Nat
      /\ l.rest <= rest /\ rest <= world[l.project].rest
      /\ l.project \in Projects
  BY AnswerNumbers DEF Load
<1>4. world[l.project].task \in Nat
  BY <1>3 DEF TypeOK
<1>5. ~strayed =>
        /\ data'.tasks \subseteq {projectID} \X (1..tasks)
        /\ \A c \in data'.tasks : ~History[projectID][c[2]].archived
        /\ ~apart' => Lists(projectID, data'.tasks, tasks) /\ back <= tasks
  BY AnswerLists
<1>6. Listed'
  <2>1. SUFFICES ASSUME ~strayed, ~apart'
                 PROVE  \E n \in 0..world[projectID].task :
                          /\ Lists(projectID, data'.tasks, n)
                          /\ lastTaskCheck' <= n
                          /\ \A k \in loads' : k.current => n <= k.begun
    BY DEF Listed
  <2>2. tasks \in 0..world[projectID].task
    BY <1>2, <1>3, <1>4, <2>1
  <2>3. QED
    BY <1>1, <1>2, <1>5, <2>1, <2>2
<1>7. Loading'
  BY <1>1, <1>6 DEF Loading, OneCurrent, Aimed, GoesBack, ShownBeforeLoad
<1>8. CheckedWhenLoaded'
  BY <1>2, <1>3, DataAssumption DEF CheckedWhenLoaded
<1>9. ASSUME ~strayed
      PROVE  /\ projectID \in Projects
             /\ data'.tasks \subseteq
                  {projectID} \X (1..world[projectID].task)
             /\ data'.tasks \subseteq {projectID} \X (1..MaxTask)
             /\ data'.rest <= world[projectID].rest
  <2>1. l.kind # "full" => loaded
    BY Applied
  <2>2. data'.rest <= world[projectID].rest
    BY <1>2, <1>3, <1>9, <2>1 DEF Showing, ShownCommitted
  <2>3. world[projectID].task \in 0..MaxTask
    BY <1>2, <1>3, <1>9 DEF TypeOK
  <2>4. QED
    BY <1>2, <1>3, <1>4, <1>5, <1>9, <2>2, <2>3, DataAssumption
<1>10. ShownCommitted'
  BY <1>5, <1>9 DEF ShownCommitted
<1>11. ShownIsOurs'
  BY <1>2, <1>9 DEF ShownIsOurs
<1>12. ASSUME loaded, ~strayed
       PROVE  NotBack
  <2>1. /\ data.tasks \subseteq {projectID} \X (1..l.begun)
        /\ data.rest <= l.rest
        /\ \A c \in data.tasks : ~History[projectID][c[2]].archived
    BY <1>12
       DEF Loading, ShownBeforeLoad, Showing, ShownCommitted
  <2>2. data.rest \in Nat
    BY DataAssumption DEF TypeOK
  <2>3. data.rest <= data'.rest
    BY <1>2, <1>3, <1>12, <2>1, <2>2
  <2>4. PICK more \in SUBSET Rows(projectID, tasks) :
          \/ data'.tasks = {projectID} \X Rows(projectID, tasks)
          \/ data'.tasks = Merged(data.tasks, {projectID} \X more)
    <3>1. {m \in Rows(projectID, tasks) : m > lastTaskCheck}
            \in SUBSET Rows(projectID, tasks)
      OBVIOUS
    <3>2. QED
      BY <1>12, <3>1, Applied
  <2>5. tasks <= world[projectID].task /\ world[projectID].task \in Nat
    BY <1>2, <1>3, <1>4, <1>12
  <2>6. /\ \A c \in data.tasks \ data'.tasks :
             Overtaken(c, world[projectID].task)
        /\ \A c \in data'.tasks \ data.tasks, d \in data.tasks :
             ~Overtaken(c, d[2])
    <3> DEFINE now == world[projectID].task
               begun == l.begun
               shown == data.tasks
               next == data'.tasks
    <3>1. /\ begun \in Nat /\ now \in Nat /\ tasks \in Nat
          /\ begun <= tasks /\ tasks <= now
          /\ shown \subseteq {projectID} \X (1..begun)
          /\ \A c \in shown : ~History[projectID][c[2]].archived
          /\ more \subseteq Rows(projectID, tasks)
          /\ \/ next = {projectID} \X Rows(projectID, tasks)
             \/ next = Merged(shown, {projectID} \X more)
      BY <1>3, <2>1, <2>4, <2>5
    <3> HIDE DEF now, begun, shown, next
    <3>2. /\ \A c \in shown \ next : Overtaken(c, now)
          /\ \A c \in next \ shown, d \in shown : ~Overtaken(c, d[2])
      BY <3>1, RowsReplaced
    <3>3. QED
      BY <3>2 DEF now, shown, next
  <2>7. \A c \in data.tasks : c[1] = projectID
    BY <2>1
  <2>8. QED
    BY <2>3, <2>6, <2>7 DEF NotBack
<1>13. QED
  BY <1>7, <1>8, <1>10, <1>11, <1>12 DEF Showing

(***************************************************************************)
(* The actions.                                                            *)
(***************************************************************************)
\* The counters of a project, one of them raised.
LEMMA Raised ==
  ASSUME NEW c \in [task: 0..MaxTask, rest: 0..MaxRest]
  PROVE  /\ [c EXCEPT !.task = c.task + 1] =
              [task |-> c.task + 1, rest |-> c.rest]
         /\ [c EXCEPT !.rest = c.rest + 1] =
              [task |-> c.task, rest |-> c.rest + 1]
OBVIOUS

\* A change raises one of the project's two counters.
LEMMA ChangeRaises ==
  ASSUME TypeOK, NEW p \in Projects, Change(p)
  PROVE  /\ world' \in [Projects -> [task: 0..MaxTask, rest: 0..MaxRest]]
         /\ \A q \in Projects : /\ world[q].task <= world'[q].task
                                /\ world[q].rest <= world'[q].rest
<1>1. world \in [Projects -> [task: 0..MaxTask, rest: 0..MaxRest]]
  BY DEF TypeOK
<1>2. PICK t \in 0..MaxTask, r \in 0..MaxRest :
        /\ world' = [world EXCEPT ![p] = [task |-> t, rest |-> r]]
        /\ world[p].task <= t /\ world[p].rest <= r
  <2>1. CASE world[p].task < MaxTask
             /\ world' = [world EXCEPT ![p].task = @ + 1]
    <3>1. world' = [world EXCEPT ![p] = [task |-> world[p].task + 1,
                                         rest |-> world[p].rest]]
      <4>1. world' =
              [world EXCEPT ![p] = [world[p] EXCEPT !.task = @ + 1]]
        BY <2>1, Zenon
      <4>2. world[p] \in [task: 0..MaxTask, rest: 0..MaxRest]
        BY <1>1
      <4>3. [world[p] EXCEPT !.task = @ + 1] =
              [task |-> world[p].task + 1, rest |-> world[p].rest]
        BY <4>2, Raised
      <4>4. QED
        BY <4>1, <4>3, Zenon
    <3>2. world[p].task + 1 \in 0..MaxTask /\ world[p].rest \in 0..MaxRest
      BY <1>1, <2>1, DataAssumption
    <3>3. /\ world[p].task <= world[p].task + 1
          /\ world[p].rest <= world[p].rest
      BY <1>1, DataAssumption
    <3>4. QED
      BY <3>1, <3>2, <3>3, Zenon
  <2>2. CASE world[p].rest < MaxRest
             /\ world' = [world EXCEPT ![p].rest = @ + 1]
    <3>1. world' = [world EXCEPT ![p] = [task |-> world[p].task,
                                         rest |-> world[p].rest + 1]]
      <4>1. world' =
              [world EXCEPT ![p] = [world[p] EXCEPT !.rest = @ + 1]]
        BY <2>2, Zenon
      <4>2. world[p] \in [task: 0..MaxTask, rest: 0..MaxRest]
        BY <1>1
      <4>3. [world[p] EXCEPT !.rest = @ + 1] =
              [task |-> world[p].task, rest |-> world[p].rest + 1]
        BY <4>2, Raised
      <4>4. QED
        BY <4>1, <4>3, Zenon
    <3>2. world[p].task \in 0..MaxTask /\ world[p].rest + 1 \in 0..MaxRest
      BY <1>1, <2>2, DataAssumption
    <3>3. /\ world[p].task <= world[p].task
          /\ world[p].rest <= world[p].rest + 1
      BY <1>1, DataAssumption
    <3>4. QED
      BY <3>1, <3>2, <3>3, Zenon
  <2>3. QED
    BY <2>1, <2>2 DEF Change
<1>3. \A q \in Projects :
        /\ world[q].task \in Nat /\ world[q].rest \in Nat
        /\ world'[q] = IF q = p THEN [task |-> t, rest |-> r]
                       ELSE world[q]
  BY <1>1, <1>2
<1>4. QED
  BY <1>1, <1>2, <1>3

LEMMA ChangeKeeps ==
  ASSUME DInv, NEW p \in Projects, Change(p)
  PROVE  DInv'
<1>1. /\ world' \in [Projects -> [task: 0..MaxTask, rest: 0..MaxRest]]
      /\ \A q \in Projects : /\ world[q].task <= world'[q].task
                             /\ world[q].rest <= world'[q].rest
  BY ChangeRaises DEF DInv
<1>2. UNCHANGED <<sessionVars, placeVars, forms, loads, shownVars, strayed>>
  BY DEF Change
<1>3. TypeOK'
  BY <1>1, <1>2
     DEF DInv, TypeOK, sessionVars, placeVars, shownVars
<1>4. Loading'
  <2>1. OneCurrent' /\ Aimed' /\ GoesBack' /\ ShownBeforeLoad'
    BY <1>2 DEF DInv, Loading, OneCurrent, Aimed, GoesBack,
                ShownBeforeLoad, sessionVars, placeVars, shownVars
  <2>2. Listed'
    <3>1. SUFFICES ASSUME loaded, ~strayed, ~apart
                   PROVE  \E n \in 0..world'[projectID].task :
                            /\ Lists(projectID, data.tasks, n)
                            /\ lastTaskCheck <= n
                            /\ \A l \in loads : l.current => n <= l.begun
      BY <1>2 DEF Listed, placeVars, shownVars
    <3>2. projectID \in Projects
      BY <3>1 DEF DInv, Showing, ShownCommitted
    <3>3. 0..world[projectID].task \subseteq 0..world'[projectID].task
      BY <1>1, <3>2 DEF DInv, TypeOK
    <3>4. QED
      BY <3>1, <3>3 DEF DInv, Loading, Listed
  <2>3. QED
    BY <2>1, <2>2 DEF Loading
<1>5. ShownCommitted'
  <2> SUFFICES ASSUME loaded, ~strayed
               PROVE  /\ projectID \in Projects
                      /\ data.tasks \subseteq
                           {projectID} \X (1..world'[projectID].task)
                      /\ \A c \in data.tasks :
                           ~History[projectID][c[2]].archived
                      /\ data.rest <= world'[projectID].rest
    BY <1>2 DEF ShownCommitted, placeVars, shownVars
  <2>1. /\ projectID \in Projects
        /\ data.tasks \subseteq
             {projectID} \X (1..world[projectID].task)
        /\ \A c \in data.tasks : ~History[projectID][c[2]].archived
        /\ data.rest <= world[projectID].rest
    BY DEF DInv, Showing, ShownCommitted
  <2>2. /\ data.rest \in Nat
        /\ world[projectID].rest \in Nat /\ world'[projectID].rest \in Nat
        /\ world[projectID].task \in Nat /\ world'[projectID].task \in Nat
    BY <1>1, <2>1 DEF DInv, TypeOK
  <2>3. /\ world[projectID].task <= world'[projectID].task
        /\ world[projectID].rest <= world'[projectID].rest
    BY <1>1, <2>1
  <2>4. 1..world[projectID].task \subseteq 1..world'[projectID].task
    BY <2>2, <2>3
  <2>5. QED
    BY <2>1, <2>2, <2>3, <2>4
<1>6. Showing'
  BY <1>2, <1>5 DEF DInv, Showing, CheckedWhenLoaded, ShownIsOurs,
       sessionVars, placeVars, shownVars
<1>7. QED
  BY <1>3, <1>4, <1>6 DEF DInv

\* Loads that a button, the interval or a form starts.
LEMMA RefreshKeeps == ASSUME DInv, Refresh PROVE DInv'
<1>1. /\ projectID \in Projects /\ me \in People
      /\ None \in Maybe(0..MaxTask)
  BY DEF Refresh, DInv, TypeOK, Maybe
<1>2. Start("full", projectID, me, None)
  BY DEF Refresh
<1>3. loads' \subseteq Load
  BY <1>1, <1>2, StartedLoads DEF DInv
<1>4. TypeOK'
  BY <1>3 DEF Refresh, DInv, TypeOK, sessionVars, placeVars, shownVars
<1>5. UNCHANGED screen /\ strayed' = strayed
  BY DEF Refresh, screen, sessionVars, placeVars
<1>6. Loading' /\ Showing'
  BY <1>1, <1>2, <1>5, LoadStarts DEF DInv, TypeOK
<1>7. QED
  BY <1>4, <1>6 DEF DInv

LEMMA RefreshChangesKeeps == ASSUME DInv, RefreshChanges PROVE DInv'
<1>1. /\ projectID \in Projects /\ me \in People
      /\ lastTaskCheck \in Maybe(0..MaxTask) /\ lastTaskCheck # None
  BY DEF RefreshChanges, DInv, TypeOK, Maybe
<1>2. Start("changes", projectID, me, lastTaskCheck)
  BY DEF RefreshChanges
<1>3. loads' \subseteq Load
  BY <1>1, <1>2, StartedLoads DEF DInv
<1>4. TypeOK'
  BY <1>3
     DEF RefreshChanges, DInv, TypeOK, sessionVars, placeVars, shownVars
<1>5. UNCHANGED screen /\ strayed' = strayed
  BY DEF RefreshChanges, screen, sessionVars, placeVars
<1>6. Loading' /\ Showing'
  BY <1>1, <1>2, <1>5, LoadStarts DEF DInv, TypeOK
<1>7. QED
  BY <1>4, <1>6 DEF DInv

LEMMA FormWrittenKeeps ==
  ASSUME DInv, NEW f \in forms, FormWritten(f)
  PROVE  DInv'
<1>1. f \in Projects \X People
  BY DEF DInv, TypeOK
<1>2. /\ f[1] \in Projects /\ f[2] \in People /\ f = <<f[1], f[2]>>
      /\ None \in Maybe(0..MaxTask)
  BY <1>1 DEF Maybe
<1>3. Start("full", f[1], f[2], None)
  BY DEF FormWritten
<1>4. loads' \subseteq Load
  BY <1>2, <1>3, StartedLoads DEF DInv
<1>5. strayed' = (strayed \/ f # <<projectID, me>>)
  BY DEF FormWritten
<1>6. strayed' \in BOOLEAN
  BY <1>5
<1>7. TypeOK'
  BY <1>4, <1>6
     DEF FormWritten, DInv, TypeOK, sessionVars, placeVars, shownVars
<1>8. ~strayed' => ~strayed /\ f[1] = projectID /\ f[2] = me
  <2>1. ~strayed' => ~strayed /\ f = <<projectID, me>>
    BY <1>5, Zenon
  <2>2. QED
    BY <2>1
<1>9. UNCHANGED screen
  BY DEF FormWritten, screen, sessionVars, placeVars
<1>10. Loading' /\ Showing'
  BY <1>2, <1>3, <1>6, <1>8, <1>9, LoadStarts DEF DInv
<1>11. QED
  BY <1>7, <1>10 DEF DInv

\* Steps that leave the screen and the loads that count alone.
LEMMA FormsKeep ==
  ASSUME DInv, SendForm \/ (\E f \in forms : FormFails(f)) \/ BootFails
               \/ (\E l \in loads : LoadFails(l))
  PROVE  DInv'
<1>1. UNCHANGED <<screen, strayed>> /\ loads' \subseteq loads
  BY DEF SendForm, FormFails, BootFails, LoadFails, screen, sessionVars,
         placeVars
<1>2. TypeOK'
  <2>1. CASE SendForm
    <3>1. <<projectID, me>> \in Projects \X People
      BY <2>1 DEF SendForm, DInv, TypeOK, Maybe
    <3>2. QED
      BY <2>1, <3>1
         DEF SendForm, DInv, TypeOK, sessionVars, placeVars, shownVars
  <2>2. CASE \E f \in forms : FormFails(f)
    BY <2>2 DEF FormFails, DInv, TypeOK, sessionVars, placeVars, shownVars
  <2>3. CASE BootFails
    BY <2>3 DEF BootFails, DInv, TypeOK, Maybe, placeVars, shownVars
  <2>4. CASE \E l \in loads : LoadFails(l)
    BY <2>4 DEF LoadFails, DInv, TypeOK, sessionVars, placeVars, shownVars
  <2>5. QED
    BY <2>1, <2>2, <2>3, <2>4
<1>3. QED
  BY <1>1, <1>2, LoadsEnd DEF DInv

\* Answers, applied or dropped.
LEMMA AnswerTypes ==
  ASSUME DInv, NEW l \in loads, Answer(l), l.current
  PROVE  TypeOK'
<1>1. loads' \subseteq Load
  BY DEF Answer, DInv, TypeOK
<1>2. PICK tasks \in l.begun..world[l.project].task,
           bench \in l.begun..world[l.project].task,
           rest \in l.rest..world[l.project].rest :
             \E b \in 0..bench : Apply(l, tasks, bench, rest, b)
  BY DEF Answer, Applies
<1>3. PICK back \in 0..bench : Apply(l, tasks, bench, rest, back)
  BY <1>2
<1>4. /\ l \in Load /\ tasks \in 0..MaxTask /\ back \in 0..MaxTask
      /\ rest \in 0..MaxRest
  BY AnswerNumbers DEF DInv
<1>5. /\ l.person \in Maybe(People) /\ l.project \in Projects
      /\ l.project \in Maybe(Projects) /\ back \in Maybe(0..MaxTask)
      /\ apart' \in BOOLEAN
  <2>1. apart' = (tasks < back) \/ apart' = (apart \/ tasks < back)
    <3>1. CASE l.kind = "full"
      BY <1>3, <3>1, Zenon DEF Apply
    <3>2. CASE l.kind # "full"
      BY <1>3, <3>2, Zenon DEF Apply
    <3>3. QED
      BY <3>1, <3>2, Zenon
  <2>2. apart' \in BOOLEAN
    <3>1. CASE apart' = (tasks < back)
      BY <3>1, SMT
    <3>2. CASE apart' = (apart \/ tasks < back)
      BY <3>2, SMT
    <3>3. QED
      BY <2>1, <3>1, <3>2, Zenon
  <2>3. l \in Load /\ back \in 0..MaxTask
    BY <1>4, Zenon
  <2>4. /\ l.person \in Maybe(People) /\ l.project \in Projects
        /\ l.project \in Maybe(Projects) /\ back \in Maybe(0..MaxTask)
    BY <2>3 DEF Load, Maybe
  <2>5. QED
    BY <2>2, <2>4, Zenon
<1>6. {l.project} \X Rows(l.project, tasks) \subseteq
        Projects \X (1..MaxTask)
  BY <1>4, <1>5, DataAssumption DEF Rows, Latest
<1>7. /\ loaded' \in BOOLEAN /\ dataProjectID' \in Maybe(Projects)
      /\ lastTaskCheck' \in Maybe(0..MaxTask)
  BY <1>3, <1>5 DEF Apply, DInv, TypeOK
<1>8. data' \in [person: Maybe(People), rest: 0..MaxRest,
                 tasks: SUBSET (Projects \X (1..MaxTask))]
  <2>1. CASE l.kind = "full"
    <3>1. data' = [person |-> l.person, rest |-> rest,
                   tasks |-> {l.project} \X Rows(l.project, tasks)]
      BY <1>3, <2>1 DEF Apply
    <3>2. QED
      BY <1>4, <1>5, <1>6, <3>1
  <2>2. CASE l.kind # "full"
    <3> DEFINE new ==
          {l.project} \X {m \in Rows(l.project, tasks) : m > l.since}
    <3>1. data' = [data EXCEPT !.tasks = Merged(data.tasks, new)]
      BY <1>3, <2>2 DEF Apply
    <3>2. Merged(data.tasks, new) \subseteq Projects \X (1..MaxTask)
      BY <1>6 DEF Merged, DInv, TypeOK
    <3> DEFINE next == Merged(data.tasks, new)
    <3> HIDE DEF next
    <3>3. data' = [data EXCEPT !.tasks = next]
      BY <3>1 DEF next
    <3>4. next \subseteq Projects \X (1..MaxTask)
      BY <3>2 DEF next
    <3>5. QED
      BY <3>3, <3>4 DEF DInv, TypeOK
  <2>3. QED
    BY <2>1, <2>2
<1>9. QED
  BY <1>1, <1>5, <1>7, <1>8
     DEF Answer, DInv, TypeOK, sessionVars, placeVars

LEMMA AnswerKeeps ==
  ASSUME DInv, NEW l \in loads, Answer(l)
  PROVE  /\ DInv'
         /\ loaded /\ ~strayed => NotBack
<1>1. CASE l.current
  <2>1. PICK tasks \in l.begun..world[l.project].task,
             bench \in l.begun..world[l.project].task,
             rest \in l.rest..world[l.project].rest :
               \E back \in 0..bench : Apply(l, tasks, bench, rest, back)
    BY <1>1 DEF Answer, Applies
  <2>2. /\ loads' = loads \ {l}
        /\ UNCHANGED <<world, projectID, me, strayed>>
    BY DEF Answer, sessionVars, placeVars
  <2>3. TypeOK'
    BY <1>1, AnswerTypes
  <2>4. QED
    BY <1>1, <2>1, <2>2, <2>3, AnswerKept DEF DInv
<1>2. CASE ~l.current
  <2>1. UNCHANGED <<screen, strayed>> /\ loads' \subseteq loads
    BY <1>2 DEF Answer, screen, sessionVars, placeVars
  <2>2. TypeOK'
    BY <1>2 DEF Answer, DInv, TypeOK, sessionVars, placeVars, shownVars
  <2>3. data' = data /\ data.rest \in Nat
    BY <2>1, DataAssumption DEF screen, shownVars, DInv, TypeOK
  <2>4. NotBack
    BY <2>3 DEF NotBack
  <2>5. QED
    BY <2>1, <2>2, <2>4, LoadsEnd DEF DInv
<1>3. QED
  BY <1>1, <1>2

\* A page that shows nothing.
LEMMA EmptyData ==
  Empty \in [person: Maybe(People), rest: 0..MaxRest,
             tasks: SUBSET (Projects \X (1..MaxTask))]
<1>1. 0 \in 0..MaxRest /\ None \in Maybe(People)
  BY DataAssumption DEF Maybe
<1>2. QED
  BY <1>1 DEF Empty

\* Whoever signs in does so on a new page.
LEMMA SignInKeeps == ASSUME DInv, NEW a \in People, SignIn(a) PROVE DInv'
<1>1. TypeOK'
  <2>1. /\ a \in Maybe(People) /\ None \in Maybe(People)
        /\ None \in Maybe(Projects) /\ None \in Maybe(0..MaxTask)
    BY DEF Maybe
  <2>2. QED
    BY <2>1, EmptyData DEF SignIn, NewToken, DInv, TypeOK
<1>2. OneCurrent' /\ loads' = {}
  BY DEF SignIn, OneCurrent
<1>3. Loading' /\ Showing'
  BY <1>2, Waiting DEF SignIn
<1>4. QED
  BY <1>1, <1>3 DEF DInv

\* The effects of a change of the selection or the session.
LEMMA EffectKeeps ==
  ASSUME DInv, TypeOK', NEW p \in Maybe(Projects), NEW a \in Maybe(People),
         LoadEffect(p, a), projectID' = p, me' = a
  PROVE  Loading' /\ Showing'
BY EffectLoads, Waiting DEF DInv

LEMMA SignedOutKeeps == ASSUME DInv, Logout \/ Expire PROVE DInv'
<1>1. /\ SignedOut /\ UNCHANGED <<world, placeVars, forms>>
      /\ data' = Empty \/ data' = data
  BY DEF Logout, Expire
<1>2. /\ projectID \in Maybe(Projects) /\ None \in Maybe(People)
      /\ LoadEffect(projectID, None) /\ token' = None /\ me' = None
      /\ boot' = None
  BY <1>1 DEF SignedOut, DInv, TypeOK, Maybe
<1>3. /\ loads' \subseteq Load /\ loaded' = FALSE /\ lastTaskCheck' = None
      /\ strayed' = FALSE /\ dataProjectID' = dataProjectID
      /\ apart' = FALSE
  BY <1>2, EffectLoads DEF DInv
<1>4. data' \in [person: Maybe(People), rest: 0..MaxRest,
                 tasks: SUBSET (Projects \X (1..MaxTask))]
  BY <1>1, EmptyData DEF DInv, TypeOK
<1>5. TypeOK'
  BY <1>1, <1>2, <1>3, <1>4 DEF DInv, TypeOK, Maybe, placeVars
<1>6. Loading' /\ Showing'
  BY <1>1, <1>2, <1>5, EffectKeeps DEF placeVars
<1>7. QED
  BY <1>5, <1>6 DEF DInv

LEMMA BootedKeeps ==
  ASSUME DInv, NEW first \in Projects, Booted(first)
  PROVE  DInv'
<1>1. boot \in People
  BY DEF Booted, DInv, TypeOK, Maybe
<1>2. /\ projectID' \in Maybe(Projects) /\ boot \in Maybe(People)
      /\ unavailable' \in BOOLEAN
  BY <1>1 DEF Booted, DInv, TypeOK, Maybe, Routes
<1>3. LoadEffect(projectID', boot) /\ me' = boot /\ boot' = None
  BY DEF Booted
<1>4. /\ loads' \subseteq Load /\ loaded' = FALSE /\ lastTaskCheck' = None
      /\ strayed' = FALSE /\ dataProjectID' = dataProjectID
      /\ apart' = FALSE
  BY <1>2, <1>3, EffectLoads DEF DInv
<1>5. TypeOK'
  BY <1>2, <1>3, <1>4 DEF Booted, DInv, TypeOK, Maybe
<1>6. Loading' /\ Showing'
  BY <1>2, <1>3, <1>5, EffectKeeps
<1>7. QED
  BY <1>5, <1>6 DEF DInv

LEMMA NavigateKeeps ==
  ASSUME DInv, NEW r \in Routes, Navigate(r)
  PROVE  DInv'
<1>1. CASE me # None /\ projectID' # projectID
  <2>1. me \in People /\ me \in Maybe(People)
    BY <1>1 DEF DInv, TypeOK, Maybe
  <2>2. ProjectsOf[me] \subseteq Projects
    BY <2>1, DataAssumption
  <2>3. RouteEffect(r) /\ LoadEffect(projectID', me) /\ me' = me
        /\ data' = data
    BY <1>1 DEF Navigate, RouteEffect, sessionVars
  <2>4. projectID' \in Maybe(Projects) /\ unavailable' \in BOOLEAN
    BY <2>2, <2>3 DEF RouteEffect, DInv, TypeOK, Maybe
  <2>5. /\ loads' \subseteq Load /\ loaded' = FALSE
        /\ lastTaskCheck' = None /\ strayed' = FALSE
        /\ apart' = FALSE /\ dataProjectID' = dataProjectID
    BY <2>1, <2>3, <2>4, EffectLoads DEF DInv
  <2>6. TypeOK'
    BY <2>3, <2>4, <2>5
       DEF Navigate, DInv, TypeOK, Maybe, sessionVars
  <2>7. Loading' /\ Showing'
    BY <2>1, <2>3, <2>4, <2>6, EffectKeeps
  <2>8. QED
    BY <2>6, <2>7 DEF DInv
<1>2. CASE me = None \/ projectID' = projectID
  <2>1. projectID' = projectID /\ loads' = loads /\ strayed' = strayed
        /\ shownVars' = shownVars /\ world' = world /\ me' = me
    <3>1. world' = world /\ me' = me
      BY DEF Navigate, sessionVars
    <3>2. CASE me # None
      <4>1. RouteEffect(r) /\ projectID' = projectID
        BY <1>2, <3>2 DEF Navigate
      <4>2. UNCHANGED <<loads, shownVars, strayed>>
        BY <4>1 DEF RouteEffect
      <4>3. QED
        BY <3>1, <4>1, <4>2
    <3>3. CASE me = None
      BY <3>1, <3>3 DEF Navigate
    <3>4. QED
      BY <3>2, <3>3
  <2>2. unavailable' \in BOOLEAN
    <3>1. CASE me # None
      <4>1. unavailable' = (r \in Projects \ ProjectsOf[me])
        BY <3>1 DEF Navigate, RouteEffect
      <4>2. QED
        BY <4>1
    <3>2. CASE me = None
      BY <3>2 DEF Navigate, DInv, TypeOK
    <3>3. QED
      BY <3>1, <3>2
  <2>3. TypeOK'
    BY <2>1, <2>2 DEF Navigate, DInv, TypeOK, sessionVars, shownVars
  <2>4. UNCHANGED <<screen, strayed>>
    BY <2>1 DEF screen
  <2>5. QED
    BY <2>1, <2>3, <2>4, LoadsEnd DEF DInv
<1>3. QED
  BY <1>1, <1>2

(***************************************************************************)
(* The theorems.                                                           *)
(***************************************************************************)
LEMMA DInvInit == Init => DInv
<1> SUFFICES ASSUME Init PROVE DInv
  OBVIOUS
<1>1. TypeOK
  <2>1. /\ None \in Maybe(People) /\ None \in Maybe(Projects)
        /\ None \in Maybe(0..MaxTask)
    BY DEF Maybe
  <2>2. 0 \in 0..MaxTask /\ 0 \in 0..MaxRest
    BY DataAssumption
  <2>3. world \in [Projects -> [task: 0..MaxTask, rest: 0..MaxRest]]
    BY <2>2 DEF Init
  <2>4. QED
    BY <2>1, <2>3, EmptyData DEF Init, TypeOK
<1>2. Loading /\ Showing
  BY DEF Init, Loading, Showing, OneCurrent, Aimed, GoesBack,
         ShownBeforeLoad, Listed, CheckedWhenLoaded, ShownIsOurs,
         ShownCommitted
<1>3. QED
  BY <1>1, <1>2 DEF DInv

LEMMA DInvStep == DInv /\ [Next]_vars => DInv'
<1> SUFFICES ASSUME DInv, [Next]_vars PROVE DInv'
  OBVIOUS
<1>1. ASSUME NEW p \in Busy, Change(p) PROVE DInv'
  BY <1>1, ChangeKeeps, DataAssumption
<1>2. ASSUME NEW p \in Projects, Booted(p) PROVE DInv'
  BY <1>2, BootedKeeps
<1>3. ASSUME NEW a \in People, SignIn(a) PROVE DInv'
  BY <1>3, SignInKeeps
<1>4. CASE Logout \/ Expire
  BY <1>4, SignedOutKeeps
<1>5. CASE BootFails \/ SendForm
  BY <1>5, FormsKeep
<1>6. ASSUME NEW r \in Routes, Navigate(r) PROVE DInv'
  BY <1>6, NavigateKeeps
<1>7. CASE Refresh
  BY <1>7, RefreshKeeps
<1>8. CASE RefreshChanges \/ Nudge
  BY <1>8, RefreshChangesKeeps DEF Nudge
<1>9. ASSUME NEW f \in forms, FormWritten(f) \/ FormFails(f) PROVE DInv'
  BY <1>9, FormWrittenKeeps, FormsKeep
<1>10. ASSUME NEW l \in loads, Answer(l) \/ LoadFails(l) PROVE DInv'
  BY <1>10, AnswerKeeps, FormsKeep
<1>11. CASE UNCHANGED vars
  <2>1. UNCHANGED <<screen, strayed>> /\ loads' \subseteq loads
    BY <1>11 DEF vars, screen, sessionVars, placeVars
  <2>2. TypeOK'
    BY <1>11 DEF vars, DInv, TypeOK, sessionVars, placeVars, shownVars
  <2>3. QED
    BY <2>1, <2>2, LoadsEnd DEF DInv
<1>12. QED
  BY <1>1, <1>2, <1>3, <1>4, <1>5, <1>6, <1>7, <1>8, <1>9, <1>10, <1>11
     DEF Next

LEMMA DInvAlways == Spec => []DInv
<1>1. QED
  BY DInvInit, DInvStep, PTL DEF Spec

\* Every variable of the console keeps its type.
THEOREM DataTypeCorrect == Spec => []TypeOK
<1>1. DInv => TypeOK
  BY DEF DInv
<1>2. QED
  BY <1>1, DInvAlways, PTL

\* refreshGeneration, the effects' cleanups and resetProjectData: a loaded
\* page shows the selected project for the person signed in, however many
\* people, projects, loads and forms there are.
THEOREM ShownIsOursHolds == Spec => []ShownIsOurs
<1>1. DInv => ShownIsOurs
  BY DEF DInv, Showing
<1>2. QED
  BY <1>1, DInvAlways, PTL

\* The checks of refreshChanges, each going back a second, leave no gap in
\* the list of tasks, for any history of changes and archivings, as long as
\* no load's tasks were read more than that second before its workbench.
THEOREM NoTaskMissedHolds == Spec => []NoTaskMissed
<1>1. DInv => NoTaskMissed
  BY DEF DInv, Loading, Listed, NoTaskMissed, Lists, ListAt
<1>2. QED
  BY <1>1, DInvAlways, PTL

\* No answer, however late, takes what is shown of a project back.
LEMMA NothingBack ==
  ASSUME DInv, [Next]_vars, loaded, ~strayed, data' # Empty
  PROVE  NotBack
<1>1. data.rest \in Nat
  BY DataAssumption DEF DInv, TypeOK
<1>2. ASSUME NEW l \in loads, Answer(l) PROVE NotBack
  BY <1>2, AnswerKeeps
<1>3. CASE data' = data
  BY <1>1, <1>3 DEF NotBack
<1>4. (\E l \in loads : Answer(l)) \/ data' = data \/ data' = Empty
  <2>1. CASE UNCHANGED vars
    BY <2>1 DEF vars, shownVars
  <2>2. CASE Next
    BY <2>2 DEF Next, Change, Booted, SignIn, Logout, Expire, BootFails,
       Navigate, RouteEffect, Refresh, RefreshChanges, Nudge, SendForm,
       FormWritten, FormFails, LoadFails, shownVars
  <2>3. QED
    BY <2>1, <2>2
<1>5. QED
  BY <1>2, <1>3, <1>4

\* What refreshGeneration is for: of two answers the later request wins, so
\* what is shown of a project never goes back to an older state.
THEOREM NeverOlderHolds == Spec => NeverOlder
<1>1. DInv /\ [Next]_vars =>
        [ loaded /\ ~strayed /\ data' # Empty
          /\ dataProjectID' = dataProjectID => NotBack ]_vars
  BY NothingBack
<1>2. QED
  BY <1>1, DInvAlways, PTL DEF Spec, NeverOlder
=============================================================================
