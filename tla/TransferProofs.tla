--------------------------- MODULE TransferProofs ---------------------------
(***************************************************************************)
(* Proofs about Transfer for any number of lost answers, refusals, names    *)
(* taken, edits and rounds of the claim loop: the invariants the run checks *)
(* and the refinement of FileMove.                                          *)
(***************************************************************************)
EXTENDS Transfer, SequenceTheorems, WellFoundedInduction, TLAPS

TaskType == [from : Places, to : Places, move : BOOLEAN,
             state : {"running", "copied", "ok", "collision", "generic", "refused"}]

Types ==
  /\ TypeOK
  /\ verify \in BOOLEAN /\ crosses \in BOOLEAN
  /\ lost \in Nat /\ refused \in Nat /\ misled \in Nat /\ others \in Nat /\ edits \in Nat
  /\ tasks \in Seq(TaskType)

\* Which calls belong to which route.
Retiring == {"retire", "renamed", "same", "delete", "deleted", "restore", "back"}
Claiming == hop = "claim" \/ pc \in {"claim", "rename"}
Asked(t) == t.from = From /\ t.to = To /\ t.move = (hop # "copy")
Control ==
  /\ pc = "told" \/ told = "working"
  /\ IF transit THEN /\ hop \in {"none", "copy", "claim"}
                     /\ pc \notin {"probe", "watch", "recheck", "left", "confirm", "clear", "verify"}
                ELSE /\ hop \in {"none", "direct", "staged", "claim"}
                     /\ pc \notin {"readback", "discard", "wipe"} \cup Retiring
  /\ hop # "claim" => cur = 0
  /\ pc = "probe" => hop = "none"
  /\ pc = "folder" => hop \in {"none", "direct"}
  /\ pc \in {"ask", "list", "poll", "answered"} => hop # "none"
  /\ pc \in {"watch", "recheck", "left"} => hop = "direct"
  /\ pc \in {"confirm", "clear"} => hop = "staged"
  /\ pc \in {"claim", "rename"} => hop \notin {"none", "direct"}
  /\ pc = "readback" => hop = "copy"
  /\ pc \in {"look", "again"} \cup Retiring => hop = "claim"
  /\ pc \in {"arrive", "verify"} => hop \in {"direct", "claim"}
  /\ pc = "verify" => verify /\ ~crosses
  /\ pc = "rename" \/ (hop = "claim" /\ pc \in {"ask", "list", "poll", "answered", "again"})
       => tries < MaxTries

\* What is polled is the task asked for, and only its own end is taken for one.
Polling ==
  /\ pc = "poll" => mine \in DOMAIN tasks /\ Asked(tasks[mine])
  /\ pc = "answered" /\ err = "ok" =>
       mine \in DOMAIN tasks /\ Asked(tasks[mine]) /\ tasks[mine].state = "ok"

\* What File Station was asked for: at most one move to the destination's own
\* name, then at most one task into the staging folder, whose end the hops out
\* of it presuppose.
Straight(t) == t.from = Src /\ t.to = Dest(0)
Staging(t)  == t.from = Src /\ t.to = Staged(0)
Hopping(t)  == \E n \in Names : t.from = Staged(n) /\ t.to = Dest(n)
Requests ==
  /\ \A i \in DOMAIN tasks : LET t == tasks[i] IN
       /\ \/ Straight(t) /\ ~transit /\ t.move
          \/ Staging(t) /\ t.move = ~transit
          \/ Hopping(t) /\ t.move /\ hop = "claim"
       /\ t.state = "copied" => t.from = Src /\ ~transit /\ crosses
       /\ Staging(t) /\ (Claiming \/ pc = "readback") => t.state = "ok"
       /\ Staging(t) => hop \notin {"none", "direct"} /\ (pc = "ask" => hop = "claim")
  /\ \A i, j \in DOMAIN tasks : Staging(tasks[i]) /\ Staging(tasks[j]) => i = j
  /\ \A i, j \in DOMAIN tasks : Straight(tasks[i]) /\ Straight(tasks[j]) => i = j
  /\ pc = "probe" \/ (pc = "ask" /\ hop = "direct") => tasks = <<>>

\* The names below the one held are taken, and only the one held is staged.
NamesTried ==
  /\ \A m \in Names : m < cur => ~Free(m)
  /\ pc = "rename" => ~Free(cur)
  /\ \A n \in Names : /\ ~Empty(Staged(n)) => Holds(Staged(n))
                      /\ ~Empty(Staged(n)) /\ pc \notin {"told", "discard", "wipe"} => n = cur

\* What a task has carried stands where it was carried to.
Landings ==
  \A i \in DOMAIN tasks : LET t == tasks[i] IN
    /\ t.state = "copied" => Holds(t.to)
    /\ \A n \in Names : t.state = "ok" /\ t.to = Dest(n) => Holds(Dest(n))
    /\ Staging(t) /\ t.state = "ok" /\ hop # "claim" /\ pc \notin {"told", "discard", "wipe"}
         => Holds(Staged(0))

\* A plain move: the source is gone exactly when a task from it has ended well,
\* and then a place of ours at the destination holds the file.
Away == \E n \in Names : Holds(Staged(n)) \/ Holds(Dest(n))
Plain ==
  ~transit =>
    /\ Empty(Hidden)
    /\ Empty(Src) \/ Holds(Src)
    /\ Empty(Src) <=> \E i \in DOMAIN tasks : tasks[i].from = Src /\ tasks[i].state = "ok"
    /\ Empty(Src) => Away
    /\ Claiming \/ pc \in {"verify", "arrive"} => Empty(Src)
    /\ ~crosses /\ edits > 0 => \E p \in Places : tree[p] = "edit"

\* A verified move to another filesystem: the original is in its place until it
\* is retired, and what stands at the destination by then is the whole of it.
Genuine == {"none", "orig", "edit"}
Verified ==
  transit =>
    /\ tree[Src] \in Genuine /\ tree[Hidden] \in Genuine
    /\ edits = 0 => tree[Src] # "edit" /\ tree[Hidden] # "edit"
    /\ edits > 0 => tree[Src] = "edit" \/ tree[Hidden] = "edit"
    /\ pc \notin (Retiring \ {"retire"}) \cup {"told"} => ~Empty(Src) /\ Empty(Hidden)
    /\ told = "failed" => ~Empty(Src)
    /\ \A n \in Names : tree[Dest(n)] \in {"none", "other", "orig"}
    /\ Claiming => \A n \in Names : tree[Staged(n)] \in {"none", "orig"}
    /\ pc \in Retiring => tree[Dest(cur)] = "orig"
    /\ pc = "same" => ~Empty(Hidden)
    /\ pc = "delete" => tree[Hidden] = "orig"
    /\ ~Empty(Src) \/ ~Empty(Hidden) \/ tree[Dest(cur)] = "orig"

\* Without a misleading answer, a failure of the straight move leaves no task
\* that may still take the source.
Over(t) == t.state \in {"collision", "generic", "refused"}
Settled ==
  ~transit /\ misled = 0 /\ hop \in {"none", "direct"} =>
    ( \/ pc \in {"probe", "recheck", "left", "folder", "ask"}
      \/ pc = "answered" /\ err \notin {"ok", "lost"}
      \/ told = "failed"
      => \A i \in DOMAIN tasks : Over(tasks[i]) )

\* A straight move that is not a failure names its landing place, and nothing
\* that was staged and moved on is told as a failure.
Named ==
  /\ pc = "told" /\ hop = "direct" => told \in {"failed", "gone"} \/ at = 0
  /\ pc = "told" /\ hop = "claim" /\ ~transit => told # "failed"

\* What each call off the straight path presupposes of answers lost or wrong.
Doubts ==
  /\ pc \in {"list", "watch", "look", "renamed"} => lost > 0
  /\ err \in {"lost", "notstarted"} => lost > 0
  /\ pc = "deleted" /\ Empty(Hidden) => Doubt >= 1
  /\ pc = "restore" /\ Empty(Hidden) => Doubt >= 2
  /\ pc = "back" /\ Empty(Hidden) => Doubt >= 1 /\ (Empty(Src) => Doubt >= 2)
  /\ pc = "renamed" /\ Empty(Hidden) => ~Empty(Src)

\* With every answer heard and true, only the task being polled is open, and
\* until it has ended well the file has not left the place it is asked from.
Won == \/ pc = "poll" /\ tasks[mine].state = "ok"
       \/ pc = "answered" /\ err = "ok"
Heedful ==
  Doubt = 0 /\ ~transit /\ pc # "told" =>
    /\ \A i \in DOMAIN tasks : Open(i) => pc = "poll" /\ i = mine
    /\ ~Claiming /\ pc \notin {"verify", "arrive"} /\ ~Won => Holds(Src)
    /\ Claiming /\ pc \notin {"verify", "arrive"} /\ ~Won => Holds(Staged(cur))

TransferInv ==
  /\ Types /\ Control /\ Polling /\ Requests /\ NamesTried /\ Landings
  /\ Plain /\ Verified /\ Settled /\ Named /\ Doubts /\ Heedful

(***************************************************************************)
(* Facts about places, names and tasks.                                     *)
(***************************************************************************)

\* The places are distinct, and there are no others.
LEMMA Geography ==
  /\ Src \in Places /\ Hidden \in Places /\ Src # Hidden
  /\ \A n \in Names : /\ Staged(n) \in Places /\ Dest(n) \in Places
                      /\ Staged(n) \notin {Src, Hidden} /\ Dest(n) \notin {Src, Hidden}
  /\ \A m, n \in Names : Staged(m) # Dest(n)
  /\ \A m, n \in Names : Staged(m) = Staged(n) \/ Dest(m) = Dest(n) => m = n
  /\ \A p \in Places : p \in {Src, Hidden} \/ \E n \in Names : p = Staged(n) \/ p = Dest(n)
  BY DEF Places, Src, Hidden, Staged, Dest

\* Zero is a name, names are numbers, and no name is none.
LEMMA NamesFacts == 0 \in Names /\ Names \subseteq Nat /\ NoName \notin Names
  BY BoundsAssumption DEF Names, NoName

\* firstFree: the first free name is free and those before it are not.
LEMMA FirstFreeFacts ==
  ASSUME NamesLeft
  PROVE  FirstFree \in Names /\ Free(FirstFree) /\ \A m \in Names : m < FirstFree => ~Free(m)
<1> DEFINE T == {n \in Names : Free(n)}
<1> DEFINE R == OpToRel(<, Nat)
<1>1. T # {} /\ T \subseteq Nat
  BY NamesFacts DEF NamesLeft
<1>2. IsWellFoundedOn(R, Nat)
  BY NatLessThanWellFounded
<1>3. PICK x \in T : \A y \in T : ~(<<y, x>> \in R)
  <2> HIDE DEF T, R
  <2>1. QED
    BY <1>1, <1>2, WFMin
<1>4. x \in Names /\ Free(x) /\ \A m \in Names : m < x => ~Free(m)
  BY <1>1, <1>3, NamesFacts DEF OpToRel
<1>5. QED
  BY <1>4 DEF FirstFree

\* The tasks are a sequence of records, indexed from one.
LEMMA TaskFacts ==
  ASSUME Types
  PROVE  /\ Len(tasks) \in Nat /\ DOMAIN tasks = 1..Len(tasks)
         /\ \A i \in DOMAIN tasks : tasks[i] \in TaskType
  BY LenProperties, ElementOfSeq DEF Types

\* A hop is asked from a place, to another.
LEMMA TaskAsked == Types => Task \in TaskType /\ From \in Places /\ To \in Places
  BY Geography, NamesFacts DEF Types, TypeOK, Task, From, To, TaskType

\* A new task is the last one.
LEMMA BegunFacts ==
  ASSUME Types
  PROVE  /\ Begun \in Seq(TaskType) /\ Len(Begun) = Len(tasks) + 1
         /\ DOMAIN Begun = DOMAIN tasks \cup {Len(Begun)} /\ Len(Begun) \notin DOMAIN tasks
         /\ Begun[Len(Begun)] = Task
         /\ \A i \in DOMAIN tasks : Begun[i] = tasks[i]
<1>1. Task \in TaskType /\ tasks \in Seq(TaskType) /\ Len(tasks) \in Nat /\ DOMAIN tasks = 1..Len(tasks)
  BY TaskAsked, TaskFacts DEF Types
<1>2. /\ Begun \in Seq(TaskType) /\ Len(Begun) = Len(tasks) + 1
      /\ Begun[Len(tasks) + 1] = Task
      /\ \A i \in DOMAIN tasks : Begun[i] = tasks[i]
  BY <1>1, AppendProperties DEF Begun
<1>3. DOMAIN Begun = 1..Len(Begun)
  BY <1>2, LenProperties
<1>4. QED
  BY <1>1, <1>2, <1>3

\* A task that ends or gets on keeps what it was asked for.
LEMMA SetFacts ==
  ASSUME Types, NEW i \in DOMAIN tasks,
         NEW s \in {"running", "copied", "ok", "collision", "generic", "refused"}, Set(i, s)
  PROVE  /\ tasks' \in Seq(TaskType) /\ Len(tasks') = Len(tasks) /\ DOMAIN tasks' = DOMAIN tasks
         /\ tasks'[i].state = s /\ tasks'[i].from = tasks[i].from
         /\ tasks'[i].to = tasks[i].to /\ tasks'[i].move = tasks[i].move
         /\ \A j \in DOMAIN tasks : j # i => tasks'[j] = tasks[j]
<1> DEFINE t == [tasks[i] EXCEPT !.state = s]
<1>1. tasks[i] \in TaskType /\ DOMAIN tasks = 1..Len(tasks) /\ tasks \in Seq(TaskType)
  BY TaskFacts DEF Types
<1>2. t \in TaskType /\ t.state = s /\ t.from = tasks[i].from /\ t.to = tasks[i].to
      /\ t.move = tasks[i].move
  BY <1>1 DEF TaskType
<1>3. tasks' = [tasks EXCEPT ![i] = t]
  BY DEF Set
<1> HIDE DEF t
<1>4. /\ tasks' \in Seq(TaskType) /\ Len(tasks') = Len(tasks)
      /\ \A k \in 1..Len(tasks) : tasks'[k] = IF k = i THEN t ELSE tasks[k]
  BY <1>1, <1>2, <1>3, ExceptSeq
<1>5. DOMAIN tasks' = 1..Len(tasks')
  BY <1>4, LenProperties
<1>6. QED
  BY <1>1, <1>2, <1>4, <1>5

\* What is carried leaves one place and stands at the other; nothing else moves.
LEMMA Carried ==
  ASSUME tree \in [Places -> Contents], NEW from \in Places, NEW to \in Places, from # to,
         NEW what \in Contents, tree' = Carry(from, to, what)
  PROVE  /\ tree' \in [Places -> Contents] /\ tree'[to] = what /\ tree'[from] = "none"
         /\ \A p \in Places : p \notin {from, to} => tree'[p] = tree[p]
  BY DEF Carry, Contents

(***************************************************************************)
(* What every step has in common.                                           *)
(***************************************************************************)

\* A call ends heard, lost, refused or misled, and every step counts at most one
\* such event; what was asked does not change.
Ended == Heard \/ Silent \/ Refused \/ Misled
\* Every call ends in one of the four ways and leaves the request as it was.
LEMMA DaemonEnds == Daemon => Ended /\ UNCHANGED asked
<1> USE DEF Ended
<1>1. Start \/ FindTask \/ Poll => Ended /\ UNCHANGED asked
  BY DEF Start, FindTask, Poll
<1>2. Probe \/ Watch \/ Arrived \/ Recheck \/ Left \/ MakeFolder \/ Confirm => Ended /\ UNCHANGED asked
  BY DEF Probe, Watch, Arrived, Recheck, Left, MakeFolder, Confirm
<1>3. Direct \/ Stage \/ Clear \/ Hop \/ Copy => Ended /\ UNCHANGED asked
  BY DEF Direct, Stage, Clear, Hop, Copy, Heard
<1>4. Claim \/ Rename \/ Look \/ Again \/ VerifyMoved => Ended /\ UNCHANGED asked
  BY DEF Claim, Rename, Look, Again, VerifyMoved
<1>5. ReadBack \/ Discard \/ Wipe \/ Retire \/ Renamed => Ended /\ UNCHANGED asked
  BY DEF ReadBack, Discard, Wipe, Retire, Renamed
<1>6. Same \/ Delete \/ Deleted \/ Restore \/ Back => Ended /\ UNCHANGED asked
  BY DEF Same, Delete, Deleted, Restore, Back
<1>7. QED
  BY <1>1, <1>2, <1>3, <1>4, <1>5, <1>6 DEF Daemon

\* So does every step of File Station, which leaves the daemon alone too.
LEMMA FileStationEnds == FileStation => Ended /\ UNCHANGED <<asked, daemon, folder>>
  BY DEF FileStation, RunTask, RemoveSource, FailTask, Ended, Heard

\* What a step may count: answers lost and misleading never both, edits only by
\* their own action.
LEMMA Counting ==
  ASSUME Types, [Next]_vars
  PROVE  /\ verify' = verify /\ crosses' = crosses
         /\ lost' \in {lost, lost + 1} /\ misled' \in {misled, misled + 1}
         /\ lost' = lost \/ misled' = misled
         /\ refused' \in {refused, refused + 1} /\ others' \in {others, others + 1}
         /\ edits' = edits \/ (edits' = edits + 1 /\ Edit)
<1>1. CASE Daemon \/ FileStation
  BY <1>1, DaemonEnds, FileStationEnds DEF Ended, Heard, Silent, Refused, Misled, counts, asked
<1>2. CASE OtherWriter \/ Edit
  BY <1>2 DEF OtherWriter, Edit, asked
<1>3. CASE UNCHANGED vars
  BY <1>3 DEF vars, asked, counts
<1>4. QED
  BY <1>1, <1>2, <1>3 DEF Next

\* Few calls touch the tree themselves, and one the list of tasks.
LEMMA QuietCalls ==
  Daemon => /\ Rename \/ Wipe \/ Retire \/ Delete \/ Restore \/ UNCHANGED tree
            /\ Start \/ UNCHANGED tasks
<1>1. Start => UNCHANGED tree
  BY DEF Start
<1>2. FindTask \/ Poll \/ Probe \/ Direct \/ Watch \/ Arrived => UNCHANGED <<tree, tasks>>
  BY DEF FindTask, Poll, Probe, Direct, Watch, Arrived, world
<1>3. Recheck \/ Left \/ MakeFolder \/ Stage \/ Confirm \/ Clear => UNCHANGED <<tree, tasks>>
  BY DEF Recheck, Left, MakeFolder, Stage, Confirm, Clear, RemoveEmptyFolder, world
<1>4. Claim \/ Look \/ Again \/ VerifyMoved \/ Hop => UNCHANGED <<tree, tasks>>
  BY DEF Claim, Look, Again, VerifyMoved, Hop, RemoveEmptyFolder, world
<1>5. Copy \/ ReadBack \/ Discard \/ Renamed \/ Same \/ Deleted \/ Back => UNCHANGED <<tree, tasks>>
  BY DEF Copy, ReadBack, Discard, Renamed, Same, Deleted, Back, world
<1>6. Rename \/ Wipe \/ Retire \/ Delete \/ Restore => UNCHANGED tasks
  BY DEF Rename, Wipe, Retire, Delete, Restore
<1>7. QED
  BY <1>1, <1>2, <1>3, <1>4, <1>5, <1>6 DEF Daemon

(***************************************************************************)
(* Types.                                                                   *)
(***************************************************************************)

\* Every step leaves every place with something that can stand there.
LEMMA TreeTyped ==
  ASSUME Types, [Next]_vars
  PROVE  tree' \in [Places -> Contents]
<1> USE Geography, NamesFacts
<1>0. tree \in [Places -> Contents] /\ cur \in Names
  BY DEF Types, TypeOK
<1>1. ASSUME NEW i \in DOMAIN tasks, RunTask(i) \/ RemoveSource(i) \/ FailTask(i)
      PROVE  tree' \in [Places -> Contents]
  <2>1. tasks[i].from \in Places /\ tasks[i].to \in Places
    BY TaskFacts DEF TaskType
  <2>2. QED
    BY <1>0, <1>1, <2>1 DEF RunTask, RemoveSource, FailTask, Carry, Contents
<1>2. ASSUME OtherWriter \/ Edit PROVE tree' \in [Places -> Contents]
  BY <1>0, <1>2 DEF OtherWriter, Edit, Contents
<1>3. ASSUME Rename PROVE tree' \in [Places -> Contents]
  BY <1>0, <1>3, FirstFreeFacts DEF Rename, Carry, Contents
<1>4. ASSUME Wipe \/ Retire \/ Delete \/ Restore PROVE tree' \in [Places -> Contents]
  BY <1>0, <1>4 DEF Wipe, Wiped, Retire, Delete, Restore, Restored, Carry, Contents
<1>5. ASSUME UNCHANGED tree PROVE tree' \in [Places -> Contents]
  BY <1>0, <1>5
<1>6. ASSUME UNCHANGED vars PROVE UNCHANGED tree
  BY <1>6 DEF vars, world
<1>7. QED
  BY <1>1, <1>2, <1>3, <1>4, <1>5, <1>6, QuietCalls DEF Next, FileStation

\* File Station's list only grows, by well-formed tasks, and tasks change no
\* more than their state.
LEMMA TasksTyped ==
  ASSUME Types, [Next]_vars
  PROVE  tasks' \in Seq(TaskType) /\ Len(tasks') >= Len(tasks)
<1>0. tasks \in Seq(TaskType) /\ Len(tasks) \in Nat
  BY TaskFacts DEF Types
<1>1. ASSUME NEW i \in DOMAIN tasks, RunTask(i) \/ RemoveSource(i) \/ FailTask(i)
      PROVE  tasks' \in Seq(TaskType) /\ Len(tasks') = Len(tasks)
  <2>1. \E s \in {"running", "copied", "ok", "collision", "generic", "refused"} : Set(i, s)
    BY <1>1 DEF RunTask, RemoveSource, FailTask
  <2>2. QED
    BY <2>1, SetFacts
<1>2. CASE Start
  <2>1. tasks' = tasks \/ tasks' = Begun
    BY <1>2 DEF Start
  <2>2. QED
    BY <1>0, <2>1, BegunFacts
<1>3. ASSUME UNCHANGED tasks PROVE tasks' \in Seq(TaskType) /\ Len(tasks') = Len(tasks)
  BY <1>0, <1>3
<1>4. ASSUME OtherWriter \/ Edit \/ UNCHANGED vars PROVE UNCHANGED tasks
  BY <1>4 DEF OtherWriter, Edit, vars, world
<1>5. QED
  BY <1>0, <1>1, <1>2, <1>3, <1>4, QuietCalls DEF Next, FileStation

\* The types are kept.
LEMMA TypesStep == TransferInv /\ [Next]_vars => Types'
<1> SUFFICES ASSUME Types, Control, [Next]_vars PROVE Types'
  BY DEF TransferInv
<1>1. tree' \in [Places -> Contents] /\ tasks' \in Seq(TaskType) /\ Len(tasks') >= Len(tasks)
  BY TreeTyped, TasksTyped
<1>2. /\ verify' \in BOOLEAN /\ crosses' \in BOOLEAN
      /\ lost' \in Nat /\ refused' \in Nat /\ misled' \in Nat /\ others' \in Nat /\ edits' \in Nat
  BY Counting DEF Types
<1> DEFINE Rest == /\ folder' \in BOOLEAN /\ cur' \in Names /\ at' \in Names \cup {NoName}
                   /\ tries' \in 0..MaxTries /\ mine' \in 0..Len(tasks')
<1>3. Rest
  <2> USE NamesFacts DEF Goto, GotoHop, Tell, Answer, world, daemon, Park, Landed, Lost, KeptBoth
  <2>0. /\ folder \in BOOLEAN /\ cur \in Names /\ at \in Names \cup {NoName} /\ tries \in 0..MaxTries
        /\ MaxTries \in Nat /\ mine \in 0..Len(tasks) /\ Len(tasks) \in Nat /\ Len(tasks') \in Nat
        /\ DOMAIN tasks = 1..Len(tasks)
    BY <1>1, TaskFacts, LenProperties, TriesAssumption DEF Types, TypeOK
  <2>1. CASE Start
    <3>1. mine' = mine \/ (mine' = Len(Begun) /\ tasks' = Begun)
      BY <2>1 DEF Start
    <3>2. QED
      BY <1>1, <2>0, <2>1, <3>1, BegunFacts DEF Start
  <2>2. CASE FindTask \/ Poll
    BY <1>1, <2>0, <2>2 DEF FindTask, Poll, Matches
  <2>3. CASE Probe \/ Direct \/ Watch \/ Arrived \/ Recheck \/ Left \/ MakeFolder
    BY <1>1, <2>0, <2>3 DEF Probe, Direct, Watch, Arrived, Recheck, Left, MakeFolder
  <2>4. CASE Stage \/ Confirm \/ Clear \/ Hop \/ Look \/ VerifyMoved \/ Copy \/ ReadBack \/ Discard
    BY <1>1, <2>0, <2>4 DEF Stage, Confirm, Clear, RemoveEmptyFolder, Hop, Look, VerifyMoved, Copy,
                            ReadBack, Discard
  <2>5. CASE Claim \/ Rename
    BY <1>1, <2>0, <2>5, FirstFreeFacts DEF Claim, Rename
  <2>6. CASE Again
    BY <1>1, <2>0, <2>6 DEF Again, Control
  <2>7. CASE Wipe \/ Retire \/ Renamed \/ Same \/ Delete \/ Deleted \/ Restore \/ Back
    BY <1>1, <2>0, <2>7 DEF Wipe, Retire, Renamed, Same, Delete, Deleted, Restore, Back
  <2>8. CASE FileStation \/ OtherWriter \/ Edit \/ UNCHANGED vars
    BY <1>1, <2>0, <2>8, FileStationEnds DEF OtherWriter, Edit, vars
  <2>9. QED
    BY <2>1, <2>2, <2>3, <2>4, <2>5, <2>6, <2>7, <2>8 DEF Next, Daemon
<1>4. QED
  BY <1>1, <1>2, <1>3 DEF Types, TypeOK

(***************************************************************************)
(* The calls and the task polled.                                           *)
(***************************************************************************)

\* Each call leads only to the calls of its own route.
LEMMA ControlStep == TransferInv /\ [Next]_vars => Control'
<1> SUFFICES ASSUME Types, Control, [Next]_vars PROVE Control'
  BY DEF TransferInv
<1> USE DEF Control, Retiring, Goto, GotoHop, Tell, Answer, Park, Landed, Lost, KeptBoth, transit
<1>1. verify' = verify /\ crosses' = crosses
  BY Counting
<1>2. CASE Start \/ FindTask \/ Poll
  BY <1>1, <1>2 DEF Start, FindTask, Poll
<1>3. CASE Probe \/ Direct \/ Watch \/ Arrived
  BY <1>1, <1>3 DEF Probe, Direct, Watch, Arrived
<1>4. CASE Recheck \/ Left \/ MakeFolder \/ Stage \/ Confirm \/ Clear
  BY <1>1, <1>4 DEF Recheck, Left, MakeFolder, Stage, Confirm, Clear
<1>5. CASE Claim \/ Rename
  <2>1. tries \in Nat /\ MaxTries \in Nat /\ tries <= MaxTries
    BY TriesAssumption DEF Types, TypeOK
  <2>2. QED
    BY <1>1, <1>5, <2>1 DEF Claim, Rename
<1>6. CASE Hop \/ Look \/ Again \/ VerifyMoved
  BY <1>1, <1>6 DEF Hop, Look, Again, VerifyMoved
<1>7. CASE Copy \/ ReadBack \/ Discard \/ Wipe \/ Retire \/ Renamed
  BY <1>1, <1>7 DEF Copy, ReadBack, Discard, Wipe, Retire, Renamed
<1>8. CASE Same \/ Delete \/ Deleted \/ Restore \/ Back
  BY <1>1, <1>8 DEF Same, Delete, Deleted, Restore, Back
<1>9. CASE FileStation \/ OtherWriter \/ Edit \/ UNCHANGED vars
  BY <1>1, <1>9, FileStationEnds DEF OtherWriter, Edit, vars, daemon
<1>10. QED
  BY <1>2, <1>3, <1>4, <1>5, <1>6, <1>7, <1>8, <1>9 DEF Next, Daemon

\* File Station changes no task but in its state, and none that has ended.
LEMMA TaskSteps ==
  ASSUME Types, FileStation
  PROVE  /\ DOMAIN tasks' = DOMAIN tasks
         /\ \A i \in DOMAIN tasks : /\ tasks'[i].from = tasks[i].from /\ tasks'[i].to = tasks[i].to
                                    /\ tasks'[i].move = tasks[i].move
                                    /\ ~Open(i) => tasks'[i] = tasks[i]
<1>1. PICK i \in DOMAIN tasks : RunTask(i) \/ RemoveSource(i) \/ FailTask(i)
  BY DEF FileStation
<1>2. Open(i) /\ \E s \in {"running", "copied", "ok", "collision", "generic", "refused"} : Set(i, s)
  BY <1>1 DEF RunTask, RemoveSource, FailTask, Open
<1>3. QED
  BY <1>2, SetFacts

\* The task polled stays the one asked for.
LEMMA PollingStep == TransferInv /\ [Next]_vars => Polling'
<1> SUFFICES ASSUME Types, Control, Polling, [Next]_vars PROVE Polling'
  BY DEF TransferInv
<1> USE DEF Polling, Goto, GotoHop, Tell, Answer, Park, Landed, Lost, KeptBoth
<1>1. CASE Start
  <2>1. pc' = "poll" => mine' = Len(Begun) /\ tasks' = Begun
    BY <1>1 DEF Start
  <2>2. From' = From /\ To' = To /\ hop' = hop /\ (pc' = "answered" => err' # "ok")
    BY <1>1 DEF Start, From, To
  <2>3. QED
    BY <2>1, <2>2, BegunFacts DEF Asked, Task
<1>2. CASE FindTask \/ Poll
  BY <1>2 DEF FindTask, Poll, Matches, Asked, From, To, world
<1>3. CASE Probe \/ Direct \/ Watch \/ Arrived \/ Recheck \/ Left \/ MakeFolder \/ Stage \/ Confirm
  BY <1>3 DEF Probe, Direct, Watch, Arrived, Recheck, Left, MakeFolder, Stage, Confirm
<1>4. CASE Clear \/ Claim \/ Rename \/ Hop \/ Look \/ Again \/ VerifyMoved \/ Copy \/ ReadBack
  BY <1>4 DEF Clear, Claim, Rename, Hop, Look, Again, VerifyMoved, Copy, ReadBack
<1>5. CASE Discard \/ Wipe \/ Retire \/ Renamed \/ Same \/ Delete \/ Deleted \/ Restore \/ Back
  BY <1>5 DEF Discard, Wipe, Retire, Renamed, Same, Delete, Deleted, Restore, Back
<1>6. CASE FileStation
  <2>1. UNCHANGED <<pc, err, mine, hop, cur>> /\ From' = From /\ To' = To
    BY <1>6, FileStationEnds DEF daemon, From, To
  <2>2. \A i \in DOMAIN tasks : Asked(tasks[i]) => Asked(tasks[i])'
    BY <1>6, <2>1, TaskSteps DEF Asked
  <2>3. QED
    BY <1>6, <2>1, <2>2, TaskSteps DEF Open
<1>7. CASE OtherWriter \/ Edit \/ UNCHANGED vars
  BY <1>7 DEF OtherWriter, Edit, vars, world, daemon, Asked, From, To
<1>8. QED
  BY <1>1, <1>2, <1>3, <1>4, <1>5, <1>6, <1>7 DEF Next, Daemon

(***************************************************************************)
(* What File Station was asked for.                                         *)
(***************************************************************************)

\* File Station is asked for no more than the routes ask for.
LEMMA RequestsStep == TransferInv /\ [Next]_vars => Requests'
<1> SUFFICES ASSUME Types, Control, Polling, Requests, [Next]_vars PROVE Requests'
  BY DEF TransferInv
<1> USE DEF Claiming, Goto, GotoHop, Tell, Answer, Park, Landed, Lost, KeptBoth
<1>0. transit' = transit /\ crosses' = crosses
  BY Counting DEF transit
<1>1. CASE Start
  <2>1. pc = "ask" /\ hop' = hop /\ hop # "none" /\ pc' \notin {"probe", "ask", "claim", "rename", "readback"}
        /\ tasks' \in {tasks, Begun}
    BY <1>1 DEF Start, Control
  <2>2. \/ Straight(Task) /\ ~transit /\ Task.move
        \/ Staging(Task) /\ Task.move = ~transit /\ hop \in {"staged", "copy"}
        \/ Hopping(Task) /\ Task.move /\ hop = "claim"
    BY <2>1, Geography, NamesFacts DEF Task, Straight, Staging, Hopping, From, To, Control, Types, TypeOK
  <2>3. Staging(Task) => hop \in {"staged", "copy"}
    BY <2>1, Geography, NamesFacts DEF Task, Staging, From, To, Control, Types, TypeOK
  <2>4. Task.state = "running"
    BY DEF Task
  <2> HIDE DEF Claiming
  <2>5. CASE tasks' = tasks
    BY <1>0, <2>1, <2>5 DEF Requests, Claiming
  <2>6. CASE tasks' = Begun
    <3>1. /\ DOMAIN tasks' = DOMAIN tasks \cup {Len(Begun)} /\ tasks'[Len(Begun)] = Task
          /\ \A i \in DOMAIN tasks : tasks'[i] = tasks[i]
      BY <2>6, BegunFacts
    <3>2. \A i \in DOMAIN tasks : Staging(tasks[i]) => hop = "claim" /\ tasks[i].state = "ok"
      BY <2>1 DEF Requests, Claiming
    <3>3. \A i \in DOMAIN tasks' :
            /\ \/ Straight(tasks'[i]) /\ ~transit /\ tasks'[i].move
               \/ Staging(tasks'[i]) /\ tasks'[i].move = ~transit
               \/ Hopping(tasks'[i]) /\ tasks'[i].move /\ hop = "claim"
            /\ tasks'[i].state = "copied" => tasks'[i].from = Src /\ ~transit /\ crosses
      BY <2>2, <2>4, <3>1 DEF Requests
    <3>4. \A i \in DOMAIN tasks' : Staging(tasks'[i]) =>
            \/ i \in DOMAIN tasks /\ hop = "claim" /\ tasks'[i].state = "ok"
            \/ i = Len(Begun) /\ hop \in {"staged", "copy"}
      BY <2>3, <3>1, <3>2
    <3>5. \A i, j \in DOMAIN tasks' : Staging(tasks'[i]) /\ Staging(tasks'[j]) => i = j
      BY <3>1, <3>4 DEF Requests
    <3>6. Straight(Task) => DOMAIN tasks = {}
      BY <2>1, Geography, NamesFacts DEF Task, Straight, From, To, Control, Types, TypeOK, Requests
    <3>7. \A i, j \in DOMAIN tasks' : Straight(tasks'[i]) /\ Straight(tasks'[j]) => i = j
      BY <3>1, <3>6 DEF Requests
    <3> HIDE DEF Begun
    <3>8. QED
      BY <1>0, <2>1, <3>3, <3>4, <3>5, <3>7 DEF Requests, Claiming
  <2>7. QED
    BY <2>1, <2>5, <2>6
<1>2. CASE FindTask \/ Poll
  BY <1>0, <1>2 DEF FindTask, Poll, Requests, Control, world
<1>3. CASE Probe \/ Direct \/ Watch \/ Arrived \/ Recheck \/ Left \/ MakeFolder
  BY <1>0, <1>3 DEF Probe, Direct, Watch, Arrived, Recheck, Left, MakeFolder, Requests, Control, world
<1>4. CASE Stage \/ Copy
  <2>1. pc' \in {"claim", "readback"} => err = "ok" /\ Staging(tasks[mine]) /\ mine \in DOMAIN tasks
                                         /\ tasks[mine].state = "ok"
    BY <1>4 DEF Stage, Copy, Polling, Asked, Staging, From, To
  <2>2. UNCHANGED <<tasks, hop>> /\ pc' \notin {"probe", "ask", "rename"}
    BY <1>4 DEF Stage, Copy, world
  <2>3. hop # "claim"
    BY <1>4 DEF Stage, Copy
  <2>4. QED
    BY <1>0, <2>1, <2>2, <2>3 DEF Requests
<1>5. CASE Confirm \/ Clear \/ Claim \/ Rename \/ Hop \/ Look \/ Again \/ VerifyMoved
  BY <1>0, <1>5 DEF Confirm, Clear, Claim, Rename, Hop, Look, Again, VerifyMoved, Requests, Control, world
<1>6. CASE ReadBack \/ Discard \/ Wipe \/ Retire \/ Renamed \/ Same \/ Delete \/ Deleted \/ Restore \/ Back
  BY <1>0, <1>6 DEF ReadBack, Discard, Wipe, Retire, Renamed, Same, Delete, Deleted, Restore, Back,
                    Requests, Control, world
<1>7. CASE FileStation
  <2>1. UNCHANGED <<pc, hop>>
    BY <1>7, FileStationEnds DEF daemon
  <2>2. PICK i \in DOMAIN tasks : RunTask(i) \/ RemoveSource(i) \/ FailTask(i)
    BY <1>7 DEF FileStation
  <2>3. tasks'[i].state = "copied" => tasks[i].from = Src /\ ~transit /\ crosses
    <3>1. CASE RunTask(i)
      <4>1. PICK s \in {"ok", "copied"} :
              /\ Set(i, s)
              /\ s = "copied" => tasks[i].move /\ tasks[i].from = Src /\ crosses
        BY <3>1 DEF RunTask, Renames
      <4>2. tasks'[i].state = s
        BY <4>1, SetFacts
      <4>3. tasks[i].from = Src /\ tasks[i].move => ~transit
        BY Geography DEF Requests, Straight, Staging, Hopping
      <4>4. QED
        BY <4>1, <4>2, <4>3
    <3>2. CASE RemoveSource(i)
      BY <3>2, SetFacts DEF RemoveSource
    <3>3. CASE FailTask(i)
      <4>1. \E s \in {"collision", "generic", "refused"} : Set(i, s)
        BY <3>3 DEF FailTask
      <4>2. QED
        BY <4>1, SetFacts
    <3>4. QED
      BY <2>2, <3>1, <3>2, <3>3
  <2>4. \A j \in DOMAIN tasks : j # i => tasks'[j] = tasks[j]
    BY <2>2, SetFacts DEF RunTask, RemoveSource, FailTask
  <2>5. \A j \in DOMAIN tasks : /\ Straight(tasks'[j]) <=> Straight(tasks[j])
                                /\ Staging(tasks'[j]) <=> Staging(tasks[j])
                                /\ Hopping(tasks'[j]) <=> Hopping(tasks[j])
    BY <1>7, TaskSteps DEF Straight, Staging, Hopping
  <2>6. QED
    BY <1>0, <1>7, <2>1, <2>3, <2>4, <2>5, TaskSteps DEF Requests, Open
<1>8. CASE OtherWriter \/ Edit \/ UNCHANGED vars
  BY <1>0, <1>8 DEF OtherWriter, Edit, vars, world, daemon, Requests
<1>9. QED
  BY <1>1, <1>2, <1>3, <1>4, <1>5, <1>6, <1>7, <1>8 DEF Next, Daemon

(***************************************************************************)
(* What each step does to the tree.                                         *)
(***************************************************************************)

\* A task carries from one place to another, which was empty, or copies there.
LEMMA RunSteps ==
  ASSUME Types, Requests, NEW i \in DOMAIN tasks, RunTask(i)
  PROVE  LET t == tasks[i] IN
         /\ t.from \in Places /\ t.to \in Places /\ t.from # t.to /\ t.state = "running"
         /\ ~Empty(t.from) /\ Empty(t.to)
         /\ \A p \in Places : p \notin {t.from, t.to} => tree'[p] = tree[p]
         /\ \/ /\ t.move /\ (t.from = Src => ~crosses)
               /\ tree'[t.from] = "none" /\ tree'[t.to] = tree[t.from] /\ tasks'[i].state = "ok"
            \/ /\ t.from = Src /\ (t.move => crosses)
               /\ tree'[t.from] = tree[t.from] /\ tree'[t.to] \in {tree[t.from], "bad"}
               /\ tasks'[i].state = IF t.move THEN "copied" ELSE "ok"
<1> DEFINE t == tasks[i]
<1>1. t.from \in Places /\ t.to \in Places /\ tree \in [Places -> Contents] /\ t.move \in BOOLEAN
  BY TaskFacts DEF TaskType, Types, TypeOK
<1>2. t.from # t.to /\ (~t.move => t.from = Src)
  BY Geography, NamesFacts DEF Requests, Straight, Staging, Hopping
<1>3. t.state = "running" /\ ~Empty(t.from) /\ Empty(t.to)
  BY DEF RunTask, CanRun
<1>4. CASE Renames(t)
  <2>1. tree' = Carry(t.from, t.to, tree[t.from]) /\ Set(i, "ok")
    BY <1>4 DEF RunTask
  <2>2. tree[t.from] \in Contents
    BY <1>1
  <2>3. tasks'[i].state = "ok"
    BY <2>1, SetFacts
  <2> HIDE DEF t
  <2>4. /\ tree'[t.to] = tree[t.from] /\ tree'[t.from] = "none"
        /\ \A p \in Places : p \notin {t.from, t.to} => tree'[p] = tree[p]
    BY <1>1, <1>2, <2>1, <2>2, Carried
  <2>5. t.move /\ (t.from = Src => ~crosses)
    BY <1>4 DEF Renames
  <2>6. QED
    BY <1>1, <1>2, <1>3, <2>3, <2>4, <2>5 DEF t
<1>5. CASE ~Renames(t)
  <2>1. \E c \in {tree[t.from], "bad"} : tree' = [tree EXCEPT ![t.to] = c]
    BY <1>5 DEF RunTask
  <2>2. tasks'[i].state = IF t.move THEN "copied" ELSE "ok"
    BY <1>5, SetFacts DEF RunTask
  <2>3. t.from = Src /\ (t.move => crosses)
    BY <1>1, <1>2, <1>5 DEF Renames
  <2> HIDE DEF t
  <2>4. /\ tree'[t.to] \in {tree[t.from], "bad"} /\ tree'[t.from] = tree[t.from]
        /\ \A p \in Places : p \notin {t.from, t.to} => tree'[p] = tree[p]
    BY <1>1, <1>2, <2>1
  <2>5. QED
    BY <1>1, <1>2, <1>3, <2>2, <2>3, <2>4 DEF t
<1>6. QED
  BY <1>4, <1>5

\* File Station removes the source only of a plain move whose copy is made.
LEMMA RemoveSteps ==
  ASSUME Types, Requests, NEW i \in DOMAIN tasks, RemoveSource(i)
  PROVE  /\ tasks[i].from = Src /\ ~transit /\ crosses /\ tasks[i].state = "copied"
         /\ tasks'[i].state = "ok" /\ tree'[Src] = "none"
         /\ \A p \in Places : p # Src => tree'[p] = tree[p]
<1>1. tasks[i].from = Src /\ ~transit /\ crosses /\ tasks[i].state = "copied"
  BY DEF RemoveSource, Requests
<1>2. tasks'[i].state = "ok"
  BY SetFacts DEF RemoveSource
<1>3. tree' = [tree EXCEPT ![Src] = "none"]
  BY <1>1 DEF RemoveSource
<1>4. QED
  BY <1>1, <1>2, <1>3, Geography DEF Types, TypeOK

\* The calls that touch the tree, place by place.
LEMMA RenameSteps ==
  ASSUME Types, NamesTried, Rename
  PROVE  \/ UNCHANGED tree
         \/ /\ FirstFree \in Names /\ FirstFree > cur /\ Free(FirstFree)
            /\ \A m \in Names : m < FirstFree => ~Free(m)
            /\ tree'[Staged(FirstFree)] = tree[Staged(cur)] /\ tree'[Staged(cur)] = "none"
            /\ \A p \in Places : p \notin {Staged(cur), Staged(FirstFree)} => tree'[p] = tree[p]
<1>1. FirstFree \in Names /\ Free(FirstFree) /\ \A m \in Names : m < FirstFree => ~Free(m)
  BY FirstFreeFacts DEF Rename
<1>2. cur \in Names /\ tree \in [Places -> Contents]
  BY DEF Types, TypeOK
<1>3. FirstFree > cur
  BY <1>1, <1>2, NamesFacts DEF NamesTried, Rename
<1>4. UNCHANGED tree \/ tree' = Carry(Staged(cur), Staged(FirstFree), tree[Staged(cur)])
  BY DEF Rename
<1>5. Staged(cur) \in Places /\ Staged(FirstFree) \in Places /\ Staged(cur) # Staged(FirstFree)
  BY <1>1, <1>2, <1>3, Geography, NamesFacts
<1>6. tree[Staged(cur)] \in Contents
  BY <1>2, <1>5
<1> HIDE DEF FirstFree
<1>7. QED
  BY <1>1, <1>2, <1>3, <1>4, <1>5, <1>6, Carried

\* Wiping the staging folder touches nothing outside it.
LEMMA WipeSteps ==
  ASSUME Types, Wipe
  PROVE  /\ tree'[Src] = tree[Src] /\ tree'[Hidden] = tree[Hidden]
         /\ \A n \in Names : /\ tree'[Dest(n)] = tree[Dest(n)]
                             /\ tree'[Staged(n)] \in {tree[Staged(n)], "none"}
<1>1. UNCHANGED tree \/ tree' = Wiped
  BY DEF Wipe
<1>2. QED
  BY <1>1, Geography DEF Wiped, Types, TypeOK

\* The calls about the original move it between its place and the hidden one.
LEMMA RetireSteps ==
  ASSUME Types, Retire \/ Delete \/ Restore
  PROVE  /\ \A p \in Places : p \notin {Src, Hidden} => tree'[p] = tree[p]
         /\ \/ UNCHANGED tree
            \/ Retire /\ tree'[Src] = "none" /\ tree'[Hidden] = tree[Src]
            \/ Delete /\ tree'[Src] = tree[Src] /\ tree'[Hidden] = "none"
            \/ Restore /\ CanRestore /\ tree'[Src] = tree[Hidden] /\ tree'[Hidden] = "none"
  BY Geography DEF Retire, Delete, Restore, Restored, Carry, CanRestore, Types, TypeOK

\* Other writers take free names, and the user saves at the source.
LEMMA WorldSteps ==
  ASSUME Types, OtherWriter \/ Edit
  PROVE  \/ /\ tree'[Src] = "edit" /\ edits' = edits + 1
            /\ ~Empty(Src) \/ ~Empty(Hidden)
            /\ \A p \in Places : p # Src => tree'[p] = tree[p]
         \/ /\ edits' = edits
            /\ \E n \in Names : /\ Free(n) /\ tree'[Dest(n)] = "other"
                                /\ \A p \in Places : p # Dest(n) => tree'[p] = tree[p]
  BY Geography DEF OtherWriter, Edit, Types, TypeOK

\* Whatever stands at the destination stays there, by whomever it was put.
LEMMA DestStands ==
  ASSUME Types, Requests, NamesTried, [Next]_vars, NEW n \in Names, ~Free(n)
  PROVE  tree'[Dest(n)] = tree[Dest(n)]
<1>1. ASSUME NEW i \in DOMAIN tasks, RunTask(i) PROVE tree'[Dest(n)] = tree[Dest(n)]
  <2>1. tasks[i].from # Dest(n) /\ tasks[i].to # Dest(n)
    BY <1>1, RunSteps, Geography, NamesFacts DEF Requests, Straight, Staging, Hopping, Free
  <2>2. QED
    BY <1>1, <2>1, RunSteps, Geography
<1>2. ASSUME NEW i \in DOMAIN tasks, RemoveSource(i) PROVE tree'[Dest(n)] = tree[Dest(n)]
  BY <1>2, RemoveSteps, Geography
<1>3. ASSUME NEW i \in DOMAIN tasks, FailTask(i) PROVE tree'[Dest(n)] = tree[Dest(n)]
  BY <1>3 DEF FailTask
<1>4. CASE Rename
  <2>1. cur \in Names
    BY DEF Types, TypeOK
  <2> HIDE DEF FirstFree
  <2>2. QED
    BY <1>4, <2>1, RenameSteps, Geography
<1>5. CASE Wipe \/ Retire \/ Delete \/ Restore
  BY <1>5, WipeSteps, RetireSteps, Geography
<1>6. CASE OtherWriter \/ Edit
  BY <1>6, WorldSteps, Geography DEF Free
<1>7. CASE UNCHANGED vars
  BY <1>7 DEF vars, world
<1>8. QED
  BY <1>1, <1>2, <1>3, <1>4, <1>5, <1>6, <1>7, QuietCalls DEF Next, FileStation

(***************************************************************************)
(* The names tried.                                                         *)
(***************************************************************************)

\* Every call but the rename keeps the name held, and a route that was given up
\* stays given up.
LEMMA NameHeld ==
  ASSUME [Next]_vars
  PROVE  /\ cur' = cur \/ Rename
         /\ pc \in {"told", "discard", "wipe"} => pc' \in {"told", "discard", "wipe"}
         /\ hop = "claim" => hop' = "claim" \/ pc \in {"probe", "folder"}
         /\ pc' = "rename" => (pc = "rename" /\ cur' = cur) \/ Claim
<1> USE DEF Goto, GotoHop, Tell, Answer, Park, Landed, Lost, KeptBoth
<1>1. CASE Start \/ FindTask \/ Poll \/ Probe \/ Direct \/ Watch \/ Arrived \/ Recheck
  BY <1>1 DEF Start, FindTask, Poll, Probe, Direct, Watch, Arrived, Recheck
<1>2. CASE Left \/ MakeFolder \/ Stage \/ Confirm \/ Clear \/ Claim \/ Rename \/ Hop \/ Look \/ Again
  BY <1>2 DEF Left, MakeFolder, Stage, Confirm, Clear, Claim, Rename, Hop, Look, Again
<1>3. CASE VerifyMoved \/ Copy \/ ReadBack \/ Discard \/ Wipe \/ Retire
  BY <1>3 DEF VerifyMoved, Copy, ReadBack, Discard, Wipe, Retire
<1>4. CASE Renamed \/ Same \/ Delete \/ Deleted \/ Restore \/ Back
  BY <1>4 DEF Renamed, Same, Delete, Deleted, Restore, Back
<1>5. CASE FileStation \/ OtherWriter \/ Edit \/ UNCHANGED vars
  BY <1>5, FileStationEnds DEF OtherWriter, Edit, vars, daemon
<1>6. QED
  BY <1>1, <1>2, <1>3, <1>4, <1>5 DEF Next, Daemon

\* The names below the one held stay taken, and only it is staged.
LEMMA NamesTriedStep == TransferInv /\ [Next]_vars => NamesTried'
<1> SUFFICES ASSUME Types, Control, Requests, NamesTried, Plain, Verified, [Next]_vars PROVE NamesTried'
  BY DEF TransferInv
<1> USE Geography, NamesFacts
<1>1. cur \in Names /\ tree \in [Places -> Contents]
  BY DEF Types, TypeOK
<1>2. tree[Src] \in Ours \cup {"none"}
  BY DEF Plain, Verified, Empty, Holds, Ours, Genuine
<1>3. \A n \in Names : ~Free(n) => ~Free(n)'
  BY DestStands DEF Free, Empty
<1>4. ASSUME UNCHANGED tree, cur' = cur PROVE NamesTried'
  <2>1. ASSUME Claim, pc' = "rename" PROVE ~Free(cur)
    <3>1. NamesLeft /\ FirstFree # cur
      BY <2>1 DEF Claim, GotoHop, Park, Goto, Tell
    <3>2. FirstFree \in Names /\ Free(FirstFree) /\ \A m \in Names : m < FirstFree => ~Free(m)
      BY <3>1, FirstFreeFacts
    <3> HIDE DEF FirstFree
    <3>3. ~(FirstFree < cur)
      BY <3>2 DEF NamesTried
    <3>4. QED
      BY <1>1, <3>1, <3>2, <3>3
  <2>2. QED
    BY <1>1, <1>4, <2>1, NameHeld DEF NamesTried, Free, Empty, Holds
<1>5. ASSUME cur' = cur, pc' = pc,
             \A n \in Names : \/ tree'[Staged(n)] \in {tree[Staged(n)], "none"}
                              \/ n = cur /\ tree'[Staged(n)] \in Ours
      PROVE  NamesTried'
  BY <1>1, <1>3, <1>5 DEF NamesTried, Free, Empty, Holds, Ours
<1>6. ASSUME NEW i \in DOMAIN tasks, RunTask(i) PROVE NamesTried'
  <2>1. cur' = cur /\ pc' = pc
    BY <1>6 DEF RunTask, daemon
  <2>2. tasks[i].to = Staged(0) => cur = 0 /\ tasks[i].from = Src
    BY <1>6, RunSteps DEF Requests, Straight, Staging, Hopping, Claiming, Control
  <2>3. ASSUME NEW n \in Names, tree'[Staged(n)] \notin {tree[Staged(n)], "none"}
        PROVE  n = cur /\ tree'[Staged(n)] \in Ours
    <3>1. tasks[i].to = Staged(n)
      BY <1>6, <2>3, RunSteps
    <3>2. n = 0
      BY <3>1 DEF Requests, Straight, Staging, Hopping
    <3>3. tree'[Staged(n)] \in {tree[Src], "bad"}
      BY <1>6, <2>2, <3>1, <3>2, RunSteps
    <3>4. QED
      BY <1>2, <2>2, <2>3, <3>1, <3>2, <3>3 DEF Ours
  <2>4. QED
    BY <1>5, <2>1, <2>3
<1>7. ASSUME NEW i \in DOMAIN tasks, RemoveSource(i) \/ FailTask(i) PROVE NamesTried'
  <2>1. cur' = cur /\ pc' = pc
    BY <1>7 DEF RemoveSource, FailTask, daemon
  <2>2. \A n \in Names : tree'[Staged(n)] = tree[Staged(n)]
    BY <1>7, RemoveSteps DEF FailTask
  <2>3. QED
    BY <1>5, <2>1, <2>2
<1>8. CASE Rename /\ tree' # tree
  <2> DEFINE f == FirstFree
  <2> HIDE DEF f
  <2>1. /\ f \in Names /\ f > cur /\ \A m \in Names : m < f => ~Free(m)
        /\ tree'[Staged(f)] = tree[Staged(cur)] /\ tree'[Staged(cur)] = "none"
        /\ \A p \in Places : p \notin {Staged(cur), Staged(f)} => tree'[p] = tree[p]
    BY <1>8, RenameSteps DEF f
  <2>2. \/ cur' = f /\ pc' = "ask"
        \/ cur' = cur /\ pc' \in {"discard", "told"}
    BY <1>8 DEF Rename, Park, Goto, Tell, f
  <2>3. \A n \in Names : n \notin {cur, f} => tree'[Staged(n)] = tree[Staged(n)]
    BY <1>1, <2>1
  <2>4. \A n \in Names : ~Empty(Staged(n)) => n = cur /\ Holds(Staged(n))
    BY <1>8 DEF NamesTried, Rename
  <2>5. \A n \in Names : tree'[Staged(n)] # "none" => n = f /\ tree'[Staged(n)] \in Ours
    BY <1>1, <2>1, <2>3, <2>4 DEF Empty, Holds
  <2>6. QED
    BY <1>1, <1>3, <2>1, <2>2, <2>5 DEF NamesTried, Empty, Holds
<1>9. CASE Wipe \/ Retire \/ Delete \/ Restore
  <2>1. \A n \in Names : tree'[Staged(n)] \in {tree[Staged(n)], "none"}
    BY <1>9, WipeSteps, RetireSteps
  <2>2. cur' = cur /\ pc' # "rename" /\ (pc \in {"told", "discard", "wipe"} => pc' \in {"told", "discard", "wipe"})
    BY <1>9, NameHeld DEF Rename, Claim, Wipe, Retire, Delete, Restore
  <2>3. QED
    BY <1>1, <1>3, <2>1, <2>2 DEF NamesTried, Empty, Holds, Ours
<1>10. CASE OtherWriter \/ Edit
  <2>1. cur' = cur /\ pc' = pc
    BY <1>10 DEF OtherWriter, Edit, daemon
  <2>2. \A n \in Names : tree'[Staged(n)] = tree[Staged(n)]
    BY <1>10, WorldSteps
  <2>3. QED
    BY <1>5, <2>1, <2>2
<1>11. CASE UNCHANGED vars
  BY <1>4, <1>11 DEF vars, world, daemon
<1>12. CASE Daemon /\ UNCHANGED tree
  <2>1. CASE Rename
    <3>1. cur' = cur \/ (cur' = FirstFree /\ pc' = "ask" /\ tree' = Carry(Staged(cur), Staged(FirstFree), tree[Staged(cur)])
                         /\ ~Empty(Staged(cur)))
      BY <2>1 DEF Rename, Park, Goto, Tell
    <3>2. cur' = cur
      BY <1>1, <1>12, <2>1, <3>1, FirstFreeFacts DEF Carry, NamesTried, Rename, Empty
    <3>3. QED
      BY <1>4, <1>12, <3>2
  <2>2. QED
    BY <1>4, <1>12, <2>1, NameHeld
<1>13. QED
  BY <1>6, <1>7, <1>8, <1>9, <1>10, <1>11, <1>12, QuietCalls DEF Next, FileStation

(***************************************************************************)
(* What the tasks have carried.                                             *)
(***************************************************************************)

\* What a task has carried is not taken from where it stands.
LEMMA LandingsStep == TransferInv /\ [Next]_vars => Landings'
<1> SUFFICES ASSUME Types, Control, Requests, NamesTried, Landings, Plain, Verified, [Next]_vars
             PROVE  Landings'
  BY DEF TransferInv
<1> USE Geography, NamesFacts
<1> DEFINE Off(l) == l \in {"told", "discard", "wipe"}
<1>1. /\ hop' # "claim" => hop # "claim"
      /\ ~Off(pc') => ~Off(pc)
  BY NameHeld DEF Control
<1> HIDE DEF Off
<1>2. \A i \in DOMAIN tasks : \A n \in Names :
        tasks[i].to = Dest(n) /\ tasks[i].state \in {"copied", "ok"} => Holds(Dest(n))'
  BY DestStands DEF Landings, Holds, Free, Empty, Ours
<1>3. \A i \in DOMAIN tasks : tasks[i].to \in {Staged(0)} \cup {Dest(n) : n \in Names}
  BY DEF Requests, Straight, Staging, Hopping
<1>4. \A i \in DOMAIN tasks : tasks[i].state = "copied" /\ tasks[i].to = Staged(0) => Staging(tasks[i]) /\ ~Claiming
  BY DEF Requests, Staging
<1>5. ASSUME \/ tree'[Staged(0)] = tree[Staged(0)]
             \/ Holds(Staged(0))'
             \/ /\ \A j \in DOMAIN tasks : tasks[j].to = Staged(0) => tasks[j].state # "copied"
                /\ hop' = "claim" \/ Off(pc')
      PROVE  \A j \in DOMAIN tasks :
               /\ tasks[j].state = "copied" => tree'[tasks[j].to] \in Ours
               /\ \A n \in Names : tasks[j].state = "ok" /\ tasks[j].to = Dest(n) => Holds(Dest(n))'
               /\ Staging(tasks[j]) /\ tasks[j].state = "ok" /\ hop' # "claim" /\ ~Off(pc')
                    => Holds(Staged(0))'
  BY <1>1, <1>2, <1>3, <1>5 DEF Landings, Holds, Off
<1>6. CASE FileStation
  <2>1. PICK i \in DOMAIN tasks : RunTask(i) \/ RemoveSource(i) \/ FailTask(i)
    BY <1>6 DEF FileStation
  <2>2. \A j \in DOMAIN tasks : j # i => tasks'[j] = tasks[j]
    BY <2>1, SetFacts DEF RunTask, RemoveSource, FailTask
  <2>3. DOMAIN tasks' = DOMAIN tasks /\ tasks'[i].to = tasks[i].to /\ tasks'[i].from = tasks[i].from
    BY <1>6, TaskSteps
  <2>4. UNCHANGED <<pc, hop>>
    BY <1>6, FileStationEnds DEF daemon
  <2>5. ASSUME tasks'[i].state \in {"ok", "copied"} PROVE tree'[tasks[i].to] \in Ours
    <3>1. CASE RunTask(i)
      <4>1. tree[tasks[i].from] \in Ours
        BY <3>1, RunSteps DEF Requests, Straight, Staging, Hopping, Plain, Verified, NamesTried,
                              Empty, Holds, Genuine, Ours
      <4>2. QED
        BY <3>1, <4>1, RunSteps DEF Holds, Ours
    <3>2. CASE RemoveSource(i)
      BY <1>3, <3>2, RemoveSteps DEF Landings, Holds
    <3>3. CASE FailTask(i)
      <4>1. \E s \in {"collision", "generic", "refused"} : Set(i, s)
        BY <3>3 DEF FailTask
      <4>2. QED
        BY <2>5, <4>1, SetFacts
    <3>4. QED
      BY <2>1, <3>1, <3>2, <3>3
  <2>6. \/ tree'[Staged(0)] = tree[Staged(0)]
        \/ Holds(Staged(0))'
        \/ /\ \A j \in DOMAIN tasks : tasks[j].to = Staged(0) => tasks[j].state # "copied"
           /\ hop' = "claim"
    <3>1. CASE RunTask(i) /\ tasks[i].to = Staged(0)
      <4>1. tasks'[i].state \in {"ok", "copied"}
        BY <3>1, RunSteps
      <4>2. QED
        BY <2>5, <3>1, <4>1 DEF Holds
    <3>2. CASE RunTask(i) /\ tasks[i].from = Staged(0)
      BY <1>4, <2>4, <3>2 DEF Requests, Straight, Staging, Hopping, Claiming
    <3>3. CASE RunTask(i) /\ Staged(0) \notin {tasks[i].from, tasks[i].to}
      BY <3>3, RunSteps
    <3>4. CASE RemoveSource(i) \/ FailTask(i)
      BY <3>4, RemoveSteps DEF FailTask
    <3>5. QED
      BY <2>1, <3>1, <3>2, <3>3, <3>4
  <2>7. Staging(tasks'[i]) <=> Staging(tasks[i])
    BY <2>3 DEF Staging
  <2>8. QED
    BY <1>5, <2>2, <2>3, <2>5, <2>6, <2>7 DEF Landings, Staging, Holds, Off
<1>7. CASE Start
  <2>1. tasks' = tasks \/ (tasks' = Begun /\ Task.state = "running")
    BY <1>7 DEF Start, Task
  <2>2. UNCHANGED tree
    BY <1>7 DEF Start
  <2> HIDE DEF Task, Begun
  <2>3. QED
    BY <1>5, <2>1, <2>2, BegunFacts DEF Landings, Off, Holds
<1>8. ASSUME UNCHANGED tasks,
             \/ tree'[Staged(0)] = tree[Staged(0)]
             \/ /\ \A j \in DOMAIN tasks : tasks[j].to = Staged(0) => tasks[j].state # "copied"
                /\ hop' = "claim" \/ Off(pc')
      PROVE  Landings'
  BY <1>5, <1>8 DEF Landings, Off, Holds
<1>9. CASE Rename
  <2>1. UNCHANGED tasks /\ (hop' = "claim" \/ Off(pc')) /\ Claiming
    BY <1>9 DEF Rename, Park, Goto, Tell, Claiming, Off
  <2>2. QED
    BY <1>4, <1>8, <2>1
<1>10. CASE Wipe
  <2>1. UNCHANGED tasks /\ Off(pc') /\ transit
    BY <1>10 DEF Wipe, Tell, Control, Off
  <2>2. QED
    BY <1>8, <2>1 DEF Requests
<1>11. CASE Retire \/ Delete \/ Restore
  BY <1>8, <1>11, RetireSteps DEF Retire, Delete, Restore
<1>12. CASE OtherWriter \/ Edit
  BY <1>8, <1>12, WorldSteps DEF OtherWriter, Edit
<1>13. CASE UNCHANGED <<tree, tasks>>
  BY <1>8, <1>13
<1>14. QED
  BY <1>6, <1>7, <1>9, <1>10, <1>11, <1>12, <1>13, QuietCalls DEF Next, vars, world

(***************************************************************************)
(* The plain move.                                                          *)
(***************************************************************************)

\* The calls come to claim a name, to look at an arrival or to verify one only
\* once the source is gone.
LEMMA SourceGone ==
  ASSUME Control, Polling, Plain, Daemon, ~transit,
         Claiming' \/ pc' \in {"verify", "arrive"}
  PROVE  Empty(Src)
<1> USE DEF Control, Retiring, Plain, Goto, GotoHop, Tell, Answer, Park, Landed, Lost, Claiming
<1>1. pc = "answered" /\ err = "ok" /\ hop \in {"direct", "staged"} => Empty(Src)
  BY DEF Polling, Asked, From
<1>2. CASE Start \/ FindTask \/ Poll \/ Probe \/ Direct \/ Watch \/ Arrived \/ Recheck \/ Left
  BY <1>1, <1>2 DEF Start, FindTask, Poll, Probe, Direct, Watch, Arrived, Recheck, Left
<1>3. CASE MakeFolder \/ Stage \/ Confirm \/ Clear \/ Claim \/ Rename \/ Hop \/ Look \/ Again
  BY <1>1, <1>3 DEF MakeFolder, Stage, Confirm, Clear, Claim, Rename, Hop, Look, Again
<1>4. CASE VerifyMoved \/ Copy \/ ReadBack \/ Discard \/ Wipe
  BY <1>4 DEF VerifyMoved, Copy, ReadBack, Discard, Wipe
<1>5. CASE Retire \/ Renamed \/ Same \/ Delete \/ Deleted \/ Restore \/ Back
  BY <1>5 DEF Retire, Renamed, Same, Delete, Deleted, Restore, Back
<1>6. QED
  BY <1>2, <1>3, <1>4, <1>5 DEF Daemon

\* A copy that is away stays away: it is moved on, never removed.
LEMMA StaysAway ==
  ASSUME Types, Control, Requests, NamesTried, ~transit, Away, [Next]_vars
  PROVE  Away'
<1> USE Geography, NamesFacts
<1>1. CASE \E n \in Names : Holds(Dest(n))
  BY <1>1, DestStands DEF Away, Holds, Free, Empty, Ours
<1>2. ASSUME NEW n \in Names, Holds(Staged(n)) PROVE Away'
  <2>1. CASE tree'[Staged(n)] = tree[Staged(n)]
    BY <1>2, <2>1 DEF Away, Holds
  <2>2. ASSUME NEW i \in DOMAIN tasks, RunTask(i), tree'[Staged(n)] # tree[Staged(n)] PROVE Away'
    <3>1. Staged(n) = tasks[i].from
      BY <1>2, <2>2, RunSteps DEF Holds, Empty, Ours
    <3>2. tasks[i].to = Dest(n)
      BY <3>1 DEF Requests, Straight, Staging, Hopping
    <3>3. tree'[Dest(n)] = tree[Staged(n)]
      BY <2>2, <3>1, <3>2, RunSteps
    <3>4. QED
      BY <1>2, <3>3 DEF Away, Holds
  <2>3. CASE Rename /\ tree'[Staged(n)] # tree[Staged(n)]
    <3> DEFINE f == FirstFree
    <3> HIDE DEF f
    <3>1. /\ f \in Names /\ f > cur /\ tree'[Staged(f)] = tree[Staged(cur)]
          /\ \A p \in Places : p \notin {Staged(cur), Staged(f)} => tree'[p] = tree[p]
      BY <2>3, RenameSteps DEF f
    <3>2. ~Empty(Staged(n)) => n = cur
      BY <2>3 DEF NamesTried, Rename
    <3>3. n = cur
      BY <1>2, <3>2 DEF Holds, Empty, Ours
    <3>4. QED
      BY <1>2, <3>1, <3>3 DEF Away, Holds
  <2>4. CASE Wipe
    BY <2>4 DEF Control, Wipe
  <2>5. CASE Retire \/ Delete \/ Restore
    BY <2>1, <2>5, RetireSteps
  <2>6. CASE OtherWriter \/ Edit
    BY <2>1, <2>6, WorldSteps
  <2>7. ASSUME NEW i \in DOMAIN tasks, RemoveSource(i) \/ FailTask(i) PROVE Away'
    BY <2>1, <2>7, RemoveSteps DEF FailTask
  <2>8. QED
    BY <2>1, <2>2, <2>3, <2>4, <2>5, <2>6, <2>7, QuietCalls DEF Next, FileStation, vars, world
<1>3. QED
  BY <1>1, <1>2 DEF Away

\* The source of a plain move changes hands only by the tasks from it.
LEMMA PlainSource ==
  ASSUME Types, Control, Requests, Landings, NamesTried, Plain, ~transit, [Next]_vars
  PROVE  /\ tree'[Hidden] = "none" /\ tree'[Src] \in Ours \cup {"none"}
         /\ Empty(Src) => tree'[Src] = "none"
         /\ tree'[Src] = "none" => Away'
         /\ ~FileStation => (tree'[Src] = "none" <=> Empty(Src))
<1> USE Geography, NamesFacts
<1>0. /\ Empty(Hidden) /\ tree[Src] \in Ours \cup {"none"} /\ (Empty(Src) => Away')
  BY StaysAway DEF Plain, Empty, Holds
<1>1. ASSUME tree'[Src] = tree[Src], tree'[Hidden] = tree[Hidden]
      PROVE  /\ tree'[Hidden] = "none" /\ tree'[Src] \in Ours \cup {"none"}
             /\ Empty(Src) <=> tree'[Src] = "none"
             /\ tree'[Src] = "none" => Away'
  BY <1>0, <1>1 DEF Empty
<1>2. ASSUME NEW i \in DOMAIN tasks, RunTask(i)
      PROVE  \/ tree'[Src] = tree[Src] /\ tree'[Hidden] = tree[Hidden]
             \/ tree'[Src] = "none" /\ tree'[Hidden] = tree[Hidden] /\ Away'
  <2>1. Hidden \notin {tasks[i].from, tasks[i].to} /\ Src # tasks[i].to
    BY DEF Requests, Straight, Staging, Hopping
  <2>2. tasks[i].from = Src => tasks[i].to \in {Staged(0), Dest(0)}
    BY DEF Requests, Straight, Staging, Hopping
  <2>3. CASE tree'[Src] # tree[Src]
    <3>1. tasks[i].from = Src /\ tree'[Src] = "none" /\ tree'[tasks[i].to] = tree[Src] /\ ~Empty(Src)
      BY <1>2, <2>1, <2>3, RunSteps
    <3>2. QED
      BY <1>0, <1>2, <2>1, <2>2, <3>1, RunSteps DEF Away, Holds, Empty
  <2>4. QED
    BY <1>2, <2>1, <2>3, RunSteps
<1>3. ASSUME NEW i \in DOMAIN tasks, RemoveSource(i)
      PROVE  tree'[Src] = "none" /\ tree'[Hidden] = tree[Hidden] /\ Away'
  <2>1. tasks[i].to \in {Staged(0), Dest(0)} /\ Holds(tasks[i].to)
    BY <1>3, RemoveSteps DEF Requests, Straight, Staging, Hopping, Landings
  <2>2. QED
    BY <1>3, <2>1, RemoveSteps DEF Away, Holds
<1>4. ASSUME NEW i \in DOMAIN tasks, FailTask(i) PROVE UNCHANGED tree
  BY <1>4 DEF FailTask
<1>5. CASE FileStation
  <2>1. PICK i \in DOMAIN tasks : RunTask(i) \/ RemoveSource(i) \/ FailTask(i)
    BY <1>5 DEF FileStation
  <2>2. \/ tree'[Src] = tree[Src] /\ tree'[Hidden] = tree[Hidden]
        \/ tree'[Src] = "none" /\ tree'[Hidden] = tree[Hidden] /\ Away'
    BY <1>2, <1>3, <1>4, <2>1
  <2>3. QED
    BY <1>0, <1>1, <1>5, <2>2 DEF Empty
<1>6. CASE Rename
  <2>1. cur \in Names
    BY DEF Types, TypeOK
  <2> HIDE DEF FirstFree
  <2>2. tree'[Src] = tree[Src] /\ tree'[Hidden] = tree[Hidden]
    BY <1>6, <2>1, RenameSteps
  <2>3. QED
    BY <1>1, <2>2
<1>7. CASE Wipe \/ Retire \/ Delete \/ Restore
  BY <1>7 DEF Control, Retiring, Wipe, Retire, Delete, Restore
<1>8. CASE OtherWriter \/ Edit
  BY <1>0, <1>1, <1>8, WorldSteps DEF Empty, Ours
<1>9. CASE UNCHANGED tree
  BY <1>1, <1>9
<1>10. QED
  BY <1>5, <1>6, <1>7, <1>8, <1>9, QuietCalls DEF Next, vars, world

\* What the user saved is carried with the file by a move in one filesystem.
LEMMA EditCarried ==
  ASSUME Types, Control, Requests, NamesTried, Plain, ~transit, ~crosses, [Next]_vars, edits' > 0
  PROVE  \E p \in Places : tree'[p] = "edit"
<1> USE Geography, NamesFacts
<1>1. CASE OtherWriter \/ Edit
  <2>1. CASE tree'[Src] = "edit"
    BY <2>1
  <2>2. CASE edits' = edits
    <3>1. PICK p \in Places : tree[p] = "edit"
      BY <2>2 DEF Plain
    <3>2. tree'[p] = "edit"
      BY <1>1, <2>1, <3>1, WorldSteps DEF Free, Empty
    <3>3. QED
      BY <3>2
  <2>3. QED
    BY <1>1, <2>1, <2>2, WorldSteps
<1>2. CASE ~(OtherWriter \/ Edit)
  <2>1. edits' = edits
    BY <1>2, Counting
  <2>2. PICK p \in Places : tree[p] = "edit"
    BY <2>1 DEF Plain
  <2>3. CASE tree'[p] = tree[p]
    BY <2>2, <2>3
  <2>4. ASSUME NEW i \in DOMAIN tasks, RunTask(i), tree'[p] # tree[p] PROVE \E q \in Places : tree'[q] = "edit"
    <3>1. p = tasks[i].from /\ tasks[i].to \in Places
      BY <2>2, <2>4, RunSteps DEF Empty
    <3>2. tree'[tasks[i].to] = "edit"
      BY <2>2, <2>4, <3>1, RunSteps
    <3>3. QED
      BY <3>1, <3>2
  <2>5. ASSUME NEW i \in DOMAIN tasks, RemoveSource(i) \/ FailTask(i) PROVE tree'[p] = tree[p]
    BY <2>5, RemoveSteps DEF FailTask
  <2>6. CASE Rename /\ tree'[p] # tree[p]
    <3> DEFINE f == FirstFree
    <3> HIDE DEF f
    <3>1. /\ f \in Names /\ f > cur /\ tree'[Staged(f)] = tree[Staged(cur)]
          /\ \A q \in Places : q \notin {Staged(cur), Staged(f)} => tree'[q] = tree[q]
      BY <2>6, RenameSteps DEF f
    <3>2. p = Staged(cur) \/ p = Staged(f)
      BY <2>6, <3>1
    <3>3. p = Staged(cur)
      BY <2>2, <2>6, <3>1, <3>2 DEF NamesTried, Empty, Rename
    <3>4. QED
      BY <2>2, <3>1, <3>3
  <2>7. ~(Wipe \/ Retire \/ Delete \/ Restore)
    BY DEF Control, Retiring, Wipe, Retire, Delete, Restore
  <2>8. QED
    BY <1>2, <2>3, <2>4, <2>5, <2>6, <2>7, QuietCalls DEF Next, FileStation, vars, world
<1>3. QED
  BY <1>1, <1>2

\* A plain move keeps its account of the source.
LEMMA PlainStep == TransferInv /\ [Next]_vars => Plain'
<1> SUFFICES ASSUME Types, Control, Polling, Requests, NamesTried, Landings, Plain, [Next]_vars, ~transit
             PROVE  Plain'
  BY Counting DEF TransferInv, Plain, transit
<1>1. /\ tree'[Hidden] = "none" /\ tree'[Src] \in Ours \cup {"none"}
      /\ tree'[Src] = "none" => Away'
      /\ Empty(Src) => tree'[Src] = "none"
      /\ ~FileStation => (tree'[Src] = "none" <=> Empty(Src))
  BY PlainSource
<1>2. tree'[Src] = "none" <=> \E i \in DOMAIN tasks' : tasks'[i].from = Src /\ tasks'[i].state = "ok"
  <2>0. Empty(Src) <=> \E i \in DOMAIN tasks : tasks[i].from = Src /\ tasks[i].state = "ok"
    BY DEF Plain
  <2>1. CASE UNCHANGED tasks /\ ~FileStation
    BY <1>1, <2>0, <2>1
  <2>2. CASE Start /\ tasks' = Begun /\ ~FileStation
    <3>1. Task.state # "ok"
      BY DEF Task
    <3> HIDE DEF Task, Begun
    <3>2. /\ DOMAIN tasks' = DOMAIN tasks \cup {Len(Begun)} /\ tasks'[Len(Begun)] = Task
          /\ \A i \in DOMAIN tasks : tasks'[i] = tasks[i]
      BY <2>2, BegunFacts
    <3>3. (\E i \in DOMAIN tasks' : tasks'[i].from = Src /\ tasks'[i].state = "ok")
            <=> \E i \in DOMAIN tasks : tasks[i].from = Src /\ tasks[i].state = "ok"
      BY <3>1, <3>2
    <3>4. QED
      BY <1>1, <2>0, <2>2, <3>3
  <2>3. CASE FileStation
    <3>1. PICK i \in DOMAIN tasks : RunTask(i) \/ RemoveSource(i) \/ FailTask(i)
      BY <2>3 DEF FileStation
    <3>2. /\ DOMAIN tasks' = DOMAIN tasks /\ tasks'[i].from = tasks[i].from
          /\ \A j \in DOMAIN tasks : j # i => tasks'[j] = tasks[j]
      BY <3>1, SetFacts DEF RunTask, RemoveSource, FailTask
    <3>3. tasks[i].state # "ok"
      BY <3>1 DEF RunTask, RemoveSource, FailTask, Open
    <3>4. CASE RunTask(i)
      <4>1. tasks[i].to # Src /\ (tasks[i].from = Src => tasks[i].move)
        BY Geography, NamesFacts DEF Requests, Straight, Staging, Hopping
      <4>2. tasks[i].from = Src => (tree'[Src] = "none" <=> tasks'[i].state = "ok")
        BY <3>4, <4>1, RunSteps DEF Empty
      <4>3. tasks[i].from # Src => tree'[Src] = tree[Src]
        BY <3>4, <4>1, RunSteps, Geography
      <4>4. tasks[i].from = Src => ~Empty(Src)
        BY <3>4, RunSteps
      <4>5. QED
        BY <2>0, <3>2, <3>3, <4>2, <4>3, <4>4 DEF Empty
    <3>5. CASE RemoveSource(i)
      BY <3>2, <3>5, RemoveSteps
    <3>6. CASE FailTask(i)
      <4>1. tree' = tree /\ \E s \in {"collision", "generic", "refused"} : Set(i, s)
        BY <3>6 DEF FailTask
      <4>2. tasks'[i].state # "ok"
        BY <4>1, SetFacts
      <4>3. QED
        BY <2>0, <3>2, <3>3, <4>1, <4>2 DEF Empty
    <3>7. QED
      BY <3>1, <3>4, <3>5, <3>6
  <2>4. Start => tasks' \in {tasks, Begun}
    BY DEF Start
  <2>5. OtherWriter \/ Edit \/ UNCHANGED vars => UNCHANGED tasks
    BY DEF OtherWriter, Edit, vars, world
  <2>6. QED
    BY <2>1, <2>2, <2>3, <2>4, <2>5, QuietCalls DEF Next
<1>3. Claiming' \/ pc' \in {"verify", "arrive"} => tree'[Src] = "none"
  <2>1. CASE Daemon
    BY <1>1, <2>1, SourceGone
  <2>2. CASE ~Daemon
    <3>1. UNCHANGED <<pc, hop>>
      BY <2>2, FileStationEnds DEF Next, OtherWriter, Edit, vars, daemon
    <3>2. QED
      BY <1>1, <3>1 DEF Plain, Claiming
  <2>3. QED
    BY <2>1, <2>2
<1>4. ~crosses' /\ edits' > 0 => \E p \in Places : tree'[p] = "edit"
  BY Counting, EditCarried
<1>5. QED
  BY <1>1, <1>2, <1>3, <1>4 DEF Plain, Empty, Holds

(***************************************************************************)
(* The verified move.                                                       *)
(***************************************************************************)

\* File Station only reads the original of a verified move, and carries from the
\* staging folder only what was read back.
LEMMA VerifiedTasks ==
  ASSUME Types, Requests, Verified, transit, NEW i \in DOMAIN tasks,
         RunTask(i) \/ RemoveSource(i) \/ FailTask(i)
  PROVE  /\ tree'[Src] = tree[Src] /\ tree'[Hidden] = tree[Hidden]
         /\ \A n \in Names : tree'[Dest(n)] \in {tree[Dest(n)], "orig"}
         /\ Claiming => \A n \in Names : tree'[Staged(n)] \in {tree[Staged(n)], "none"}
<1> USE Geography, NamesFacts
<1>1. ~RemoveSource(i)
  BY DEF RemoveSource, Requests
<1>2. CASE FailTask(i)
  BY <1>2 DEF FailTask
<1>3. CASE RunTask(i) /\ Staging(tasks[i])
  <2>1. tasks[i].from = Src /\ tasks[i].to = Staged(0) /\ ~tasks[i].move /\ tasks[i].state # "ok"
    BY <1>3, RunSteps DEF Requests, Staging, Straight, Hopping
  <2>2. ~Claiming
    BY <1>3, <2>1 DEF Requests
  <2>3. \A p \in Places : p # Staged(0) => tree'[p] = tree[p]
    BY <1>3, <2>1, RunSteps
  <2>4. QED
    BY <2>2, <2>3
<1>4. CASE RunTask(i) /\ ~Staging(tasks[i])
  <2>1. PICK n \in Names : tasks[i].from = Staged(n) /\ tasks[i].to = Dest(n) /\ hop = "claim"
    BY <1>4 DEF Requests, Hopping
  <2>2. tree[Staged(n)] = "orig"
    BY <1>4, <2>1, RunSteps DEF Verified, Claiming, Empty
  <2>3. /\ tree'[Staged(n)] = "none" /\ tree'[Dest(n)] = "orig"
        /\ \A p \in Places : p \notin {Staged(n), Dest(n)} => tree'[p] = tree[p]
    BY <1>4, <2>1, <2>2, RunSteps
  <2>4. QED
    BY <2>3
<1>5. QED
  BY <1>1, <1>2, <1>3, <1>4

\* A call that comes to retire the original has found the whole copy in place.
LEMMA RetiresForCopy ==
  ASSUME Types, Control, Polling, Requests, Landings, Verified, Daemon, transit, pc' \in Retiring
  PROVE  tree[Dest(cur)] = "orig" /\ cur' = cur
<1> USE DEF Goto, GotoHop, Tell, Answer, Park, Landed, Lost, KeptBoth, Retiring, Control
<1>1. tree[Dest(cur)] \in {"none", "other", "orig"} /\ (pc \in Retiring => tree[Dest(cur)] = "orig")
  BY DEF Verified, Types, TypeOK
<1>2. CASE Hop
  <2>1. err = "ok" /\ hop = "claim" /\ cur' = cur /\ pc = "answered"
    BY <1>2 DEF Hop
  <2>2. tasks[mine].to = Dest(cur) /\ tasks[mine].state = "ok" /\ mine \in DOMAIN tasks
    BY <2>1 DEF Polling, Asked, To
  <2>3. Holds(Dest(cur))
    BY <2>2 DEF Landings, Types, TypeOK
  <2>4. QED
    BY <1>1, <2>1, <2>3 DEF Holds, Ours
<1>3. CASE Arrived
  BY <1>1, <1>3 DEF Arrived, Alike
<1>4. CASE Retire \/ Renamed \/ Same \/ Delete \/ Deleted \/ Restore \/ Back
  BY <1>1, <1>4 DEF Retire, Renamed, Same, Delete, Deleted, Restore, Back
<1>5. CASE Start \/ FindTask \/ Poll \/ Probe \/ Direct \/ Watch \/ Recheck \/ Left \/ MakeFolder
  BY <1>5 DEF Start, FindTask, Poll, Probe, Direct, Watch, Recheck, Left, MakeFolder
<1>6. CASE Stage \/ Confirm \/ Clear \/ Claim \/ Rename \/ Look \/ Again
  BY <1>6 DEF Stage, Confirm, Clear, Claim, Rename, Look, Again
<1>7. CASE VerifyMoved \/ Copy \/ ReadBack \/ Discard \/ Wipe
  BY <1>7 DEF VerifyMoved, Copy, ReadBack, Discard, Wipe
<1>8. QED
  BY <1>2, <1>3, <1>4, <1>5, <1>6, <1>7 DEF Daemon

\* A call that comes to claim a name has read the staged copy back.
LEMMA ClaimsForCopy ==
  ASSUME Types, Control, NamesTried, Verified, Daemon, transit, Claiming'
  PROVE  \A n \in Names : tree[Staged(n)] \in {"none", "orig"}
<1> USE DEF Goto, GotoHop, Tell, Answer, Park, Landed, Lost, KeptBoth, Claiming, Control, Retiring
<1>1. Claiming => \A n \in Names : tree[Staged(n)] \in {"none", "orig"}
  BY DEF Verified
<1>2. CASE ReadBack
  <2>1. tree[Staged(0)] = "orig" /\ cur = 0 /\ pc \notin {"told", "discard", "wipe"}
    BY <1>2 DEF ReadBack
  <2>2. QED
    BY <2>1 DEF NamesTried, Empty
<1>3. CASE Start \/ FindTask \/ Poll \/ Probe \/ Direct \/ Watch \/ Arrived \/ Recheck \/ Left
  BY <1>1, <1>3 DEF Start, FindTask, Poll, Probe, Direct, Watch, Arrived, Recheck, Left
<1>4. CASE MakeFolder \/ Stage \/ Confirm \/ Clear \/ Claim \/ Rename \/ Hop \/ Look \/ Again
  BY <1>1, <1>4 DEF MakeFolder, Stage, Confirm, Clear, Claim, Rename, Hop, Look, Again
<1>5. CASE VerifyMoved \/ Copy \/ Discard \/ Wipe \/ Retire \/ Renamed
  BY <1>1, <1>5 DEF VerifyMoved, Copy, Discard, Wipe, Retire, Renamed
<1>6. CASE Same \/ Delete \/ Deleted \/ Restore \/ Back
  BY <1>1, <1>6 DEF Same, Delete, Deleted, Restore, Back
<1>7. QED
  BY <1>2, <1>3, <1>4, <1>5, <1>6 DEF Daemon

\* The calls of a verified move that leave the original alone, and where they
\* lead: behind the retirement only from behind it.
OriginalStands == ~Empty(Src) /\ Empty(Hidden)
\* Where the original of a verified move stands at each of its calls.
LEMMA VerifiedCalls ==
  ASSUME Control, Verified, Daemon, transit
  PROVE  /\ pc' \notin (Retiring \ {"retire"}) \cup {"told"} => OriginalStands
         /\ told' = "failed" => OriginalStands
         /\ pc' = "same" => ~Empty(Hidden) \/ Retire
         /\ pc' = "delete" => tree[Hidden] = "orig"
         /\ pc \in {"rename", "retire"} => OriginalStands
         /\ pc = "delete" => tree[Hidden] = "orig" /\ tree[Dest(cur)] = "orig"
<1> USE DEF Control, Retiring, Verified, OriginalStands, Goto, GotoHop, Tell, Answer, Park, Landed,
            Lost, KeptBoth
<1>1. CASE Start \/ FindTask \/ Poll \/ Probe \/ Direct \/ Watch
  BY <1>1 DEF Start, FindTask, Poll, Probe, Direct, Watch
<1>2. CASE Arrived \/ Recheck \/ Left \/ MakeFolder \/ Stage \/ Confirm \/ Clear
  BY <1>2 DEF Arrived, Recheck, Left, MakeFolder, Stage, Confirm, Clear
<1>3. CASE Claim \/ Rename \/ Hop \/ Look \/ Again
  BY <1>3 DEF Claim, Rename, Hop, Look, Again
<1>4. CASE VerifyMoved \/ Copy \/ ReadBack \/ Discard \/ Wipe
  BY <1>4 DEF VerifyMoved, Copy, ReadBack, Discard, Wipe
<1>5. CASE Retire \/ Renamed
  BY <1>5 DEF Retire, Renamed
<1>6. CASE Same
  BY <1>6 DEF Same, Alike, Genuine
<1>7. CASE Delete \/ Deleted \/ Restore \/ Back
  BY <1>7 DEF Delete, Deleted, Restore, Back
<1>8. QED
  BY <1>1, <1>2, <1>3, <1>4, <1>5, <1>6, <1>7 DEF Daemon

\* A verified move keeps its original until the copy is in place.
LEMMA VerifiedStep == TransferInv /\ [Next]_vars => Verified'
<1> SUFFICES ASSUME Types, Control, Polling, Requests, NamesTried, Landings, Verified, [Next]_vars, transit
             PROVE  Verified'
  BY Counting DEF TransferInv, Verified, transit
<1> USE Geography, NamesFacts
<1>1. cur \in Names /\ tree \in [Places -> Contents] /\ edits \in Nat
  BY DEF Types, TypeOK
<1> DEFINE Inside ==
      /\ tree'[Src] \in Genuine /\ tree'[Hidden] \in Genuine
      /\ edits' = 0 => tree'[Src] # "edit" /\ tree'[Hidden] # "edit"
      /\ edits' > 0 => tree'[Src] = "edit" \/ tree'[Hidden] = "edit"
      /\ pc' \notin (Retiring \ {"retire"}) \cup {"told"} => tree'[Src] # "none" /\ tree'[Hidden] = "none"
      /\ told' = "failed" => tree'[Src] # "none"
      /\ pc' = "same" => tree'[Hidden] # "none"
      /\ pc' = "delete" => tree'[Hidden] = "orig"
      /\ tree'[Src] # "none" \/ tree'[Hidden] # "none" \/ tree'[Dest(cur')] = "orig"
    Outside ==
      /\ \A n \in Names : tree'[Dest(n)] \in {"none", "other", "orig"}
      /\ Claiming' => \A n \in Names : tree'[Staged(n)] \in {"none", "orig"}
      /\ pc' \in Retiring => tree'[Dest(cur')] = "orig"
<1>2. ASSUME Inside, Outside PROVE Verified'
  BY <1>2 DEF Verified, Empty, Retiring
<1>3. tree[Dest(cur)] = "orig" => tree'[Dest(cur)] = "orig"
  BY <1>1, DestStands DEF Free, Empty
<1>4. CASE Daemon
  <2>1. edits' = edits
    BY <1>4, DaemonEnds DEF Ended, Heard, Silent, Refused, Misled, counts
  <2>2. /\ pc' \notin (Retiring \ {"retire"}) \cup {"told"} => OriginalStands
        /\ told' = "failed" => OriginalStands
        /\ pc' = "same" => ~Empty(Hidden) \/ Retire
        /\ pc' = "delete" => tree[Hidden] = "orig"
        /\ pc \in {"rename", "retire"} => OriginalStands
        /\ pc = "delete" => tree[Hidden] = "orig" /\ tree[Dest(cur)] = "orig"
    BY <1>4, VerifiedCalls
  <2>3. cur' = cur \/ OriginalStands
    BY <2>2, NameHeld DEF Rename
  <2>4. Inside
    <3>1. CASE tree'[Src] = tree[Src] /\ tree'[Hidden] = tree[Hidden]
      <4>1. pc' = "same" => ~Empty(Hidden)
        BY <1>1, <2>2, <3>1 DEF Retire, Goto, Tell, KeptBoth, Carry, OriginalStands, Empty
      <4>2. tree'[Src] # "none" \/ tree'[Hidden] # "none" \/ tree'[Dest(cur')] = "orig"
        BY <1>3, <2>3, <3>1 DEF Verified, OriginalStands, Empty
      <4>3. QED
        BY <2>1, <2>2, <3>1, <4>1, <4>2 DEF Verified, OriginalStands, Empty
    <3>2. CASE Retire /\ tree'[Src] = "none" /\ tree'[Hidden] = tree[Src]
      <4>0. OriginalStands
        BY <2>2, <3>2 DEF Retire
      <4>1. pc' \in {"same", "renamed"}
        BY <3>2, <4>0 DEF Retire, Goto, OriginalStands, Empty
      <4>2. told' # "failed"
        BY <3>2, <4>0 DEF Retire, Goto, KeptBoth, Tell, Control, OriginalStands, Empty
      <4>3. QED
        BY <2>1, <3>2, <4>0, <4>1, <4>2 DEF Verified, OriginalStands, Empty, Retiring
    <3>3. CASE Delete /\ tree'[Src] = tree[Src] /\ tree'[Hidden] = "none"
      <4>1. pc' \in {"told", "deleted"} /\ told' # "failed" /\ cur' = cur
        BY <3>3 DEF Delete, Goto, Tell, Control
      <4>3. pc = "delete"
        BY <3>3 DEF Delete
      <4>2. QED
        BY <1>3, <2>1, <2>2, <3>3, <4>1, <4>3 DEF Verified, Retiring, Genuine
    <3>4. CASE Restore /\ CanRestore /\ tree'[Src] = tree[Hidden] /\ tree'[Hidden] = "none"
      <4>1. pc' \in {"told", "back"}
        BY <3>4 DEF Restore, Goto, KeptBoth, Tell
      <4>2. QED
        BY <2>1, <3>4, <4>1 DEF Verified, CanRestore, Empty, Retiring
    <3>5. Rename => tree'[Src] = tree[Src] /\ tree'[Hidden] = tree[Hidden]
      <4> HIDE DEF FirstFree
      <4>1. QED
        BY <1>1, RenameSteps
    <3>6. QED
      BY <1>4, <3>1, <3>2, <3>3, <3>4, <3>5, WipeSteps, RetireSteps, QuietCalls
  <2>5. Outside
    <3>1. \A n \in Names : tree'[Dest(n)] = tree[Dest(n)]
      <4> HIDE DEF FirstFree
      <4>1. Rename => \A n \in Names : tree'[Dest(n)] = tree[Dest(n)]
        BY <1>1, RenameSteps
      <4>2. QED
        BY <1>4, <4>1, WipeSteps, RetireSteps, QuietCalls
    <3>2. Claiming' => \A n \in Names : tree'[Staged(n)] \in {"none", "orig"}
      <4>1. Claiming' => \A n \in Names : tree[Staged(n)] \in {"none", "orig"}
        BY <1>4, ClaimsForCopy
      <4>2. \A n \in Names : tree'[Staged(n)] \in {tree[Staged(n)], "none"}
            \/ (Rename /\ tree'[Staged(n)] \in {tree[Staged(n)], tree[Staged(cur)], "none"})
        <5> HIDE DEF FirstFree
        <5>1. Rename => \A n \in Names : tree'[Staged(n)] \in {tree[Staged(n)], tree[Staged(cur)], "none"}
          BY <1>1, RenameSteps
        <5>2. QED
          BY <1>4, <5>1, WipeSteps, RetireSteps, QuietCalls
      <4>3. QED
        BY <1>1, <4>1, <4>2
    <3>3. QED
      BY <1>1, <1>4, <3>1, <3>2, RetiresForCopy DEF Verified
  <2>6. QED
    BY <1>2, <2>4, <2>5
<1>5. CASE ~Daemon
  <2>1. UNCHANGED <<pc, hop, cur, told>>
    BY <1>5, FileStationEnds DEF Next, OtherWriter, Edit, vars, daemon
  <2>2. CASE FileStation
    <3>1. PICK i \in DOMAIN tasks : RunTask(i) \/ RemoveSource(i) \/ FailTask(i)
      BY <2>2 DEF FileStation
    <3>2. edits' = edits
      BY <2>2, FileStationEnds DEF Ended, Heard, Silent, Refused, Misled, counts
    <3>3. /\ tree'[Src] = tree[Src] /\ tree'[Hidden] = tree[Hidden]
          /\ \A n \in Names : tree'[Dest(n)] \in {tree[Dest(n)], "orig"}
          /\ Claiming => \A n \in Names : tree'[Staged(n)] \in {tree[Staged(n)], "none"}
      BY <3>1, VerifiedTasks
    <3>4. Inside
      BY <1>3, <2>1, <3>2, <3>3 DEF Verified, Empty
    <3>5. Outside
      BY <1>1, <1>3, <2>1, <3>3 DEF Verified, Claiming
    <3>6. QED
      BY <1>2, <3>4, <3>5
  <2>3. CASE OtherWriter \/ Edit
    <3>1. Inside
      BY <1>1, <1>3, <2>1, <2>3, WorldSteps DEF Verified, Empty, Genuine
    <3>2. Outside
      BY <1>1, <1>3, <2>1, <2>3, WorldSteps DEF Verified, Claiming
    <3>3. QED
      BY <1>2, <3>1, <3>2
  <2>4. CASE UNCHANGED vars
    BY <2>4 DEF vars, world, daemon, counts, Verified, Claiming, Empty
  <2>5. QED
    BY <1>5, <2>2, <2>3, <2>4 DEF Next
<1>6. QED
  BY <1>4, <1>5

(***************************************************************************)
(* What the answers are worth.                                              *)
(***************************************************************************)

\* Of a route still at its straight move, the one task is the one polled.
LEMMA StraightAlone ==
  ASSUME Types, Requests, hop \in {"none", "direct"}
  PROVE  \A i, j \in DOMAIN tasks : Straight(tasks[i]) /\ i = j
<1>1. \A i \in DOMAIN tasks : Straight(tasks[i])
  BY DEF Requests
<1>2. QED
  BY <1>1 DEF Requests

\* A failure heard of the straight move is the end of its task.
LEMMA SettledStep == TransferInv /\ [Next]_vars => Settled'
<1> SUFFICES ASSUME Types, Control, Polling, Requests, Settled, [Next]_vars,
                    ~transit, misled' = 0, hop' \in {"none", "direct"},
                    \/ pc' \in {"probe", "recheck", "left", "folder", "ask"}
                    \/ pc' = "answered" /\ err' \notin {"ok", "lost"}
                    \/ told' = "failed"
             PROVE  \A i \in DOMAIN tasks' : Over(tasks'[i])
  BY Counting DEF TransferInv, Settled, transit
<1> USE DEF Goto, GotoHop, Tell, Answer, Park, Landed, Lost, KeptBoth
<1>1. misled = 0
  BY Counting DEF Types
<1> DEFINE Before == \/ pc \in {"probe", "recheck", "left", "folder", "ask"}
                     \/ pc = "answered" /\ err \notin {"ok", "lost"}
                     \/ told = "failed"
<1>2. hop \in {"none", "direct"} /\ Before => \A i \in DOMAIN tasks : Over(tasks[i])
  BY <1>1 DEF Settled
<1> HIDE DEF Over
<1>3. CASE Start
  <2>1. UNCHANGED tasks /\ hop' = hop /\ pc = "ask"
    BY <1>3 DEF Start, Control
  <2>2. QED
    BY <1>2, <2>1
<1>4. CASE FindTask
  <2>1. pc = "list" /\ hop' = hop /\ hop = "direct" /\ Matches = {} /\ UNCHANGED tasks
    BY <1>4 DEF FindTask, Control, world
  <2>2. \A i \in DOMAIN tasks : Straight(tasks[i]) /\ tasks[i].move
    BY <2>1, StraightAlone DEF Requests, Staging, Hopping
  <2>3. From = Src /\ To = Dest(0)
    BY <2>1 DEF From, To
  <2>4. DOMAIN tasks = {}
    BY <2>1, <2>2, <2>3 DEF Matches, Straight
  <2>5. QED
    BY <2>1, <2>4
<1>5. CASE Poll
  <2>1. pc = "poll" /\ hop' = hop /\ hop = "direct" /\ UNCHANGED tasks /\ ~Open(mine) /\ err' = tasks[mine].state
        /\ err' # "ok"
    BY <1>1, <1>5 DEF Poll, Control, world, Misled, Types
  <2>2. mine \in DOMAIN tasks /\ tasks[mine] \in TaskType
    BY <2>1, TaskFacts DEF Polling
  <2>3. Over(tasks[mine])
    BY <2>1, <2>2 DEF Over, Open, TaskType
  <2>4. QED
    BY <2>1, <2>2, <2>3, StraightAlone
<1>6. CASE Probe \/ Direct \/ Watch \/ Arrived \/ Recheck \/ Left \/ MakeFolder
  <2>1. hop \in {"none", "direct"} /\ Before /\ UNCHANGED tasks
    BY <1>6 DEF Probe, Direct, Watch, Arrived, Recheck, Left, MakeFolder, Control, world
  <2>2. QED
    BY <1>2, <2>1
<1>7. CASE Stage \/ Confirm \/ Clear \/ Claim \/ Rename \/ Hop \/ Look \/ Again \/ VerifyMoved \/ Copy
  BY <1>7 DEF Stage, Confirm, Clear, Claim, Rename, Hop, Look, Again, VerifyMoved, Copy, Control
<1>8. CASE ReadBack \/ Discard \/ Wipe \/ Retire \/ Renamed \/ Same \/ Delete \/ Deleted \/ Restore \/ Back
  BY <1>8 DEF ReadBack, Discard, Wipe, Retire, Renamed, Same, Delete, Deleted, Restore, Back,
              Control, Retiring
<1>9. CASE FileStation
  <2>1. hop' = hop /\ (pc' = pc /\ err' = err /\ told' = told)
    BY <1>9, FileStationEnds DEF daemon
  <2>2. Before
    BY <2>1
  <2>3. QED
    BY <1>2, <1>9, <2>1, <2>2, TaskSteps DEF Over, Open
<1>10. CASE OtherWriter \/ Edit \/ UNCHANGED vars
  BY <1>2, <1>10 DEF OtherWriter, Edit, vars, world, daemon
<1>11. QED
  BY <1>3, <1>4, <1>5, <1>6, <1>7, <1>8, <1>9, <1>10 DEF Next, Daemon

\* The place a straight move is told of is the one it went to.
LEMMA NamedStep == TransferInv /\ [Next]_vars => Named'
<1> SUFFICES ASSUME Types, Control, Named, [Next]_vars, pc' = "told"
             PROVE  /\ hop' = "direct" => told' \in {"failed", "gone"} \/ at' = 0
                    /\ hop' = "claim" /\ ~transit => told' # "failed"
  BY Counting DEF TransferInv, Named, transit
<1> USE DEF Goto, GotoHop, Tell, Answer, Park, Landed, Lost, KeptBoth, Control, Retiring
<1>1. CASE Start \/ FindTask \/ Poll \/ Probe \/ Direct \/ Watch \/ Arrived \/ Recheck
  BY <1>1 DEF Start, FindTask, Poll, Probe, Direct, Watch, Arrived, Recheck
<1>2. CASE Left \/ MakeFolder \/ Stage \/ Confirm \/ Clear \/ Claim \/ Rename \/ Hop \/ Look \/ Again
  BY <1>2 DEF Left, MakeFolder, Stage, Confirm, Clear, Claim, Rename, Hop, Look, Again
<1>3. CASE VerifyMoved \/ Copy \/ ReadBack \/ Discard \/ Wipe \/ Retire
  BY <1>3 DEF VerifyMoved, Copy, ReadBack, Discard, Wipe, Retire
<1>4. CASE Renamed \/ Same \/ Delete \/ Deleted \/ Restore \/ Back
  BY <1>4 DEF Renamed, Same, Delete, Deleted, Restore, Back
<1>5. CASE FileStation \/ OtherWriter \/ Edit \/ UNCHANGED vars
  BY <1>5, FileStationEnds DEF OtherWriter, Edit, vars, daemon, Named
<1>6. QED
  BY <1>1, <1>2, <1>3, <1>4, <1>5 DEF Next, Daemon

\* A call off the straight path was sent there by an answer lost or wrong.
LEMMA AnswersStep ==
  ASSUME Types, Control, Polling, Doubts, [Next]_vars
  PROVE  /\ pc' \in {"list", "watch", "look", "renamed"} => lost' > 0
         /\ err' \in {"lost", "notstarted"} => lost' > 0
<1> USE DEF Goto, GotoHop, Tell, Answer, Park, Landed, Lost, KeptBoth
<1>1. lost' >= lost /\ lost \in Nat /\ (lost' = lost \/ lost' > 0)
  BY Counting DEF Types
<1>2. pc \in {"list", "watch", "look", "renamed"} \/ err \in {"lost", "notstarted"} => lost > 0
  BY DEF Doubts
<1>3. CASE Poll
  <2>1. tasks[mine].state \notin {"lost", "notstarted"}
    BY <1>3, TaskFacts DEF Poll, Polling, TaskType
  <2>2. QED
    BY <1>1, <1>2, <1>3, <2>1 DEF Poll, Silent, Misled
<1>4. CASE Start \/ FindTask
  <2>1. lost' = lost => ~Silent
    BY <1>1 DEF Silent
  <2>2. err' = err \/ err' \in {"generic", "refused"} \/ lost > 0 \/ Silent
    BY <1>2, <1>4 DEF Start, FindTask
  <2>3. pc' \in {"poll", "answered"} \/ Silent
    BY <1>4 DEF Start, FindTask
  <2>4. QED
    BY <1>1, <1>2, <2>1, <2>2, <2>3
<1>5. CASE Probe \/ Direct \/ Watch \/ Arrived \/ Recheck
  BY <1>1, <1>2, <1>5 DEF Probe, Direct, Watch, Arrived, Recheck
<1>6. CASE Left \/ MakeFolder \/ Stage \/ Confirm \/ Clear \/ Claim \/ Rename \/ Hop \/ Look \/ Again
  BY <1>1, <1>2, <1>6 DEF Left, MakeFolder, Stage, Confirm, Clear, Claim, Rename, Hop, Look, Again
<1>7. CASE VerifyMoved \/ Copy \/ ReadBack \/ Discard \/ Wipe \/ Retire
  BY <1>1, <1>2, <1>7 DEF VerifyMoved, Copy, ReadBack, Discard, Wipe, Retire, Silent
<1>8. CASE Renamed \/ Same \/ Delete \/ Deleted \/ Restore \/ Back
  BY <1>1, <1>2, <1>8 DEF Renamed, Same, Delete, Deleted, Restore, Back
<1>9. CASE FileStation \/ OtherWriter \/ Edit \/ UNCHANGED vars
  BY <1>1, <1>2, <1>9, FileStationEnds DEF OtherWriter, Edit, vars, daemon
<1>10. QED
  BY <1>3, <1>4, <1>5, <1>6, <1>7, <1>8, <1>9 DEF Next, Daemon

\* A call behind the retirement that finds the original missing has missed
\* answers.
LEMMA DoubtsStep == TransferInv /\ [Next]_vars => Doubts'
<1> SUFFICES ASSUME Types, Control, Polling, Requests, NamesTried, Verified, Doubts, [Next]_vars
             PROVE  Doubts'
  BY DEF TransferInv
<1> USE Geography
<1>1. tree \in [Places -> Contents] /\ lost \in Nat /\ misled \in Nat
  BY DEF Types, TypeOK
<1>2. Doubt \in Nat /\ Doubt' \in {Doubt, Doubt + 1}
  BY Counting DEF Types, Doubt
<1> DEFINE Behind ==
      /\ pc' = "deleted" /\ tree'[Hidden] = "none" => Doubt' >= 1
      /\ pc' = "restore" /\ tree'[Hidden] = "none" => Doubt' >= 2
      /\ pc' = "back" /\ tree'[Hidden] = "none" => Doubt' >= 1 /\ (tree'[Src] = "none" => Doubt' >= 2)
      /\ pc' = "renamed" /\ tree'[Hidden] = "none" => tree'[Src] # "none"
<1>3. ASSUME Behind PROVE Doubts'
  BY <1>3, AnswersStep DEF Doubts, Empty, Doubt
<1>4. CASE Daemon /\ pc' \notin {"deleted", "restore", "back", "renamed"}
  BY <1>3, <1>4
<1>5. CASE Retire
  <2>1. OriginalStands
    BY <1>5 DEF Retire, Verified, Control, Retiring, OriginalStands
  <2>2. QED
    BY <1>1, <1>3, <1>5, <2>1 DEF Retire, Goto, KeptBoth, Tell, Carry, OriginalStands, Empty
<1>6. CASE Same
  <2>1. UNCHANGED tree /\ pc' \in {"delete", "restore"} /\ ~Empty(Hidden)
    BY <1>6 DEF Same, Goto, world, Verified, Control, Retiring
  <2>2. QED
    BY <1>3, <2>1 DEF Empty
<1>7. CASE Delete
  <2>1. tree[Hidden] = "orig"
    BY <1>7 DEF Delete, Verified, Control, Retiring
  <2>2. \/ pc' = "told"
        \/ pc' = "deleted" /\ UNCHANGED tree
        \/ pc' = "deleted" /\ lost' = lost + 1
    BY <1>7 DEF Delete, Goto, Tell, Silent
  <2>3. lost' = lost + 1 => Doubt' >= 1
    BY <1>1, Counting DEF Doubt
  <2>4. QED
    BY <1>3, <2>1, <2>2, <2>3
<1>8. CASE Deleted
  <2>1. UNCHANGED tree /\ pc = "deleted" /\ pc' \in {"told", "restore"}
        /\ (pc' = "restore" => ~Empty(Hidden) \/ lost' = lost + 1)
    BY <1>8 DEF Deleted, Goto, Tell, Silent, world
  <2>2. lost' = lost + 1 => Doubt' = Doubt + 1
    BY <1>1, Counting DEF Doubt
  <2>3. Empty(Hidden) => Doubt >= 1
    BY <2>1 DEF Doubts
  <2>4. QED
    BY <1>2, <1>3, <2>1, <2>2, <2>3 DEF Empty
<1>9. CASE Restore
  <2>1. pc = "restore" /\ pc' \in {"told", "back"}
    BY <1>9 DEF Restore, Goto, KeptBoth, Tell
  <2>2. Empty(Hidden) => Doubt >= 2
    BY <2>1 DEF Doubts
  <2>3. \/ pc' = "told"
        \/ tree' = tree
        \/ CanRestore /\ tree' = Restored /\ lost' = lost + 1
    BY <1>9 DEF Restore, Goto, KeptBoth, Tell, Silent
  <2>4. lost' = lost + 1 => Doubt' >= 1
    BY <1>1, Counting DEF Doubt
  <2>5. CanRestore /\ tree' = Restored => tree'[Src] # "none"
    BY <1>1 DEF CanRestore, Restored, Carry, Empty
  <2>6. QED
    BY <1>2, <1>3, <2>1, <2>2, <2>3, <2>4, <2>5 DEF Empty
<1>10. CASE Daemon /\ pc' \in {"deleted", "restore", "back", "renamed"} /\ ~Retire /\ ~Same /\ ~Delete
            /\ ~Deleted /\ ~Restore
  <2> USE DEF Goto, GotoHop, Tell, Answer, Park, Landed, Lost, KeptBoth
  <2>1. ~(Start \/ FindTask \/ Poll \/ Probe \/ Direct \/ Watch \/ Arrived \/ Recheck \/ Left)
    BY <1>10 DEF Start, FindTask, Poll, Probe, Direct, Watch, Arrived, Recheck, Left
  <2>2. ~(MakeFolder \/ Stage \/ Confirm \/ Clear \/ Claim \/ Rename \/ Hop \/ Look \/ Again)
    BY <1>10 DEF MakeFolder, Stage, Confirm, Clear, Claim, Rename, Hop, Look, Again
  <2>3. ~(VerifyMoved \/ Copy \/ ReadBack \/ Discard \/ Wipe \/ Renamed \/ Back)
    BY <1>10 DEF VerifyMoved, Copy, ReadBack, Discard, Wipe, Renamed, Back
  <2>4. QED
    BY <1>10, <2>1, <2>2, <2>3 DEF Daemon
<1>11. CASE ~Daemon
  <2>1. pc' = pc
    BY <1>11, FileStationEnds DEF Next, OtherWriter, Edit, vars, daemon
  <2>2. pc \in Retiring => tree'[Hidden] = tree[Hidden] /\ tree'[Src] \in {tree[Src], "edit"}
    <3>1. CASE FileStation /\ pc \in Retiring
      <4>1. transit
        BY <3>1 DEF Control
      <4>2. QED
        BY <3>1, <4>1, VerifiedTasks DEF FileStation
    <3>2. CASE OtherWriter \/ Edit
      BY <3>2, WorldSteps
    <3>3. CASE UNCHANGED vars
      BY <3>3 DEF vars, world
    <3>4. QED
      BY <1>11, <3>1, <3>2, <3>3 DEF Next
  <2>3. QED
    BY <1>2, <1>3, <2>1, <2>2 DEF Doubts, Retiring, Empty
<1>12. QED
  BY <1>4, <1>5, <1>6, <1>7, <1>8, <1>9, <1>10, <1>11

\* Where a file is that has not left, while every answer is heard and true.
Kept == IF Claiming THEN Staged(cur) ELSE Src
\* With every answer heard and true, no task is left behind and the file is where
\* the next call looks for it.
LEMMA HeedfulStep == TransferInv /\ [Next]_vars => Heedful'
<1> DEFINE Closed == \A i \in DOMAIN tasks' : Open(i)' => pc' = "poll" /\ i = mine'
           Standing == pc' \notin {"verify", "arrive"} /\ ~Won' => tree'[Kept'] \in Ours
<1> SUFFICES ASSUME TransferInv, [Next]_vars, Doubt' = 0, ~transit, pc' # "told"
             PROVE  Closed /\ Standing
  BY Counting DEF TransferInv, Heedful, transit, Kept, Holds
<1> USE Geography, NamesFacts DEF Goto, GotoHop, Tell, Answer, Park, Landed, Lost, KeptBoth
<1>1. Types /\ Control /\ Polling /\ Requests /\ NamesTried /\ Landings /\ Doubts
  BY DEF TransferInv
<1>2. lost = 0 /\ lost' = 0 /\ misled = 0 /\ misled' = 0 /\ ~Silent /\ ~Misled
  BY <1>1, Counting DEF Types, Doubt, Silent, Misled
<1>3. Control' /\ ~transit' /\ pc' \notin {"discard", "wipe"}
  BY <1>1, Counting, ControlStep DEF Control, transit
<1>4. pc # "told"
  BY <1>1, <1>3, NameHeld
<1>5. /\ \A i \in DOMAIN tasks : Open(i) => pc = "poll" /\ i = mine
      /\ pc \notin {"verify", "arrive"} /\ ~Won => Holds(Kept)
  BY <1>1, <1>2, <1>4 DEF TransferInv, Heedful, Doubt, Kept
<1>6. pc \notin {"list", "watch", "look"} /\ err # "lost"
  BY <1>1, <1>2 DEF Doubts
<1>7. CASE Start
  <2>1. pc = "ask" /\ Kept' = Kept /\ tree' = tree /\ ~Won /\ hop' = hop
        /\ \/ tasks' = Begun /\ mine' = Len(Begun) /\ pc' = "poll"
           \/ tasks' = tasks /\ pc' = "answered" /\ err' # "ok"
    BY <1>2, <1>7 DEF Start, Kept, Claiming, Won
  <2>2. Task.state = "running"
    BY DEF Task
  <2>3. Holds(Kept)
    BY <1>5, <2>1
  <2> HIDE DEF Task, Begun
  <2>4. Closed
    BY <1>1, <1>5, <2>1, BegunFacts DEF Open
  <2>5. Standing
    BY <1>1, <2>1, <2>2, <2>3, BegunFacts DEF Won, Holds
  <2>6. QED
    BY <2>4, <2>5
<1>8. CASE FindTask
  BY <1>6, <1>8 DEF FindTask
<1>9. CASE Poll
  <2>1. pc = "poll" /\ ~Open(mine) /\ pc' = "answered" /\ err' = tasks[mine].state
        /\ UNCHANGED <<tree, tasks, hop, cur>>
    BY <1>2, <1>9 DEF Poll, world
  <2>2. Closed
    BY <1>5, <2>1 DEF Open
  <2>3. Standing
    BY <1>5, <2>1 DEF Won, Kept, Claiming, Holds
  <2>4. QED
    BY <2>2, <2>3
<1>10. CASE Rename
  <2>1. pc = "rename" /\ pc' = "ask" /\ hop' = "claim" /\ cur' = FirstFree /\ UNCHANGED tasks
        /\ tree' = Carry(Staged(cur), Staged(FirstFree), tree[Staged(cur)])
    BY <1>2, <1>3, <1>10 DEF Rename
  <2>2. Holds(Staged(cur)) /\ cur \in Names /\ tree \in [Places -> Contents]
    BY <1>1, <1>5, <2>1 DEF Kept, Claiming, Won, Types, TypeOK
  <2>3. FirstFree \in Names /\ FirstFree # cur
    BY <1>1, <1>10, FirstFreeFacts DEF Rename, NamesTried
  <2> HIDE DEF FirstFree
  <2>4. tree'[Staged(FirstFree)] = tree[Staged(cur)]
    BY <2>1, <2>2, <2>3, Carried
  <2>5. QED
    BY <1>5, <2>1, <2>2, <2>4 DEF Won, Kept, Claiming, Holds, Open
<1>11. CASE Daemon /\ ~Start /\ ~FindTask /\ ~Poll /\ ~Rename
  <2>1. UNCHANGED tasks /\ pc # "poll"
    <3>1. pc = "poll" => Poll
      <4>1. ~(Probe \/ Direct \/ Watch \/ Arrived \/ Recheck \/ Left \/ MakeFolder) \/ pc # "poll"
        BY DEF Probe, Direct, Watch, Arrived, Recheck, Left, MakeFolder
      <4>2. ~(Stage \/ Confirm \/ Clear \/ Claim \/ Hop \/ Look \/ Again \/ VerifyMoved \/ Copy) \/ pc # "poll"
        BY DEF Stage, Confirm, Clear, Claim, Hop, Look, Again, VerifyMoved, Copy
      <4>3. ~(ReadBack \/ Discard \/ Wipe \/ Retire \/ Renamed \/ Same \/ Delete \/ Deleted \/ Restore \/ Back)
            \/ pc # "poll"
        BY DEF ReadBack, Discard, Wipe, Retire, Renamed, Same, Delete, Deleted, Restore, Back
      <4>4. QED
        BY <1>11, <4>1, <4>2, <4>3 DEF Daemon
    <3>2. QED
      BY <1>11, <3>1, QuietCalls
  <2>2. ~(Wipe \/ Retire \/ Delete \/ Restore)
    BY <1>1 DEF Control, Retiring, Wipe, Retire, Delete, Restore
  <2>3. UNCHANGED tree
    BY <1>11, <2>2, QuietCalls
  <2>4. Closed
    BY <1>5, <2>1 DEF Open
  <2>5. ASSUME pc' \notin {"verify", "arrive"} PROVE tree[Kept'] \in Ours
    <3> USE DEF Control, Kept, Claiming, Won, Holds
    <3>1. CASE Probe \/ Direct \/ Watch \/ Arrived \/ Recheck \/ Left \/ MakeFolder
      BY <1>1, <1>3, <1>5, <1>6, <2>5, <3>1 DEF Probe, Direct, Watch, Arrived, Recheck, Left, MakeFolder
    <3>2. CASE Stage
      <4>1. err = "ok" => tree[Staged(0)] \in Ours
        BY <1>1, <3>2 DEF Stage, Polling, Asked, Staging, From, To, Landings
      <4>2. QED
        BY <1>1, <1>5, <3>2, <4>1 DEF Stage
    <3>3. CASE Confirm \/ Clear \/ Claim
      BY <1>1, <1>3, <1>5, <3>3 DEF Confirm, Clear, Claim
    <3>4. CASE Hop \/ Look \/ Again
      BY <1>1, <1>3, <1>5, <1>6, <2>5, <3>4 DEF Hop, Look, Again
    <3>5. CASE VerifyMoved \/ Copy \/ ReadBack \/ Discard
      BY <1>1, <1>3, <3>5 DEF VerifyMoved, Copy, ReadBack, Discard
    <3>6. CASE Renamed \/ Same \/ Deleted \/ Back
      BY <1>1, <3>6 DEF Renamed, Same, Deleted, Back, Retiring
    <3>7. QED
      BY <1>11, <2>2, <3>1, <3>2, <3>3, <3>4, <3>5, <3>6 DEF Daemon
  <2>6. QED
    BY <2>3, <2>4, <2>5
<1>12. CASE FileStation
  <2>1. UNCHANGED <<pc, hop, cur, err, mine>> /\ Kept' = Kept
    BY <1>12, FileStationEnds DEF daemon, Kept, Claiming
  <2>2. PICK i \in DOMAIN tasks : RunTask(i) \/ RemoveSource(i) \/ FailTask(i)
    BY <1>12 DEF FileStation
  <2>3. Open(i) /\ pc = "poll" /\ i = mine
    BY <1>5, <2>2 DEF RunTask, RemoveSource, FailTask, Open
  <2>4. Closed
    BY <1>1, <1>5, <1>12, <2>1, <2>3, TaskSteps DEF Open
  <2>5. ~Won /\ Holds(Kept)
    BY <1>5, <2>3 DEF Won, Open
  <2>6. Kept = From /\ tasks[i].from = Kept
    BY <1>1, <2>3 DEF Kept, From, Claiming, Control, Polling, Asked
  <2>7. tree'[Kept] = tree[Kept] \/ tasks'[i].state = "ok"
    BY <1>1, <2>2, <2>6, RunSteps, RemoveSteps DEF FailTask
  <2>8. QED
    BY <2>1, <2>3, <2>4, <2>5, <2>7 DEF Won, Holds
<1>13. CASE OtherWriter \/ Edit
  <2>1. UNCHANGED <<pc, hop, cur, err, mine, tasks>> /\ Kept' = Kept
    BY <1>13 DEF OtherWriter, Edit, daemon, Kept, Claiming
  <2>2. tree'[Kept] \in {tree[Kept], "edit"}
    <3>1. cur \in Names
      BY <1>1 DEF Types, TypeOK
    <3>2. QED
      BY <1>1, <1>13, <3>1, WorldSteps DEF Kept
  <2>3. QED
    BY <1>5, <2>1, <2>2 DEF Won, Holds, Ours, Open
<1>14. CASE UNCHANGED vars
  BY <1>5, <1>14 DEF vars, world, daemon, Won, Holds, Open, Kept, Claiming
<1>15. QED
  BY <1>7, <1>8, <1>9, <1>10, <1>11, <1>12, <1>13, <1>14 DEF Next

(***************************************************************************)
(* The invariant, and what it says of the properties the run checks.        *)
(***************************************************************************)

\* A request starts with the file in its place and nothing asked.
LEMMA InitInv == Init => TransferInv
<1> SUFFICES ASSUME Init PROVE TransferInv
  OBVIOUS
<1> USE Geography, NamesFacts, TriesAssumption DEF Init
<1>1. Types
  <2>1. tasks \in Seq(TaskType) /\ Len(tasks) = 0
    BY EmptySeq
  <2>2. tree \in [Places -> Contents]
    BY DEF Contents
  <2>3. 0 \in 0..MaxTries /\ 0 \in 0..Len(tasks)
    BY ONLY <2>1, TriesAssumption
  <2>4. /\ folder \in BOOLEAN /\ cur \in Names /\ at \in Names \cup {NoName} /\ tries = 0 /\ mine = 0
        /\ verify \in BOOLEAN /\ crosses \in BOOLEAN
        /\ lost \in Nat /\ refused \in Nat /\ misled \in Nat /\ others \in Nat /\ edits \in Nat
    OBVIOUS
  <2>5. QED
    BY ONLY <2>1, <2>2, <2>3, <2>4 DEF Types, TypeOK
<1>2. Control /\ Polling
  BY DEF Control, Polling, Retiring, transit
<1>3. Requests /\ Landings
  BY DEF Requests, Landings
<1>4. NamesTried
  BY DEF NamesTried, Empty
<1>5. Plain
  BY DEF Plain, Claiming, Empty, Holds, Ours
<1>6. Verified
  BY DEF Verified, Genuine, Retiring, Claiming, Empty
<1>7. Settled /\ Named /\ Doubts
  BY DEF Settled, Named, Doubts
<1>8. Heedful
  BY DEF Heedful, Claiming, Holds, Ours
<1>9. QED
  BY <1>1, <1>2, <1>3, <1>4, <1>5, <1>6, <1>7, <1>8 DEF TransferInv

\* Every step keeps the invariant.
LEMMA StepInv == TransferInv /\ [Next]_vars => TransferInv'
  BY TypesStep, ControlStep, PollingStep, RequestsStep, NamesTriedStep, LandingsStep, PlainStep,
     VerifiedStep, SettledStep, NamedStep, DoubtsStep, HeedfulStep DEF TransferInv

\* The tree, File Station's tasks and the daemon's calls stay in step.
THEOREM TransferInvariant == Spec => []TransferInv
  BY InitInv, StepInv, PTL DEF Spec

\* Every place, name, task and round is one the code can have.
THEOREM TransferTyped == Spec => []TypeOK
<1>1. TransferInv => TypeOK
  BY DEF TransferInv, Types
<1>2. QED
  BY <1>1, TransferInvariant, PTL

\* Whatever File Station does with the calls of a move, and whatever of its
\* answers is lost, the file is always somewhere; while nobody edits it a
\* verified move has its own content in some place (fsapi.go:826-838,
\* transit.go:255-273).
LEMMA ContentThere == TransferInv => ContentSurvives
<1> SUFFICES ASSUME Plain, Verified, Types PROVE ContentSurvives
  BY DEF TransferInv
<1> USE Geography, NamesFacts
<1>0. cur \in Names
  BY DEF Types, TypeOK
<1>1. CASE ~transit
  BY <1>1 DEF ContentSurvives, Plain, Away
<1>2. CASE transit
  BY <1>0, <1>2 DEF ContentSurvives, Verified, Genuine, Holds, Ours, Empty
<1>3. QED
  BY <1>1, <1>2

\* The same, of every state of every behaviour (fsapi.go:826-838,
\* transit.go:255-273).
THEOREM ContentKept == Spec => []ContentSurvives
  BY ContentThere, TransferInvariant, PTL

\* What the user saves while the move runs is neither deleted with the original
\* nor left behind (transit.go:275-322).
THEOREM EditsKept == Spec => []EditSurvives
<1>1. TransferInv => EditSurvives
  BY Geography DEF TransferInv, EditSurvives, Plain, Verified
<1>2. QED
  BY <1>1, TransferInvariant, PTL

\* Without a misleading answer, a failure told of a move that staged nothing is
\* told of a file still in its folder, and stays true of it (fsapi.go:799-802).
LEMMA FailuresStill == TransferInv => FailedUnstagedMeansStill
<1> SUFFICES ASSUME TransferInv, hop # "staged", Done, told = "failed", misled = 0
             PROVE  Holds(Src)
  BY DEF FailedUnstagedMeansStill, FailedMeansStill
<1>1. CASE transit
  BY <1>1 DEF TransferInv, Verified, Genuine, Holds, Ours, Empty
<1>2. CASE ~transit
  <2>1. hop \in {"none", "direct"}
    BY <1>2 DEF TransferInv, Control, Named, Done
  <2>2. \A i \in DOMAIN tasks : tasks[i].state # "ok"
    BY <1>2, <2>1 DEF TransferInv, Settled, Over
  <2>3. QED
    BY <1>2, <2>2 DEF TransferInv, Plain
<1>3. QED
  BY <1>1, <1>2

\* The same, of every state of every behaviour: FailedUnstagedMeansStill holds
\* (fsapi.go:799-802).
THEOREM FailedStaysStill == Spec => []FailedUnstagedMeansStill
  BY FailuresStill, TransferInvariant, PTL

\* A file that a move straight to the destination took from its folder is
\* reported under the name it lands at, or as gone (move.go:205-234).
THEOREM LandingsRecorded == Spec => []LandedRecorded
<1>1. TransferInv => LandedRecorded
  BY FailuresStill DEF TransferInv, Named, LandedRecorded, FailedUnstagedMeansStill, FailedMeansStill, Done
<1>2. QED
  BY <1>1, TransferInvariant, PTL

\* No step deletes a retired original but one that finds it unchanged, and the
\* copy read back as good in place under the name held (transit.go:167-185).
THEOREM OriginalsDeletedForCopies == Spec => DeletedForCopy
<1>1. TransferInv /\ [Next]_vars /\ ~Empty(Hidden) /\ tree'[Hidden] = "none" /\ tree'[Src] # tree[Hidden]
        => tree[Hidden] = "orig" /\ tree[Dest(cur)] = "orig"
  <2> SUFFICES ASSUME TransferInv, [Next]_vars, ~Empty(Hidden), tree'[Hidden] = "none",
                      tree'[Src] # tree[Hidden]
               PROVE  tree[Hidden] = "orig" /\ tree[Dest(cur)] = "orig"
    OBVIOUS
  <2> USE Geography, NamesFacts
  <2>1. Types /\ Control /\ Requests /\ NamesTried /\ Verified /\ transit
    BY DEF TransferInv, Plain
  <2>2. cur \in Names
    BY <2>1 DEF Types, TypeOK
  <2>3. ~FileStation
    BY <2>1, VerifiedTasks DEF FileStation, Empty
  <2>4. ~(OtherWriter \/ Edit) /\ ~(UNCHANGED vars)
    BY <2>1, <2>2, WorldSteps DEF Empty, vars, world
  <2>5. ~Rename
    <3> HIDE DEF FirstFree
    <3>1. QED
      BY <2>1, <2>2, RenameSteps DEF Empty
  <2>6. Delete
    BY <2>1, <2>3, <2>4, <2>5, QuietCalls, WipeSteps, RetireSteps, VerifiedCalls
       DEF Next, Empty, Retire, OriginalStands
  <2>7. QED
    BY <2>1, <2>6, VerifiedCalls DEF Delete, Daemon
<1>2. TransferInv /\ [Next]_vars => [~Empty(Hidden) /\ tree'[Hidden] = "none" /\ tree'[Src] # tree[Hidden]
        => tree[Hidden] = "orig" /\ tree[Dest(cur)] = "orig"]_vars
  BY <1>1
<1>3. QED
  BY <1>2, TransferInvariant, PTL DEF Spec, DeletedForCopy

(***************************************************************************)
(* Transfer implements FileMove.                                            *)
(***************************************************************************)

\* The kinds of places that hold the file, one by one.
LEMMA KindsHeld ==
  /\ HeldIn \subseteq FM!Kinds
  /\ "source" \in HeldIn <=> Holds(Src)
  /\ "hidden" \in HeldIn <=> Holds(Hidden)
  /\ "staging" \in HeldIn <=> \E n \in Names : Holds(Staged(n))
  /\ "destination" \in HeldIn <=> \E n \in Names : Holds(Dest(n))
<1>1. /\ \A p \in Places : p[1] \in {"source", "hidden", "staging", "destination"}
      /\ Src[1] = "source" /\ Hidden[1] = "hidden"
      /\ \A n \in Names : Staged(n)[1] = "staging" /\ Dest(n)[1] = "destination"
  BY DEF Places, Src, Hidden, Staged, Dest
<1>2. QED
  BY <1>1, Geography DEF HeldIn, FM!Kinds

\* An outcome is told once.
LEMMA ToldOnce ==
  ASSUME Control, [Next]_vars, told' # told
  PROVE  Daemon /\ told = "working" /\ pc # "told" /\ pc' = "told"
<1> USE DEF Goto, GotoHop, Tell, Answer, Park, Landed, Lost, KeptBoth
<1>1. Daemon
  BY FileStationEnds DEF Next, OtherWriter, Edit, vars, daemon
<1>2. pc # "told"
  <2>1. ~(Start \/ FindTask \/ Poll \/ Probe \/ Direct \/ Watch \/ Arrived \/ Recheck) \/ pc # "told"
    BY DEF Start, FindTask, Poll, Probe, Direct, Watch, Arrived, Recheck
  <2>2. ~(Left \/ MakeFolder \/ Stage \/ Confirm \/ Clear \/ Claim \/ Rename \/ Hop \/ Look) \/ pc # "told"
    BY DEF Left, MakeFolder, Stage, Confirm, Clear, Claim, Rename, Hop, Look
  <2>3. ~(Again \/ VerifyMoved \/ Copy \/ ReadBack \/ Discard \/ Wipe \/ Retire \/ Renamed) \/ pc # "told"
    BY DEF Again, VerifyMoved, Copy, ReadBack, Discard, Wipe, Retire, Renamed
  <2>4. ~(Same \/ Delete \/ Deleted \/ Restore \/ Back) \/ pc # "told"
    BY DEF Same, Delete, Deleted, Restore, Back
  <2>5. QED
    BY <1>1, <2>1, <2>2, <2>3, <2>4 DEF Daemon
<1>3. pc' = "told"
  <2>1. Start \/ FindTask \/ Poll \/ Probe \/ Direct \/ Watch \/ Arrived \/ Recheck => pc' = "told" \/ told' = told
    BY DEF Start, FindTask, Poll, Probe, Direct, Watch, Arrived, Recheck
  <2>2. Left \/ MakeFolder \/ Stage \/ Confirm \/ Clear \/ Claim \/ Rename \/ Hop \/ Look
          => pc' = "told" \/ told' = told
    BY DEF Left, MakeFolder, Stage, Confirm, Clear, Claim, Rename, Hop, Look
  <2>3. Again \/ VerifyMoved \/ Copy \/ ReadBack \/ Discard \/ Wipe \/ Retire \/ Renamed
          => pc' = "told" \/ told' = told
    BY DEF Again, VerifyMoved, Copy, ReadBack, Discard, Wipe, Retire, Renamed
  <2>4. Same \/ Delete \/ Deleted \/ Restore \/ Back => pc' = "told" \/ told' = told
    BY DEF Same, Delete, Deleted, Restore, Back
  <2>5. QED
    BY <1>1, <2>1, <2>2, <2>3, <2>4 DEF Daemon
<1>4. QED
  BY <1>1, <1>2, <1>3 DEF Control

\* Each outcome is told where it fits: what the daemon heard, and what it must
\* have missed to be wrong, decide where the file is.
LEMMA ToldOfDestination ==
  ASSUME TransferInv, Daemon, pc # "told", pc' = "told", told' = "moved"
  PROVE  \E n \in Names : Holds(Dest(n))'
<1> USE Geography, NamesFacts
    DEF Goto, GotoHop, Tell, Answer, Park, Landed, Lost, KeptBoth
<1>1. Types /\ Control /\ Polling /\ Requests /\ NamesTried /\ Landings /\ Verified
  BY DEF TransferInv
<1>2. cur \in Names
  BY <1>1 DEF Types, TypeOK
<1>3. Holds(Dest(cur))
  <2>1. CASE Direct \/ Hop
    <3>1. pc = "answered" /\ err = "ok" /\ hop \in {"direct", "claim"}
      BY <2>1, <1>1 DEF Direct, Hop, Control
    <3>2. mine \in DOMAIN tasks /\ tasks[mine].to = Dest(cur) /\ tasks[mine].state = "ok"
      BY <1>1, <3>1 DEF Polling, Asked, To, Control
    <3>3. QED
      BY <1>1, <1>2, <3>2 DEF Landings
  <2>2. CASE Arrived \/ VerifyMoved
    BY <2>2 DEF Arrived, VerifyMoved, Alike, Holds, Ours
  <2>3. CASE Delete \/ Deleted
    BY <1>1, <2>3 DEF Delete, Deleted, Verified, Control, Retiring, Holds, Ours
  <2>4. ~(Start \/ FindTask \/ Poll \/ Probe \/ Watch \/ Recheck \/ Left \/ MakeFolder \/ Stage)
    BY DEF Start, FindTask, Poll, Probe, Watch, Recheck, Left, MakeFolder, Stage
  <2>5. ~(Confirm \/ Clear \/ Claim \/ Rename \/ Look \/ Again \/ Copy \/ ReadBack \/ Discard \/ Wipe)
    BY DEF Confirm, Clear, Claim, Rename, Look, Again, Copy, ReadBack, Discard, Wipe
  <2>6. ~(Retire \/ Renamed \/ Same \/ Restore \/ Back)
    BY DEF Retire, Renamed, Same, Restore, Back
  <2>7. QED
    BY <2>1, <2>2, <2>3, <2>4, <2>5, <2>6 DEF Daemon
<1>4. tree'[Dest(cur)] = tree[Dest(cur)]
  BY <1>1, <1>2, <1>3, DestStands DEF Next, Free, Empty, Holds, Ours
<1>5. QED
  BY <1>2, <1>3, <1>4 DEF Holds

\* A file told gone has left its folder.
LEMMA ToldGone ==
  ASSUME TransferInv, Daemon, pc # "told", pc' = "told", told' = "gone"
  PROVE  tree'[Src] = "none"
<1> USE DEF Goto, GotoHop, Tell, Answer, Park, Landed, Lost, KeptBoth
<1>1. ~(Start \/ FindTask \/ Poll \/ Probe \/ Direct \/ Watch \/ Recheck \/ Left \/ MakeFolder \/ Stage)
  BY DEF Start, FindTask, Poll, Probe, Direct, Watch, Recheck, Left, MakeFolder, Stage
<1>2. ~(Confirm \/ Clear \/ Claim \/ Rename \/ Hop \/ Look \/ Again \/ Copy \/ ReadBack \/ Discard \/ Wipe)
  BY DEF Confirm, Clear, Claim, Rename, Hop, Look, Again, Copy, ReadBack, Discard, Wipe
<1>3. ~(Retire \/ Renamed \/ Same \/ Delete \/ Deleted \/ Restore \/ Back)
  BY DEF Retire, Renamed, Same, Delete, Deleted, Restore, Back
<1>4. Arrived \/ VerifyMoved
  BY <1>1, <1>2, <1>3 DEF Daemon
<1>5. pc \in {"arrive", "verify"} /\ ~transit /\ UNCHANGED tree
  BY <1>4 DEF Arrived, VerifyMoved, world, TransferInv, Control
<1>6. QED
  BY <1>5 DEF TransferInv, Plain, Empty

\* The answers lost that can leave the original missing are told apart: one is
\* not enough.
LEMMA ToldOfBoth ==
  ASSUME TransferInv, Daemon, pc # "told", pc' = "told", told' = "both", Doubt' <= 1
  PROVE  Holds(Src)' /\ \E n \in Names : Holds(Dest(n))'
<1> USE Geography, NamesFacts
    DEF Goto, GotoHop, Tell, Answer, Park, Landed, Lost, KeptBoth
<1>0. Types /\ Control /\ Requests /\ NamesTried /\ Verified /\ Doubts
  BY DEF TransferInv
<1>1. ~(Start \/ FindTask \/ Poll \/ Probe \/ Direct \/ Watch \/ Arrived \/ Recheck \/ Left \/ MakeFolder)
  BY DEF Start, FindTask, Poll, Probe, Direct, Watch, Arrived, Recheck, Left, MakeFolder
<1>2. ~(Stage \/ Confirm \/ Clear \/ Claim \/ Rename \/ Hop \/ Look \/ Again \/ Copy \/ ReadBack)
  BY DEF Stage, Confirm, Clear, Claim, Rename, Hop, Look, Again, Copy, ReadBack
<1>3. ~(VerifyMoved \/ Discard \/ Wipe \/ Same \/ Delete \/ Deleted)
  BY DEF VerifyMoved, Discard, Wipe, Same, Delete, Deleted
<1>4. Retire \/ Renamed \/ Restore \/ Back
  BY <1>1, <1>2, <1>3 DEF Daemon
<1>5. pc \in Retiring /\ transit /\ cur \in Names /\ tree \in [Places -> Contents]
  BY <1>0, <1>4 DEF Retire, Renamed, Restore, Back, Control, Retiring, Types, TypeOK
<1>6. tree'[Src] # "none"
  <2>1. CASE Retire
    BY <1>0, <1>5, <2>1 DEF Retire, Verified, Retiring, Empty
  <2>2. CASE Renamed
    <3>1. UNCHANGED tree /\ lost > 0 /\ (Empty(Hidden) => ~Empty(Src)) /\ (Silent => lost' = lost + 1)
          /\ (Empty(Hidden) \/ Silent)
      BY <1>0, <2>2 DEF Renamed, Doubts, Silent, world
    <3>2. ~Silent
      BY <1>0, <3>1, Counting DEF Doubt, Types, Next
    <3>3. QED
      BY <3>1, <3>2 DEF Empty
  <2>3. CASE Restore
    BY <1>5, <2>3 DEF Restore, CanRestore, Restored, Carry, Empty
  <2>4. CASE Back
    BY <2>4 DEF Back, world, Empty
  <2>5. QED
    BY <1>4, <2>1, <2>2, <2>3, <2>4
<1>7. tree'[Src] \in Genuine
  BY <1>5, VerifiedStep, Counting DEF TransferInv, Verified, transit, Next
<1>8. tree'[Dest(cur)] = "orig"
  BY <1>0, <1>5, DestStands DEF Verified, Free, Empty, Next
<1>9. QED
  BY <1>5, <1>6, <1>7, <1>8 DEF Holds, Genuine, Ours

\* The original stays hidden only where its name was seen taken, or two answers
\* were lost.
LEMMA ToldStranded ==
  ASSUME TransferInv, Daemon, pc # "told", pc' = "told", told' = "stranded", Doubt' <= 1
  PROVE  Holds(Hidden)'
<1> USE DEF Goto, GotoHop, Tell, Answer, Park, Landed, Lost, KeptBoth
<1>1. ~(Start \/ FindTask \/ Poll \/ Probe \/ Direct \/ Watch \/ Arrived \/ Recheck \/ Left \/ MakeFolder)
  BY DEF Start, FindTask, Poll, Probe, Direct, Watch, Arrived, Recheck, Left, MakeFolder
<1>2. ~(Stage \/ Confirm \/ Clear \/ Claim \/ Rename \/ Hop \/ Look \/ Again \/ Copy \/ ReadBack)
  BY DEF Stage, Confirm, Clear, Claim, Rename, Hop, Look, Again, Copy, ReadBack
<1>3. ~(VerifyMoved \/ Discard \/ Wipe \/ Retire \/ Renamed \/ Same \/ Delete \/ Deleted \/ Restore)
  BY DEF VerifyMoved, Discard, Wipe, Retire, Renamed, Same, Delete, Deleted, Restore
<1>4. Back
  BY <1>1, <1>2, <1>3 DEF Daemon
<1>5. pc = "back" /\ UNCHANGED tree /\ transit
      /\ (Silent \/ Empty(Src) \/ ~Empty(Hidden))
  BY <1>4 DEF Back, world, TransferInv, Control, Retiring
<1>6. Silent => Doubt' = Doubt + 1
  BY Counting DEF Doubt, Silent, Types, TransferInv, Next
<1>7. Doubt \in Nat /\ Doubt' \in {Doubt, Doubt + 1}
  BY Counting DEF Doubt, Types, TransferInv, Next
<1>8. ~Empty(Hidden)
  BY <1>5, <1>6, <1>7 DEF TransferInv, Doubts
<1>9. QED
  BY <1>5, <1>8 DEF TransferInv, Verified, Genuine, Holds, Ours, Empty

\* A file told parked is in the staging folder, if every answer was heard.
LEMMA ToldParked ==
  ASSUME TransferInv, Daemon, pc # "told", pc' = "told", told' = "parked", Doubt' = 0
  PROVE  \E n \in Names : Holds(Staged(n))'
<1> USE Geography, NamesFacts
    DEF Goto, GotoHop, Tell, Answer, Park, Landed, Lost, KeptBoth
<1>1. ~(Start \/ FindTask \/ Poll \/ Probe \/ Direct \/ Watch \/ Arrived \/ Recheck \/ Left \/ MakeFolder)
  BY DEF Start, FindTask, Poll, Probe, Direct, Watch, Arrived, Recheck, Left, MakeFolder
<1>2. ~(Stage \/ Clear \/ Copy \/ ReadBack \/ VerifyMoved \/ Discard \/ Wipe)
  BY DEF Stage, Clear, Copy, ReadBack, VerifyMoved, Discard, Wipe
<1>3. ~(Retire \/ Renamed \/ Same \/ Delete \/ Deleted \/ Restore \/ Back)
  BY DEF Retire, Renamed, Same, Delete, Deleted, Restore, Back
<1>4. Confirm \/ Claim \/ Rename \/ Hop \/ Look \/ Again
  BY <1>1, <1>2, <1>3 DEF Daemon
<1>5. Types /\ Control /\ NamesTried /\ Doubts /\ Heedful /\ ~transit
  BY <1>4 DEF TransferInv, Confirm, Claim, Rename, Hop, Look, Again, Control
<1>6. Doubt = 0 /\ lost = 0 /\ ~Silent
  BY <1>5, Counting DEF Doubt, Silent, Types, Next
<1>7. cur \in Names /\ tree \in [Places -> Contents] /\ pc # "look" /\ err # "lost"
  BY <1>5, <1>6 DEF Types, TypeOK, Doubts
<1>8. CASE Confirm
  BY <1>5, <1>6, <1>8 DEF Confirm, NamesTried, Holds, world
<1>9. CASE Rename
  <2>1. Holds(Staged(cur))
    BY <1>5, <1>6, <1>9 DEF Rename, Heedful, Claiming, Won
  <2>2. UNCHANGED tree \/ \E n \in Names : tree'[Staged(n)] = tree[Staged(cur)]
    BY <1>5, <1>9, RenameSteps
  <2>3. QED
    BY <1>7, <2>1, <2>2 DEF Holds
<1>10. CASE Claim \/ Hop \/ Again
  <2>1. UNCHANGED tree /\ Claiming /\ pc \notin {"verify", "arrive", "poll"} /\ ~(pc = "answered" /\ err = "ok")
    BY <1>10, <1>5, <1>6 DEF Claim, Hop, Again, RemoveEmptyFolder, world, Claiming, Control
  <2>2. Holds(Staged(cur))
    BY <1>5, <1>6, <2>1 DEF Heedful, Won
  <2>3. QED
    BY <1>7, <2>1, <2>2 DEF Holds
<1>11. QED
  BY <1>4, <1>7, <1>8, <1>9, <1>10 DEF Look

\* A file told failed is in its folder, if every answer was heard.
LEMMA ToldFailed ==
  ASSUME TransferInv, Daemon, pc # "told", pc' = "told", told' = "failed", Doubt' = 0
  PROVE  Holds(Src)'
<1> USE DEF Goto, GotoHop, Tell, Answer, Park, Landed, Lost, KeptBoth
<1>1. TransferInv' /\ transit' = transit
  BY StepInv, Counting DEF Next, TransferInv, transit
<1>2. CASE transit
  BY <1>1, <1>2 DEF TransferInv, Verified, Genuine, Holds, Ours, Empty
<1>3. CASE ~transit
  <2>1. Types /\ Control /\ Doubts /\ Heedful /\ hop' # "claim"
    BY <1>1, <1>3 DEF TransferInv, Named
  <2>2. ~(Start \/ FindTask \/ Poll \/ Arrived \/ Left \/ Stage \/ Claim \/ Rename \/ Hop \/ Look \/ Again)
    BY <1>3, <2>1 DEF Start, FindTask, Poll, Arrived, Left, Stage, Claim, Rename, Hop, Look, Again, Control
  <2>3. ~(VerifyMoved \/ Copy \/ ReadBack \/ Discard \/ Wipe \/ Confirm)
    BY <1>3, <2>1 DEF VerifyMoved, Copy, ReadBack, Discard, Wipe, Confirm, Control
  <2>4. ~(Retire \/ Renamed \/ Same \/ Delete \/ Deleted \/ Restore \/ Back)
    BY DEF Retire, Renamed, Same, Delete, Deleted, Restore, Back
  <2>5. Probe \/ Direct \/ Watch \/ Recheck \/ MakeFolder \/ Clear
    BY <2>2, <2>3, <2>4 DEF Daemon
  <2>6. ~Claiming /\ ~Won /\ pc \notin {"verify", "arrive"} /\ UNCHANGED tree
    BY <1>3, <2>1, <2>5 DEF Probe, Direct, Watch, Recheck, MakeFolder, Clear, RemoveEmptyFolder,
                            world, Claiming, Won, Control
  <2>7. Doubt = 0
    BY <2>1, Counting DEF Doubt, Types, Next
  <2>8. QED
    BY <1>3, <2>1, <2>6, <2>7 DEF Heedful, Holds
<1>4. QED
  BY <1>2, <1>3

\* The file is in one of FileMove's kinds of places.
LEMMA SomewhereHeld == TransferInv => HeldIn \in (SUBSET FM!Kinds) \ {{}}
<1> SUFFICES ASSUME TransferInv PROVE HeldIn # {}
  BY KindsHeld
<1>1. \E p \in Places : Holds(p)
  BY ContentThere DEF ContentSurvives
<1>2. QED
  BY <1>1 DEF HeldIn

\* The outcomes the calls of a move can tell.
LEMMA OutcomesTold ==
  ASSUME Daemon, pc' = "told"
  PROVE  told' \in FM!Outcomes \cup {told}
<1> USE DEF Goto, GotoHop, Tell, Answer, Park, Landed, Lost, KeptBoth, FM!Outcomes
<1>1. CASE Start \/ FindTask \/ Poll \/ Probe \/ Direct \/ Watch \/ Arrived \/ Recheck
  BY <1>1 DEF Start, FindTask, Poll, Probe, Direct, Watch, Arrived, Recheck
<1>2. CASE Left \/ MakeFolder \/ Stage \/ Confirm \/ Clear \/ Claim \/ Rename \/ Hop \/ Look \/ Again
  BY <1>2 DEF Left, MakeFolder, Stage, Confirm, Clear, Claim, Rename, Hop, Look, Again
<1>3. CASE VerifyMoved \/ Copy \/ ReadBack \/ Discard \/ Wipe \/ Retire
  BY <1>3 DEF VerifyMoved, Copy, ReadBack, Discard, Wipe, Retire
<1>4. CASE Renamed \/ Same \/ Delete \/ Deleted \/ Restore \/ Back
  BY <1>4 DEF Renamed, Same, Delete, Deleted, Restore, Back
<1>5. QED
  BY <1>1, <1>2, <1>3, <1>4 DEF Daemon

\* A straight move is unsettled only while an answer is missing.
LEMMA ToldUnsettled ==
  ASSUME TransferInv, Daemon, pc # "told", pc' = "told", told' = "unsettled"
  PROVE  Doubt' > 0
<1> USE DEF Goto, GotoHop, Tell, Answer, Park, Landed, Lost, KeptBoth
<1>1. ~(Start \/ FindTask \/ Poll \/ Probe \/ Direct \/ Arrived \/ Recheck \/ Left \/ MakeFolder \/ Stage)
  BY DEF Start, FindTask, Poll, Probe, Direct, Arrived, Recheck, Left, MakeFolder, Stage
<1>2. ~(Confirm \/ Clear \/ Claim \/ Rename \/ Hop \/ Look \/ Again \/ Copy \/ ReadBack \/ Discard \/ Wipe)
  BY DEF Confirm, Clear, Claim, Rename, Hop, Look, Again, Copy, ReadBack, Discard, Wipe
<1>3. ~(VerifyMoved \/ Retire \/ Renamed \/ Same \/ Delete \/ Deleted \/ Restore \/ Back)
  BY DEF VerifyMoved, Retire, Renamed, Same, Delete, Deleted, Restore, Back
<1>4. pc = "watch"
  BY <1>1, <1>2, <1>3 DEF Daemon, Watch
<1>5. lost > 0 /\ lost \in Nat /\ misled \in Nat
  BY <1>4 DEF TransferInv, Doubts, Types
<1>6. QED
  BY <1>5, Counting DEF TransferInv, Doubt, Next

\* One step: an outcome is told where it fits, and anything else leaves a copy.
LEMMA PromiseStep == TransferInv /\ [Next]_vars => FM!Next
<1> SUFFICES ASSUME TransferInv, [Next]_vars PROVE FM!Next
  OBVIOUS
<1>1. TransferInv'
  BY StepInv
<1>2. (HeldIn \in (SUBSET FM!Kinds) \ {{}})'
  BY <1>1, SomewhereHeld, PTL
<1>3. Doubt' \in {Doubt, Doubt + 1} /\ Doubt' \in Nat
  BY Counting DEF TransferInv, Types, Doubt
<1>4. CASE told' = told
  BY <1>2, <1>3, <1>4 DEF FM!Next, FM!Carry
<1>5. CASE told' # told
  <2>1. Daemon /\ told = "working" /\ pc # "told" /\ pc' = "told"
    BY <1>5, ToldOnce DEF TransferInv
  <2>2. /\ ("source" \in HeldIn <=> Holds(Src))'
        /\ ("hidden" \in HeldIn <=> Holds(Hidden))'
        /\ ("staging" \in HeldIn <=> \E n \in Names : Holds(Staged(n)))'
        /\ ("destination" \in HeldIn <=> \E n \in Names : Holds(Dest(n)))'
    BY KindsHeld, PTL
  <2>3. told' \in FM!Outcomes
    BY <1>5, <2>1, OutcomesTold
  <2>4. ASSUME NEW o \in FM!Outcomes, told' = o PROVE FM!Fits(o)'
    <3> HIDE DEF HeldIn, Doubt
    <3>1. CASE o = "moved"
      BY <2>1, <2>2, <2>4, <3>1, ToldOfDestination DEF FM!Fits
    <3>2. CASE o = "gone"
      <4>1. tree'[Src] = "none"
        BY <2>1, <2>4, <3>2, ToldGone
      <4>2. QED
        BY <2>2, <3>2, <4>1 DEF FM!Fits, Holds, Ours
    <3>3. CASE o = "both"
      BY <2>1, <2>2, <2>4, <3>3, ToldOfBoth DEF FM!Fits
    <3>4. CASE o = "stranded"
      BY <2>1, <2>2, <2>4, <3>4, ToldStranded DEF FM!Fits
    <3>5. CASE o = "parked"
      BY <2>1, <2>2, <2>4, <3>5, ToldParked DEF FM!Fits
    <3>6. CASE o = "failed"
      BY <2>1, <2>2, <2>4, <3>6, ToldFailed DEF FM!Fits
    <3>7. CASE o = "unsettled"
      BY <2>1, <2>4, <3>7, ToldUnsettled DEF FM!Fits
    <3>8. QED
      BY <3>1, <3>2, <3>3, <3>4, <3>5, <3>6, <3>7 DEF FM!Outcomes
  <2>5. QED
    BY <1>2, <1>3, <2>1, <2>3, <2>4 DEF FM!Next, FM!Tell
<1>6. QED
  BY <1>4, <1>5

\* Whatever route a move takes and whatever goes wrong on it, the file is
\* somewhere after every step, and what is told of it, once, fits where it is:
\* Transfer implements FileMove (fsapi.go:756-773, transit.go:167-185).
THEOREM PromiseKept == Spec => KeepsPromise
<1>1. Init => FM!Init
  <2> SUFFICES ASSUME Init PROVE FM!Init
    OBVIOUS
  <2>1. HeldIn \subseteq FM!Kinds /\ "source" \in HeldIn
    BY KindsHeld, Geography DEF Init, Holds, Ours
  <2>2. "hidden" \notin HeldIn /\ "staging" \notin HeldIn /\ "destination" \notin HeldIn
    BY KindsHeld, Geography DEF Init, Holds, Ours
  <2>3. HeldIn = {"source"}
    BY <2>1, <2>2 DEF FM!Kinds
  <2>4. QED
    BY <2>3 DEF FM!Init, Init, Doubt
<1>2. TransferInv /\ [Next]_vars => [FM!Next]_<<HeldIn, told, Doubt>>
  BY PromiseStep
<1>3. QED
  BY <1>1, <1>2, TransferInvariant, PTL DEF Spec, KeepsPromise, FM!Spec
=============================================================================
