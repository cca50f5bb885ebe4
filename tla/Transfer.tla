------------------------------ MODULE Transfer ------------------------------
(***************************************************************************)
(* One file's way through File Station (src/server/fsapi.go, transit.go):   *)
(* the plain move with its staging folder on a name clash, and the verified *)
(* move to another filesystem, which copies, reads the copy back, puts it   *)
(* in place and only then retires the original.  The daemon is one thread   *)
(* of calls; File Station runs the tasks it was asked for beside it, goes   *)
(* on with those the daemon has given up, and its answers may be lost.      *)
(* Folders, whose partial moves need a model of their own, are left out.    *)
(***************************************************************************)
EXTENDS Naturals, Sequences, FiniteSets

CONSTANTS
  MaxTries,                         \* nameClaimTries
  MaxLost, MaxRefused, MaxMisled,   \* bounds: answers lost, calls refused or
                                    \* gone wrong, tasks whose status is an error
  MaxOthers, MaxEdits               \* though they go on; names taken, edits

ASSUME TriesAssumption == MaxTries \in Nat \ {0}
ASSUME BoundsAssumption == {MaxLost, MaxRefused, MaxMisled, MaxOthers, MaxEdits} \subseteq Nat

Names  == 0 .. MaxOthers + 2        \* the file's own name and its " (n)" forms
NoName == MaxOthers + 3

Src       == <<"source", 0>>
Hidden    == <<"hidden", 0>>        \* .dupfinder-del-..., beside the source
Staged(n) == <<"staging", n>>       \* in .dupfinder-tmp-..., at the destination
Dest(n)   == <<"destination", n>>
Places == {Src, Hidden} \cup {Staged(n) : n \in Names} \cup {Dest(n) : n \in Names}

\* bad: a copy damaged in transit, of the same size and time.  other: another
\* writer's file.
Contents == {"none", "orig", "edit", "bad", "other"}
Ours     == {"orig", "edit", "bad"}
Alike    == {"orig", "bad"}         \* what identMatches accepts

VARIABLES
  verify, crosses,   \* what was asked, and crossesFS
  tree,              \* what stands at each place
  folder,            \* the staging folder exists
  tasks, mine,       \* File Station's tasks; the one polled, 0 for none
  pc, hop, err,      \* the daemon: its next call, the hop under way, its answer
  cur, tries,        \* claimFromStaging: the name held, the rounds made
  told, at,          \* the outcome, and the name reported as a landing place
  lost, refused, misled, others, edits   \* counters, for the bounds

daemon == <<pc, hop, err, cur, tries, told, at, mine>>
world  == <<tree, folder, tasks>>
asked  == <<verify, crosses>>
counts == <<lost, refused, misled, others, edits>>
vars   == <<daemon, world, asked, counts>>

transit == verify /\ crosses
Empty(p) == tree[p] = "none"
Free(n)  == Empty(Dest(n))
FirstFree == CHOOSE n \in Names : Free(n) /\ \A m \in Names : m < n => ~Free(m)
NamesLeft == \E n \in Names : Free(n)    \* a bound: Names has more than are taken
FolderEmpty == \A n \in Names : Empty(Staged(n))
Carry(from, to, what) == [tree EXCEPT ![to] = what, ![from] = "none"]

----------------------------------------------------------------------------
(* How a call can end.                                                      *)

Heard   == UNCHANGED counts
Silent  == lost < MaxLost /\ lost' = lost + 1
           /\ UNCHANGED <<refused, misled, others, edits>>
Refused == refused < MaxRefused /\ refused' = refused + 1
           /\ UNCHANGED <<lost, misled, others, edits>>
Misled  == misled < MaxMisled /\ misled' = misled + 1
           /\ UNCHANGED <<lost, refused, others, edits>>

Goto(l) == pc' = l /\ UNCHANGED <<hop, err, cur, tries, told, at, mine>>
GotoHop(h) == pc' = "ask" /\ hop' = h /\ UNCHANGED <<err, cur, tries, told, at, mine>>
Tell(o, n) == pc' = "told" /\ told' = o /\ at' = n
              /\ UNCHANGED <<hop, err, cur, tries, mine>>
Answer(e) == pc' = "answered" /\ err' = e /\ UNCHANGED <<hop, cur, tries, told, at>>

\* claimFromStaging's parkedError: told as it is, or the copy is not used.
Park == IF transit THEN Goto("discard") ELSE Tell("parked", NoName)

\* The entry stands at the destination under the name cur.
Landed(n) ==
  CASE transit            -> Goto("retire")
    [] verify /\ ~crosses -> Goto("verify")
    [] OTHER              -> Tell("moved", n)

----------------------------------------------------------------------------
(* copyMoveTask: start, the task list when the answer is lost, the poll.    *)

From == IF hop = "claim" THEN Staged(cur) ELSE Src
To   == CASE hop = "direct" -> Dest(0)
          [] hop = "claim"  -> Dest(cur)
          [] OTHER          -> Staged(0)
Task == [from |-> From, to |-> To, move |-> hop # "copy", state |-> "running"]
Begun == Append(tasks, Task)

Start ==
  /\ pc = "ask"
  /\ \/ Heard /\ tasks' = Begun /\ mine' = Len(Begun) /\ pc' = "poll"
        /\ UNCHANGED <<hop, err, cur, tries, told, at>>
     \/ Refused /\ \E e \in {"generic", "refused"} : Answer(e) /\ UNCHANGED <<tasks, mine>>
     \/ Silent /\ tasks' \in {tasks, Begun} /\ Goto("list")
  /\ UNCHANGED <<tree, folder, asked>>

\* findCopyMoveTask: a task for this source and destination is adopted, one
\* still open before one that has ended.
Matches == {i \in DOMAIN tasks : /\ tasks[i].from = From /\ tasks[i].to = To
                                 /\ tasks[i].move = (hop # "copy")}
Open(i) == tasks[i].state \in {"running", "copied"}
\* Mutant: an empty list is taken for a task not listed yet.
FindTaskAssumed ==
  /\ pc = "list"
  /\ \/ Silent /\ Answer("lost") /\ UNCHANGED mine
     \/ Heard /\ mine' = Len(tasks) + 1 /\ pc' = "poll"
        /\ UNCHANGED <<hop, err, cur, tries, told, at>>
  /\ UNCHANGED <<world, asked>>
FindTask ==
  /\ pc = "list"
  /\ \/ Silent /\ Answer("lost") /\ UNCHANGED mine
     \/ Heard /\ Matches = {} /\ Answer("notstarted") /\ UNCHANGED mine
     \/ Heard /\ \E i \in Matches :
          /\ \A j \in Matches : \/ Open(i) /\ ~Open(j)
                                \/ Open(i) = Open(j) /\ j <= i
          /\ mine' = i /\ pc' = "poll" /\ UNCHANGED <<hop, err, cur, tries, told, at>>
  /\ UNCHANGED <<world, asked>>

\* No deadline: the poll ends with the task, or after a long silence, or with
\* an error that File Station gave for the status and not for the task.
\* Mutant: the poll waits for a success.
PollForSuccess ==
  /\ pc = "poll"
  /\ \/ Heard /\ tasks[mine].state = "ok" /\ Answer("ok")
     \/ Silent /\ Open(mine) /\ Answer("lost")
     \/ Misled /\ \E e \in {"generic", "refused"} : Answer(e)
  /\ UNCHANGED <<world, asked, mine>>
Poll ==
  /\ pc = "poll"
  /\ \/ Heard /\ ~Open(mine) /\ Answer(tasks[mine].state)
     \/ Silent /\ Open(mine) /\ Answer("lost")
     \/ Misled /\ \E e \in {"generic", "refused"} : Answer(e)
  /\ UNCHANGED <<world, asked, mine>>

----------------------------------------------------------------------------
(* moveViaFS.                                                               *)

Probe ==
  /\ pc = "probe"
  /\ \/ Silent /\ Tell("failed", NoName)
     \/ Heard /\ Free(0) /\ GotoHop("direct")
     \/ Refused /\ Free(0) /\ Tell("failed", NoName)    \* track.ahead
     \/ Heard /\ ~Free(0) /\ Goto("folder")
  /\ UNCHANGED <<world, asked>>

Direct ==
  /\ pc = "answered" /\ hop = "direct"
  /\ CASE err = "ok"        -> Landed(0)
       [] err = "lost"      -> Goto("watch")
       [] err = "collision" -> Goto("folder")
       [] err = "generic"   -> Goto("recheck")
       [] OTHER             -> Tell("failed", NoName)
  /\ UNCHANGED <<world, asked, counts>>

\* sourceLeaves: asked again through statusGiveUp.
\* Mutants: a source still in place is a plain failure; an unsettled move
\* names no place.
WatchFailing ==
  /\ pc = "watch"
  /\ \/ Heard /\ Empty(Src) /\ Goto("arrive")
     \/ Heard /\ ~Empty(Src) /\ Tell("failed", NoName)
     \/ Silent /\ Tell("failed", NoName)
  /\ UNCHANGED <<world, asked>>
WatchNaming(n) ==
  /\ pc = "watch"
  /\ \/ Heard /\ Empty(Src) /\ Goto("arrive")
     \/ (Heard \/ Silent) /\ Tell("unsettled", n)
  /\ UNCHANGED <<world, asked>>
WatchNameless == WatchNaming(NoName)
Watch ==
  /\ pc = "watch"
  /\ \/ Heard /\ Empty(Src) /\ Goto("arrive")
     \/ Heard /\ ~Empty(Src) /\ Tell("unsettled", 0)
     \/ Silent /\ Tell("unsettled", 0)
  /\ UNCHANGED <<world, asked>>

\* arrived: the source is gone; is what stands at the destination ours?
Lost == IF transit THEN Tell("failed", NoName) ELSE Tell("gone", NoName)
Arrived ==
  /\ pc = "arrive"
  /\ \/ /\ Heard /\ tree[Dest(cur)] \in Alike /\ Landed(cur)
        /\ folder' \in {folder} \cup (IF hop = "claim" /\ FolderEmpty THEN {FALSE} ELSE {})
     \/ Heard /\ tree[Dest(cur)] \notin Alike /\ Lost /\ UNCHANGED folder
     \/ Silent /\ Lost /\ UNCHANGED folder
  /\ UNCHANGED <<tree, tasks, asked>>

\* A generic code earns staging only if the name is really taken.
Recheck ==
  /\ pc = "recheck"
  /\ \/ Silent /\ Tell("failed", NoName)
     \/ Heard /\ Free(0) /\ Tell("failed", NoName)
     \/ Heard /\ ~Free(0) /\ Goto("left")
  /\ UNCHANGED <<world, asked>>
\* Mutant: the source is not asked about.
LeftUnasked == pc = "left" /\ Heard /\ Goto("arrive") /\ UNCHANGED <<world, asked>>
Left ==
  /\ pc = "left"
  /\ \/ Heard /\ Goto(IF Empty(Src) THEN "arrive" ELSE "folder")
     \/ Silent /\ Goto("folder")
  /\ UNCHANGED <<world, asked>>

\* createFolder and track.staging; an empty folder left behind is harmless.
MakeFolder ==
  /\ pc = "folder"
  /\ \/ Heard /\ folder' = TRUE /\ GotoHop(IF transit THEN "copy" ELSE "staged")
     \/ (Refused \/ Silent) /\ Tell("failed", NoName) /\ UNCHANGED folder
  /\ UNCHANGED <<tree, tasks, asked>>

Stage ==
  /\ pc = "answered" /\ hop = "staged"
  /\ Goto(IF err = "ok" THEN "claim" ELSE "confirm")
  /\ UNCHANGED <<world, asked, counts>>

\* The folder is removed only if the entry is confirmed not to be in it, and
\* only if it is empty when the removal runs.
Confirm ==
  /\ pc = "confirm"
  /\ \/ Heard /\ (IF Empty(Staged(0)) THEN Goto("clear") ELSE Tell("parked", NoName))
     \/ Silent /\ Tell("parked", NoName)
  /\ UNCHANGED <<world, asked>>
\* Mutant: the folder goes with whatever is in it.
RemoveFolder ==
  /\ tree' = [p \in Places |-> IF \E n \in Names : p = Staged(n) THEN "none" ELSE tree[p]]
  /\ folder' = FALSE
RemoveEmptyFolder == tree' = tree /\ folder' \in (IF FolderEmpty THEN {FALSE, folder} ELSE {folder})
Clear ==
  /\ pc = "clear" /\ RemoveEmptyFolder /\ Tell("failed", NoName)
  /\ UNCHANGED <<tasks, asked, counts>>

----------------------------------------------------------------------------
(* claimFromStaging: the first free name, the rename to it inside the       *)
(* staging folder, the hop out of it.                                       *)

Claim ==
  /\ pc = "claim"
  /\ \/ tries = MaxTries /\ Heard /\ Park
     \/ tries < MaxTries /\ (Silent \/ Refused) /\ Park   \* or track.ahead
     \/ /\ tries < MaxTries /\ Heard /\ NamesLeft
        /\ IF FirstFree = cur THEN GotoHop("claim") ELSE Goto("rename")
  /\ UNCHANGED <<world, asked>>

Rename ==
  LET Moved == Carry(Staged(cur), Staged(FirstFree), tree[Staged(cur)]) IN
  /\ pc = "rename" /\ NamesLeft
  /\ \/ /\ Heard /\ ~Empty(Staged(cur)) /\ tree' = Moved
        /\ cur' = FirstFree /\ pc' = "ask" /\ hop' = "claim"
        /\ UNCHANGED <<err, tries, told, at, mine>>
     \/ Heard /\ Empty(Staged(cur)) /\ Park /\ UNCHANGED tree
     \/ (Refused \/ Silent) /\ Park /\ tree' \in {tree, Moved}   \* or track.ahead
  /\ UNCHANGED <<folder, tasks, asked>>

Hop ==
  /\ pc = "answered" /\ hop = "claim"
  /\ CASE err = "ok" -> Landed(cur) /\ RemoveEmptyFolder
       [] err = "lost" -> Goto("look") /\ UNCHANGED <<tree, folder>>
       [] err \in {"collision", "generic"} -> Goto("again") /\ UNCHANGED <<tree, folder>>
       [] OTHER -> Park /\ UNCHANGED <<tree, folder>>
  /\ UNCHANGED <<tasks, asked, counts>>

\* The staging folder is asked first: a namesake at the destination may be
\* another writer's.
Look ==
  /\ pc = "look"
  /\ \/ Heard /\ (IF Empty(Staged(cur)) THEN Goto("arrive") ELSE Park)
     \/ Silent /\ Park
  /\ UNCHANGED <<world, asked>>

Again ==
  /\ pc = "again"
  /\ \/ Heard /\ FirstFree # cur /\ pc' = "claim" /\ tries' = tries + 1
        /\ UNCHANGED <<hop, err, cur, told, at, mine>>
     \/ Heard /\ FirstFree = cur /\ Park
     \/ Silent /\ Park
  /\ UNCHANGED <<world, asked>>

\* verifyMoved: read back at the place it landed, or not readable there.
VerifyMoved ==
  /\ pc = "verify"
  /\ \/ Heard /\ Tell(IF tree[Dest(cur)] = "orig" THEN "moved" ELSE "gone", cur)
     \/ Refused /\ Tell("gone", cur)
  /\ UNCHANGED <<world, asked>>

----------------------------------------------------------------------------
(* transitViaFS, discardCopy, retireOriginal, restoreOriginal.              *)

Copy ==
  /\ pc = "answered" /\ hop = "copy"
  /\ Goto(IF err = "ok" THEN "readback" ELSE "discard")
  /\ UNCHANGED <<world, asked, counts>>

\* Mutant: a copy that could be read is taken as good.
ReadBackOnly ==
  /\ pc = "readback"
  /\ (Heard /\ Goto("claim")) \/ (Refused /\ Goto("discard"))
  /\ UNCHANGED <<world, asked>>
ReadBack ==
  /\ pc = "readback"
  /\ \/ Heard /\ Goto(IF tree[Staged(0)] = "orig" THEN "claim" ELSE "discard")
     \/ Refused /\ Goto("discard")
  /\ UNCHANGED <<world, asked>>

\* Only once the original is confirmed in place as the scan recorded it.
Discard ==
  /\ pc = "discard"
  /\ \/ Heard /\ (IF tree[Src] \in Alike THEN Goto("wipe") ELSE Tell("failed", NoName))
     \/ Silent /\ Tell("failed", NoName)
  /\ UNCHANGED <<world, asked>>

Wiped == [p \in Places |-> IF \E n \in Names : p = Staged(n) THEN "none" ELSE tree[p]]
Wipe ==
  /\ pc = "wipe" /\ Tell("failed", NoName)
  /\ \/ Heard /\ tree' = Wiped /\ folder' = FALSE
     \/ Refused /\ UNCHANGED <<tree, folder>>
     \/ Silent /\ (\/ tree' = Wiped /\ folder' = FALSE
                   \/ UNCHANGED <<tree, folder>>)
  /\ UNCHANGED <<tasks, asked>>

KeptBoth == Tell("both", cur)
Retire ==
  /\ pc = "retire"
  /\ \/ Heard /\ tree' = Carry(Src, Hidden, tree[Src]) /\ Goto("same")
     \/ Refused /\ KeptBoth /\ UNCHANGED tree
     \/ Silent /\ tree' \in {tree, Carry(Src, Hidden, tree[Src])} /\ Goto("renamed")
  /\ UNCHANGED <<folder, tasks, asked>>

Renamed ==
  /\ pc = "renamed"
  /\ \/ Heard /\ (IF Empty(Hidden) THEN KeptBoth ELSE Goto("same"))
     \/ Silent /\ KeptBoth
  /\ UNCHANGED <<world, asked>>

\* Out of everyone's reach now: is it still what was verified?
\* Mutant: the original is not looked at again once it is out of reach.
SameAssumed == pc = "same" /\ Heard /\ Goto("delete") /\ UNCHANGED <<world, asked>>
Same ==
  /\ pc = "same"
  /\ \/ Heard /\ Goto(IF tree[Hidden] \in Alike THEN "delete" ELSE "restore")
     \/ Silent /\ Goto("restore")
  /\ UNCHANGED <<world, asked>>

Delete ==
  /\ pc = "delete"
  /\ \/ Heard /\ tree' = [tree EXCEPT ![Hidden] = "none"] /\ Tell("moved", cur)
     \/ Refused /\ UNCHANGED tree /\ Goto("deleted")
     \/ Silent /\ tree' \in {tree, [tree EXCEPT ![Hidden] = "none"]} /\ Goto("deleted")
  /\ UNCHANGED <<folder, tasks, asked>>

Deleted ==
  /\ pc = "deleted"
  /\ \/ Heard /\ (IF Empty(Hidden) THEN Tell("moved", cur) ELSE Goto("restore"))
     \/ Silent /\ Goto("restore")
  /\ UNCHANGED <<world, asked>>

\* File Station overwrites nothing: a file saved meanwhile under the old name
\* keeps the original hidden.
CanRestore == Empty(Src) /\ ~Empty(Hidden)
Restored == Carry(Hidden, Src, tree[Hidden])
Restore ==
  /\ pc = "restore"
  /\ \/ Heard /\ CanRestore /\ tree' = Restored /\ KeptBoth
     \/ Heard /\ ~CanRestore /\ UNCHANGED tree /\ Goto("back")
     \/ Refused /\ UNCHANGED tree /\ Goto("back")
     \/ Silent /\ tree' \in {tree} \cup (IF CanRestore THEN {Restored} ELSE {}) /\ Goto("back")
  /\ UNCHANGED <<folder, tasks, asked>>

Back ==
  /\ pc = "back"
  /\ \/ Heard /\ (IF ~Empty(Src) /\ Empty(Hidden) THEN KeptBoth ELSE Tell("stranded", cur))
     \/ Silent /\ Tell("stranded", cur)
  /\ UNCHANGED <<world, asked>>

----------------------------------------------------------------------------
(* File Station at its tasks, other writers and the file's user.            *)

Set(i, s) == tasks' = [tasks EXCEPT ![i].state = s]
CanRun(t) == ~Empty(t.from) /\ Empty(t.to) /\ (t.to = Staged(0) => folder)
Renames(t) == t.move /\ (t.from # Src \/ ~crosses)

RunTask(i) ==
  LET t == tasks[i] IN
  /\ t.state = "running" /\ CanRun(t)
  /\ IF Renames(t)
       THEN Heard /\ tree' = Carry(t.from, t.to, tree[t.from]) /\ Set(i, "ok")
       ELSE /\ \/ Heard /\ tree' = [tree EXCEPT ![t.to] = tree[t.from]]
               \/ Refused /\ tree' = [tree EXCEPT ![t.to] = "bad"]
            /\ Set(i, IF t.move THEN "copied" ELSE "ok")
  /\ UNCHANGED <<folder, daemon, asked>>

\* The end of a move to another filesystem: the source goes last.
RemoveSource(i) ==
  /\ tasks[i].state = "copied"
  /\ Set(i, "ok") /\ tree' = [tree EXCEPT ![tasks[i].from] = "none"]
  /\ UNCHANGED <<folder, daemon, asked, counts>>

\* A clash is answered with its own code or a generic one; anything else may
\* go wrong too, after the copy as before it.
FailTask(i) ==
  LET t == tasks[i] IN
  /\ Open(i)
  /\ \/ Heard /\ t.state = "running" /\ ~CanRun(t)
        /\ \E e \in IF Empty(t.to) THEN {"refused"} ELSE {"collision", "generic"} : Set(i, e)
     \/ Refused /\ \E e \in {"generic", "refused"} : Set(i, e)
  /\ UNCHANGED <<tree, folder, daemon, asked>>

FileStation == \E i \in DOMAIN tasks : RunTask(i) \/ RemoveSource(i) \/ FailTask(i)

OtherWriter ==
  /\ pc # "told" /\ others < MaxOthers /\ others' = others + 1
  /\ \E n \in Names : Free(n) /\ tree' = [tree EXCEPT ![Dest(n)] = "other"]
  /\ UNCHANGED <<folder, tasks, daemon, asked, lost, refused, misled, edits>>

\* An edit where the file is, or a new file saved under the name it left.
Edit ==
  /\ pc # "told" /\ edits < MaxEdits /\ edits' = edits + 1
  /\ ~Empty(Src) \/ ~Empty(Hidden)
  /\ tree' = [tree EXCEPT ![Src] = "edit"]
  /\ UNCHANGED <<folder, tasks, daemon, asked, lost, refused, misled, others>>

Init ==
  /\ verify \in BOOLEAN /\ crosses \in BOOLEAN
  /\ tree = [p \in Places |-> IF p = Src THEN "orig" ELSE "none"]
  /\ folder = FALSE /\ tasks = <<>> /\ mine = 0
  /\ pc = (IF verify /\ crosses THEN "folder" ELSE "probe")
  /\ hop = "none" /\ err = "none" /\ cur = 0 /\ tries = 0
  /\ told = "working" /\ at = NoName
  /\ lost = 0 /\ refused = 0 /\ misled = 0 /\ others = 0 /\ edits = 0

Daemon ==
  \/ Start \/ FindTask \/ Poll
  \/ Probe \/ Direct \/ Watch \/ Arrived \/ Recheck \/ Left \/ MakeFolder
  \/ Stage \/ Confirm \/ Clear \/ Claim \/ Rename \/ Hop \/ Look \/ Again
  \/ VerifyMoved \/ Copy \/ ReadBack \/ Discard \/ Wipe
  \/ Retire \/ Renamed \/ Same \/ Delete \/ Deleted \/ Restore \/ Back

Next == Daemon \/ FileStation \/ OtherWriter \/ Edit

\* The request is served to its end, and File Station gets on with its tasks.
Fairness == WF_vars(Daemon) /\ WF_vars(FileStation)
Spec == Init /\ [][Next]_vars /\ Fairness

----------------------------------------------------------------------------
(* Properties.                                                              *)

\* Places hold what can stand there, names and task numbers exist, and the
\* claim loop keeps to its rounds (fsapi.go:738).
TypeOK ==
  /\ tree \in [Places -> Contents] /\ folder \in BOOLEAN
  /\ cur \in Names /\ at \in Names \cup {NoName} /\ tries \in 0 .. MaxTries
  /\ mine \in 0 .. Len(tasks)

Done == pc = "told"
Holds(p) == tree[p] \in Ours

\* The file is always somewhere, whatever is staged, given up, discarded or
\* retired: its own content while nobody edits it and every byte is checked,
\* some form of it otherwise (fsapi.go:826-838, transit.go:255-273).
ContentSurvives ==
  /\ \E p \in Places : Holds(p)
  /\ transit /\ edits = 0 => \E p \in Places : tree[p] = "orig"

\* What the user saves while the move runs is never deleted with the original
\* nor left out of the move (transit.go:275-322); a plain move to another
\* filesystem is File Station's own and cannot promise it.
EditSurvives ==
  (transit \/ ~crosses) /\ edits > 0 => \E p \in Places : tree[p] = "edit"

\* A step that deletes the original finds it unchanged, and a copy of it, read
\* back as good, in place under the name reported (transit.go:167-185).
DeletedForCopy ==
  [][~Empty(Hidden) /\ tree'[Hidden] = "none" /\ tree'[Src] # tree[Hidden]
       => tree[Hidden] = "orig" /\ tree[Dest(cur)] = "orig"]_vars

\* A plain failure is told only of a file that stays in its folder: a move
\* that may still complete is "reported unsettled, never as a plain failure"
\* (fsapi.go:799-802).
FailedMeansStill == Done /\ told = "failed" /\ misled = 0 => Holds(Src)

\* The same, for every route but the staged move, lost answers or not.
FailedUnstagedMeansStill == hop # "staged" => FailedMeansStill

\* A file that a move straight to the destination took from its folder is
\* reported where it lands, so that it is recorded as a copy this app put
\* there, lost answers or not, or told gone (move.go:205-234).
LandedRecorded ==
  Done /\ hop = "direct" /\ misled = 0 /\ told # "gone" /\ ~Holds(Src) => at = 0

\* Every file of ours at the destination is reported, and so recorded:
\* "something now sits at the destination because of this request [...] and
\* it must never count as the copy that stays" (move.go:215-218).
CopiesRecorded == Done /\ lost = 0 => \A n \in Names : Holds(Dest(n)) => at = n

\* The kinds of places that hold the file, and the answers lost or misleading.
HeldIn == {p[1] : p \in {q \in Places : Holds(q)}}
Doubt  == lost + misled
FM == INSTANCE FileMove WITH held <- HeldIn, doubt <- Doubt

\* The routes, retries and restorations together keep the promise of FileMove:
\* what is told fits where the file is (fsapi.go:756-773, transit.go:167-185).
KeepsPromise == FM!Spec

\* The request ends whatever goes wrong: File Station gets on with its tasks,
\* and the poll, which has no deadline, ends with the task (fsapi.go:419-456).
Ends == <>Done
=============================================================================
