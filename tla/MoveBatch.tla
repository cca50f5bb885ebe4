------------------------------ MODULE MoveBatch ------------------------------
(***************************************************************************)
(* Move batches over one duplicated content: handleMove from its vetting to *)
(* its prune (src/server/move.go), the record of moved copies               *)
(* (src/server/moveout.go) and the results the scans publish, in a tree     *)
(* that its user goes on changing and where File Station may answer late.   *)
(*                                                                          *)
(* A file is an id: it stands for inode, size and modified time, which is   *)
(* what rows and data keys compare.  All ids were born with the same        *)
(* content; damage changes the content and leaves the id.  Scans are kept   *)
(* out while a batch works (module Admission), and so is a second batch.    *)
(***************************************************************************)
EXTENDS KeepOne, FiniteSets

CONSTANTS
  Order,          \* every place a file may stand, in the order a scan lists them
  Dest,           \* the places a batch may land a file at
  Refs,           \* the places inside reference folders
  TempPlaces,     \* the places whose names Temporary Files lists
  Scopes,         \* the scopes a duplicates scan may cover
  Ids, NoId,      \* the files, and the absence of one
  FirstIds,       \* the files there are at the start, at places outside Dest
  MaxBatches, MaxScans, MaxMeddles, MaxUnsettled,  \* bounds on one behaviour,
  MaxEvents       \* and on all but the batches together

Places == {Order[i] : i \in DOMAIN Order}

ASSUME OrderAssumption == Order \in Seq(Places)
ASSUME PlacesAssumption == Dest \subseteq Places /\ Refs \subseteq Places \ Dest
ASSUME ScopesAssumption == \A scope \in Scopes : scope \subseteq Places
ASSUME IdsAssumption == NoId \notin Ids /\ FirstIds \subseteq Ids

VARIABLES
  disk,       \* what stands at each place
  damaged,    \* the files whose content is no longer what it was
  late,       \* moves File Station may still finish: <<from, to, file>>
  parked,     \* files left in a hidden staging folder
  group,      \* the one group of the stored duplicates result, by place
  flat,       \* the stored Temporary Files result, by place
  keepers,    \* survivors of dissolved groups
  outPaths, outData, outFrom,   \* moveOut: its three kinds of entry
  pc,         \* where the batch stands
  tool, verify, requested, todo,   \* the request, and its files not yet tried
  exists,     \* what groupExistence answered
  held,       \* drops
  landPaths, landData, gone,    \* what the batch has landed and emptied so far
  origs,      \* history: the originals of the published group, <<place, file>>
  soundOrigs, \* history: those read and found sound when the batch checked
  open,       \* history: which batch since that scan left an outcome open, the
              \* current one or, "earlier", one before; or one that decides
              \* without an answer over rows that no longer stand
  touched,    \* history: places the user or a late landing changed
  appMoved,   \* history: files this app put where they stand, and knows it
  batches, scans, meddles, unsettled   \* counters, for the bounds

world   == <<disk, damaged, late, parked>>
results == <<group, flat, keepers>>
moveOut == <<outPaths, outData, outFrom>>
request == <<tool, verify, requested>>
vetted  == <<exists, held>>
landing == <<landPaths, landData, gone>>
history == <<origs, soundOrigs, open, touched, appMoved>>
bounds  == <<batches, scans, meddles, unsettled>>
vars    == <<world, results, moveOut, pc, request, todo, vetted, landing, history, bounds>>

MoreMayHappen == scans + meddles + unsettled < MaxEvents

Sound(p) == disk[p] \in Ids \ damaged

NoRows == [p \in Places |-> NoId]

(***************************************************************************)
(* moveOutSet.                                                              *)
(***************************************************************************)

\* Mutant: a moved copy is told by its path alone.
IsOutByPath(p) == p \in outPaths

\* isOut: at a recorded path, or holding recorded data at a path nothing was
\* moved away from.
IsOut(p) == p \in outPaths \/ (p \notin outFrom /\ disk[p] \in outData)

(***************************************************************************)
(* Scans: the results that replace the stored ones, batches being kept out. *)
(***************************************************************************)

CanScan == pc = "idle" /\ scans < MaxScans /\ MoreMayHappen /\ scans' = scans + 1

\* publish of a duplicates pass: the copies in scope that share the content,
\* and no more keepers.
ScanDuplicates(scope) ==
  LET found == {p \in scope : Sound(p)} IN
  /\ CanScan
  /\ group' = [p \in Places |->
                IF p \in found /\ Cardinality(found) >= 2 THEN disk[p] ELSE NoId]
  /\ keepers' = {}
  /\ origs' = {<<p, group'[p]>> : p \in {q \in Places : group'[q] # NoId /\ ~IsOut(q)}}
  /\ soundOrigs' = {}
  /\ open' = IF late = {} THEN "none" ELSE "earlier"
  /\ UNCHANGED <<world, flat, moveOut, pc, request, todo, vetted, landing, touched,
                 appMoved, batches, meddles, unsettled>>

\* The same pass aborted or hit by a panic: its error is the result.
AbortDuplicates ==
  /\ CanScan
  /\ group' = NoRows
  /\ keepers' = {}
  /\ origs' = {} /\ soundOrigs' = {}
  /\ UNCHANGED <<world, flat, moveOut, pc, request, todo, vetted, landing,
                 open, touched, appMoved, batches, meddles, unsettled>>

\* publish of a Temporary Files pass.
ScanTemp ==
  /\ CanScan
  /\ flat' = [p \in Places |-> IF p \in TempPlaces THEN disk[p] ELSE NoId]
  /\ UNCHANGED <<world, group, keepers, moveOut, pc, request, todo, vetted, landing,
                 history, batches, meddles, unsettled>>

(***************************************************************************)
(* The batch.                                                               *)
(***************************************************************************)

Listed(t) == IF t = "duplicates" THEN group ELSE flat

\* The members of the group File Station shows as the scan recorded them.
Existing == {p \in Places : group[p] # NoId /\ disk[p] = group[p]}

\* Deciding without an answer, over rows that no longer stand as listed.
Blind(there) == there = {} /\ \E p \in Places : group[p] # NoId /\ disk[p] # group[p]

\* The rows of the group, each at its rank in the order of the listing.
Rows == [i \in {j \in DOMAIN Order : group[Order[j]] # NoId} |-> Order[i]]

VetWith(req, there, sound) ==
  [paths |-> Rows, requested |-> req,
   refs |-> Refs, exists |-> there, out |-> {p \in Places : IsOut(p)}, sound |-> sound]

\* newMoveVet: the request is vetted against the stored results and against what
\* File Station answers, which may be nothing (groupExistence fails safe).
Vet(t, v, req) ==
  /\ pc = "idle" /\ batches < MaxBatches
  /\ req # {}
  /\ tool' = t /\ verify' = v /\ requested' = req /\ todo' = req
  /\ exists' \in {Existing, {}}
  /\ held' = Held(VetWith(req, exists', Places))
  /\ pc' = IF v THEN "check" ELSE "move"
  /\ batches' = batches + 1
  /\ open' = IF open = "none" /\ ~Blind(exists') THEN "none" ELSE "earlier"
  /\ soundOrigs' = {}
  /\ UNCHANGED <<world, results, moveOut, landing, origs, touched, appMoved, scans,
                 meddles, unsettled>>

\* Mutant: the copies that stay are counted without being read.
CheckStayingUnread ==
  /\ pc = "check"
  /\ held' = Held(VetWith(requested, exists, Places))
  /\ soundOrigs' = {<<p, disk[p]>> : p \in {q \in exists : Sound(q) /\ ~IsOut(q)}}
  /\ open' = IF Blind(exists) THEN "earlier" ELSE open
  /\ pc' = "move"
  /\ UNCHANGED <<world, results, moveOut, request, todo, exists, landing, origs,
                 touched, appMoved, bounds>>

\* checkStaying: drops again, a copy counting only once read and found sound.
CheckStaying ==
  /\ pc = "check"
  /\ held' = Held(VetWith(requested, exists, {p \in Places : Sound(p)}))
  /\ soundOrigs' = {<<p, disk[p]>> : p \in {q \in exists : Sound(q) /\ ~IsOut(q)}}
  /\ open' = IF Blind(exists) THEN "earlier" ELSE open
  /\ pc' = "move"
  /\ UNCHANGED <<world, results, moveOut, request, todo, exists, landing, origs,
                 touched, appMoved, bounds>>

\* refuse, the identity checks and preMoveHash: what may move at all.
Movable(p) ==
  /\ p \notin held \cup keepers \cup Refs
  /\ Listed(tool)[p] # NoId /\ disk[p] = Listed(tool)[p]
  /\ verify /\ tool = "duplicates" => Sound(p)

Take(p) == pc = "move" /\ p \in todo /\ todo' = todo \ {p}

BatchUnchanged == UNCHANGED <<results, moveOut, pc, request, vetted, batches, scans, meddles>>

\* A file refused, or failed with nothing moved.
Refuse(p) ==
  /\ Take(p)
  /\ BatchUnchanged
  /\ UNCHANGED <<world, landing, history, unsettled>>

\* Moved, its place free and its landing known; the data may have suffered in
\* transit, which a verified move reports as "moved, but".
Move(p, at) ==
  /\ Take(p) /\ Movable(p)
  /\ disk[at] = NoId
  /\ disk' = [disk EXCEPT ![p] = NoId, ![at] = disk[p]]
  /\ damaged' \in {damaged, damaged \cup {disk[p]}}
  /\ landPaths' = landPaths \cup {at}
  /\ landData' = landData \cup {disk[p]}
  /\ gone' = gone \cup {p}
  /\ appMoved' = appMoved \cup {disk[p]}
  /\ BatchUnchanged
  /\ UNCHANGED <<late, parked, origs, soundOrigs, open, touched, unsettled>>

\* A verified copy is in place and its original could not be removed.
KeepBoth(p, at) ==
  /\ Take(p) /\ Movable(p) /\ verify
  /\ disk[at] = NoId
  /\ \E f \in Ids : /\ \A q \in Places : disk[q] # f
                    /\ f \notin parked \cup damaged \cup appMoved
                    /\ disk' = [disk EXCEPT ![at] = f]
                    /\ landData' = landData \cup {f}
                    /\ appMoved' = appMoved \cup {f}
  /\ landPaths' = landPaths \cup {at}
  /\ BatchUnchanged
  /\ UNCHANGED <<damaged, late, parked, gone, origs, soundOrigs, open, touched,
                 unsettled>>

\* Mutant: a row is taken for emptied only when its move ended clean.
ParkKeepingRow(p) ==
  /\ Take(p) /\ Movable(p)
  /\ disk' = [disk EXCEPT ![p] = NoId]
  /\ parked' = parked \cup {disk[p]}
  /\ BatchUnchanged
  /\ UNCHANGED <<damaged, late, landing, history, unsettled>>

\* Left in the staging folder: gone from its place, landed nowhere known.
Park(p) ==
  /\ Take(p) /\ Movable(p)
  /\ disk' = [disk EXCEPT ![p] = NoId]
  /\ parked' = parked \cup {disk[p]}
  /\ gone' = gone \cup {p}
  /\ BatchUnchanged
  /\ UNCHANGED <<damaged, late, landPaths, landData, history, unsettled>>

\* The answer was lost and the source still stood: recorded where it would land,
\* its row kept (unsettledError).
LeaveUnsettled(p, at) ==
  /\ Take(p) /\ Movable(p)
  /\ unsettled < MaxUnsettled /\ MoreMayHappen /\ unsettled' = unsettled + 1
  /\ late' = late \cup {<<p, at, disk[p]>>}
  /\ landPaths' = landPaths \cup {at}
  /\ BatchUnchanged
  /\ open' = IF open = "none" THEN "last" ELSE open
  /\ UNCHANGED <<disk, damaged, parked, landData, gone, origs, soundOrigs, touched, appMoved>>

\* Mutant: a group of a single row is left standing.
PrunedKeepingOne(rows, left) == [p \in Places |-> IF p \in left THEN rows[p] ELSE NoId]

\* pruneMoved: the rows left of a group, none when fewer than two are.
Pruned(rows, left) ==
  [p \in Places |-> IF p \in left /\ Cardinality(left) >= 2 THEN rows[p] ELSE NoId]

\* Mutant: the survivor of a dissolved group is not remembered.
PruneForgetting(rows, left) == {}

\* The single row of a dissolved group is remembered as a keeper.
SurvivorOf(rows, left) ==
  IF Cardinality(left) = 1 THEN {p \in left : rows[p] # NoId} ELSE {}

\* The end of handleMove: the record joins moveOut, the rows are pruned.
Finish ==
  LET left == {p \in Places : group[p] # NoId} \ gone IN
  /\ pc = "move" /\ todo = {}
  /\ outPaths' = outPaths \cup landPaths
  /\ outData' = outData \cup landData
  /\ outFrom' = outFrom \cup gone
  /\ group' = Pruned(group, left)
  /\ keepers' = keepers \cup SurvivorOf(group, left)
  /\ flat' = [p \in Places |-> IF p \in gone THEN NoId ELSE flat[p]]
  /\ landPaths' = {} /\ landData' = {} /\ gone' = {}
  /\ tool' = "duplicates" /\ verify' = FALSE
  /\ requested' = {} /\ exists' = {} /\ held' = {}
  /\ pc' = "idle"
  /\ UNCHANGED <<world, todo, history, bounds>>

(***************************************************************************)
(* The world: File Station finishing late, and the user.                    *)
(***************************************************************************)

\* A move whose answer was lost ends after all, or never will.
LandLate(m) ==
  /\ m \in late /\ late' = late \ {m}
  /\ disk[m[1]] = m[3] /\ disk[m[2]] = NoId
  /\ disk' = [disk EXCEPT ![m[1]] = NoId, ![m[2]] = m[3]]
  /\ touched' = touched \cup {m[1], m[2]}
  /\ UNCHANGED <<damaged, parked, results, moveOut, pc, request, todo, vetted, landing,
                 origs, soundOrigs, open, appMoved, bounds>>

FailLate(m) ==
  /\ m \in late /\ late' = late \ {m}
  /\ UNCHANGED <<disk, damaged, parked, results, moveOut, pc, request, todo, vetted,
                 landing, history, bounds>>

\* What the user does to the places in ps is theirs to answer for: a promise
\* about originals is void once they changed one of them or put a file at a
\* place the group lists.
Meddle(ps, filled) ==
  /\ meddles < MaxMeddles /\ MoreMayHappen /\ meddles' = meddles + 1
  /\ touched' = touched \cup ps
  /\ origs' = IF (\E o \in origs : o[1] \in ps) \/ \E p \in filled : group[p] # NoId
              THEN {} ELSE origs
  /\ soundOrigs' = IF \E o \in soundOrigs : o[1] \in ps THEN {} ELSE soundOrigs
  /\ UNCHANGED <<late, results, moveOut, pc, request, todo, vetted, landing,
                 open, appMoved, batches, scans, unsettled>>

Delete(p) ==
  /\ disk[p] # NoId /\ disk' = [disk EXCEPT ![p] = NoId]
  /\ Meddle({p}, {}) /\ UNCHANGED <<damaged, parked>>

Rename(p, q) ==
  /\ disk[p] # NoId /\ disk[q] = NoId
  /\ disk' = [disk EXCEPT ![p] = NoId, ![q] = disk[p]]
  /\ Meddle({p, q}, {q}) /\ UNCHANGED <<damaged, parked>>

Damage(p) ==
  /\ Sound(p) /\ damaged' = damaged \cup {disk[p]}
  /\ Meddle({p}, {}) /\ UNCHANGED <<disk, parked>>

Unpark(f, q) ==
  /\ f \in parked /\ parked' = parked \ {f}
  /\ disk[q] = NoId /\ disk' = [disk EXCEPT ![q] = f]
  /\ Meddle({q}, {q}) /\ UNCHANGED damaged

(***************************************************************************)
(* Specification.                                                           *)
(***************************************************************************)

Init ==
  /\ disk \in [Places -> FirstIds \cup {NoId}]
  /\ \A f \in FirstIds : \E p \in Places \ Dest : disk[p] = f
  /\ \A p, q \in Places : disk[p] = disk[q] /\ disk[p] # NoId => p = q
  /\ damaged = {} /\ late = {} /\ parked = {}
  /\ group = NoRows /\ flat = NoRows /\ keepers = {}
  /\ outPaths = {} /\ outData = {} /\ outFrom = {}
  /\ pc = "idle" /\ tool = "duplicates" /\ verify = FALSE /\ requested = {} /\ todo = {}
  /\ exists = {} /\ held = {}
  /\ landPaths = {} /\ landData = {} /\ gone = {}
  /\ origs = {} /\ soundOrigs = {} /\ open = "none" /\ touched = {}
  /\ appMoved = {}
  /\ batches = 0 /\ scans = 0 /\ meddles = 0 /\ unsettled = 0

Scan == AbortDuplicates \/ ScanTemp \/ \E scope \in Scopes : ScanDuplicates(scope)

Batch ==
  \/ \E t \in {"duplicates", "temp_files"}, v \in BOOLEAN :
       \E req \in SUBSET {p \in Places : group[p] # NoId \/ flat[p] # NoId} : Vet(t, v, req)
  \/ CheckStaying
  \/ \E p \in todo : Refuse(p) \/ Park(p)
  \/ \E p \in todo, at \in Dest : Move(p, at) \/ KeepBoth(p, at) \/ LeaveUnsettled(p, at)
  \/ Finish

World ==
  \/ \E m \in late : LandLate(m) \/ FailLate(m)
  \/ \E p \in Places : Delete(p) \/ Damage(p)
  \/ \E p, q \in Places : Rename(p, q)
  \/ \E f \in parked, q \in Places : Unpark(f, q)

Next == Scan \/ Batch \/ World

Spec == Init /\ [][Next]_vars

(***************************************************************************)
(* Properties.                                                              *)
(***************************************************************************)

\* The one type invariant; what stands at a place stands nowhere else.
TypeOK ==
  /\ disk \in [Places -> Ids \cup {NoId}]
  /\ \A p, q \in Places : disk[p] = disk[q] /\ disk[p] # NoId => p = q
  /\ parked \subseteq Ids /\ \A p \in Places : disk[p] \notin parked
  /\ group \in [Places -> Ids \cup {NoId}] /\ flat \in [Places -> Ids \cup {NoId}]
  /\ Cardinality({p \in Places : group[p] # NoId}) # 1
  /\ keepers \cup outPaths \cup outFrom \cup requested \cup exists \cup landPaths
       \cup gone \cup touched \subseteq Places
  /\ damaged \cup outData \cup landData \cup appMoved \subseteq Ids
  /\ pc \in {"idle", "check", "move"}
  /\ todo \subseteq requested /\ Cardinality(held) <= 1

\* Over any number of batches, of either tool, the originals a duplicates scan
\* listed are not all moved away while the user leaves them alone: the drops of
\* each batch, the rows it prunes and the keepers it leaves make it so.
OriginalStays ==
  open # "earlier" /\ origs # {} => \E o \in origs : disk[o[1]] = o[2]

\* With verification, an original that was sound when the batch read the copies
\* that stay is not outlived by damaged ones.
SoundOriginalStays ==
  open # "earlier" /\ soundOrigs # {}
    => \E o \in soundOrigs : disk[o[1]] = o[2] /\ o[2] \notin damaged

\* Between batches, no stored row of any tool names a place this app emptied.
NoPhantomRow ==
  pc = "idle" =>
    \A p \in Places \ touched : /\ group[p] # NoId => disk[p] = group[p]
                                /\ flat[p] # NoId => disk[p] = flat[p]

\* Between batches, a copy this app moved is known for one wherever the user has
\* moved it to, short of a place a move took a file from.
MovedCopiesKnown ==
  pc = "idle" => \A p \in Places \ outFrom : disk[p] \in appMoved => IsOut(p)

\* groupExistence: "a member deleted or moved externally since the scan must not
\* excuse moving the last remaining copy", and File Station not answering "fails
\* in the safe direction": the vetting leaves some copy that is there.
LastCopyHeld ==
  [][pc = "idle" /\ pc' # "idle" /\ Existing # {}
       => \E p \in Existing : p \notin requested' \/ p \in held' \cup keepers \cup Refs]_vars

\* unsettledError: the file whose move may still run "is treated as a copy this
\* app moved, so any copy left behind stays protected".
LeftBehindProtected ==
  origs # {} => \E o \in origs : disk[o[1]] = o[2]
=============================================================================
