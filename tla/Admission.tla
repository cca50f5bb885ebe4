------------------------------ MODULE Admission ------------------------------
(***************************************************************************)
(* Who may work on the tree: scans, move batches, reference-list changes,   *)
(* stops and restarts of the daemon, interleaved at every point where the   *)
(* code drops Server.mu (src/server/daemon.go, handlers.go, scan.go,        *)
(* move.go).  One action is one critical section of mu, one lock operation  *)
(* or one write of the state directory.                                     *)
(*                                                                          *)
(* The work itself is abstract here: what a scan publishes is the number of *)
(* the scan, and what a batch is vetted against is the number it read.      *)
(***************************************************************************)
EXTENDS Naturals

CONSTANTS
  Requests,    \* the /api/move and /api/refs requests that may overlap
  NoReq,       \* moveMu is free
  MaxScans,    \* bound: scans admitted in one behaviour
  MaxCrashes   \* bound: restarts of the daemon in one behaviour

ASSUME RequestsAssumption == NoReq \notin Requests /\ Requests \cap Nat = {}
ASSUME BoundsAssumption == MaxScans \in Nat /\ MaxCrashes \in Nat

Scans == 1..MaxScans
None  == 0            \* no scan: an empty slot, no marker, nothing unsaved

VARIABLES
  job,          \* Server.job: the scan holding the slot
  stoppable,    \* Server.job.cancel is armed
  moveMu,       \* Server.moveMu: its holder
  moveActive,   \* Server.moveActive: the claim scans can see
  stored,       \* Server.results: the scan that published last
  interrupted,  \* Server.interrupted: the scan the last start found unfinished
  marker,       \* the scan marker on disk
  unsaved,      \* history: the scan whose results are in memory only
  scanPc,       \* where the goroutine of each scan stands
  cancelled,    \* the scans whose cancel channel is closed
  published,    \* the scans that published a result
  marked,       \* history: the scans whose marker reached the disk
  rqPc,         \* where the goroutine of each request stands
  saw,          \* the stored result each batch was vetted against
  crashes       \* counts restarts, for the bound

server == <<job, stoppable, moveMu, moveActive, stored, interrupted>>
disk   == <<marker, unsaved, marked>>
scan   == <<scanPc, cancelled, published>>
rq     == <<rqPc, saw>>
vars   == <<server, disk, scan, rq, crashes>>

Running == job # None

(***************************************************************************)
(* Scans: handleScan admits one, runScan carries it.                        *)
(***************************************************************************)

ScanStep(s, from, to) == /\ scanPc[s] = from
                         /\ scanPc' = [scanPc EXCEPT ![s] = to]

\* Mutant: the claim of a batch is not asked about.
ScanAdmittedOverMove == ~Running

\* scanAdmissionLocked: no scan in the slot and no batch holding the claim.
ScanAdmitted == ~Running /\ ~moveActive

\* The admission section of handleScan; the goroutine starts behind it.
StartScan(s) ==
  /\ ScanAdmitted
  /\ \A t \in Scans : t < s => scanPc[t] # "none"
  /\ ScanStep(s, "none", "start")
  /\ job' = s
  /\ stoppable' = TRUE
  /\ interrupted' = None
  /\ UNCHANGED <<moveMu, moveActive, stored, disk, cancelled, published, rq, crashes>>

\* writeMarker: a failed write is logged and the scan goes on unmarked.
WriteMarker(s) ==
  /\ ScanStep(s, "start", "run")
  /\ \/ marker' = s /\ marked' = marked \cup {s}
     \/ UNCHANGED <<marker, marked>>
  /\ UNCHANGED <<server, unsaved, cancelled, published, rq, crashes>>

\* The content pass writes the marker again, with the generation of its hash
\* store; a write that fails leaves the old one.
RewriteMarker(s) ==
  /\ scanPc[s] = "run"
  /\ marker' = s
  /\ marked' = marked \cup {s}
  /\ UNCHANGED <<server, unsaved, scan, rq, crashes>>

\* publish: a pass finished (or aborted, its error being the result).
Publish(s) ==
  /\ scanPc[s] = "run"
  /\ stored' = s
  /\ unsaved' = s
  /\ published' = published \cup {s}
  /\ UNCHANGED <<job, stoppable, moveMu, moveActive, interrupted, marker, marked,
                 scanPc, cancelled, rq, crashes>>

\* The passes are over, or Stop was noticed between two of them, or a panic was
\* recovered: before the first pass it leaves nothing published, in a later one
\* an error, which is a Publish of its own.
LeaveRun(s) ==
  /\ ScanStep(s, "run", "ending")
  /\ UNCHANGED <<server, disk, cancelled, published, rq, crashes>>

\* Mutant: the job slot is released as soon as the results are on disk.
SaveScanReleasingEarly(s) ==
  /\ ScanStep(s, "ending", "clear")
  /\ job' = None
  /\ unsaved' = IF s \in published THEN None ELSE unsaved
  /\ UNCHANGED <<stoppable, moveMu, moveActive, stored, interrupted, marker, marked,
                 cancelled, published, rq, crashes>>

\* saveState in the deferred function, only when something was published.
\* A failed save releases the slot and leaves the marker where it is.
SaveScan(s) ==
  /\ \/ /\ ScanStep(s, "ending", "clear")
        /\ unsaved' = IF s \in published THEN None ELSE unsaved
        /\ UNCHANGED <<job, stoppable>>
     \/ /\ s \in published
        /\ ScanStep(s, "ending", "done")
        /\ job' = None /\ stoppable' = FALSE
        /\ UNCHANGED unsaved
  /\ UNCHANGED <<moveMu, moveActive, stored, interrupted, marker, marked,
                 cancelled, published, rq, crashes>>

\* clearMarker: removed, or emptied in place, or neither and logged.
ClearMarker(s) ==
  /\ ScanStep(s, "clear", "release")
  /\ marker' \in {None, marker}
  /\ UNCHANGED <<server, unsaved, marked, cancelled, published, rq, crashes>>

ReleaseJob(s) ==
  /\ ScanStep(s, "release", "done")
  /\ job' = None
  /\ stoppable' = FALSE
  /\ UNCHANGED <<moveMu, moveActive, stored, interrupted, disk,
                 cancelled, published, rq, crashes>>

\* handleCancel: closes the channel once and disarms itself.
Cancel ==
  /\ Running /\ stoppable
  /\ stoppable' = FALSE
  /\ cancelled' = cancelled \cup {job}
  /\ UNCHANGED <<job, moveMu, moveActive, stored, interrupted, disk,
                 scanPc, published, rq, crashes>>

(***************************************************************************)
(* Move requests: handleMove from its cheap check to the deferred unlocks.  *)
(***************************************************************************)

RqStep(r, from, to) == /\ rqPc[r] = from
                       /\ rqPc' = [rqPc EXCEPT ![r] = to]

\* The check before the destination round trips, which is not the guard.
CheapCheck(r) ==
  /\ ~Running
  /\ RqStep(r, "idle", "dest")
  /\ UNCHANGED <<server, disk, scan, saw, crashes>>

\* vetDestination refuses the destination before any lock is taken.
RefuseDest(r) ==
  /\ RqStep(r, "dest", "idle")
  /\ UNCHANGED <<server, disk, scan, saw, crashes>>

\* moveMu.TryLock: a second request is refused, not queued.
TryLock(r) ==
  /\ \/ moveMu = NoReq /\ moveMu' = r /\ RqStep(r, "dest", "locked")
     \/ moveMu # NoReq /\ UNCHANGED moveMu /\ RqStep(r, "dest", "idle")
  /\ UNCHANGED <<job, stoppable, moveActive, stored, interrupted, disk, scan,
                 saw, crashes>>

\* Mutant: the claim is made without reading the scan flag again.
BeginMoveUnchecked(r) ==
  /\ moveActive' = TRUE
  /\ RqStep(r, "locked", "vet")
  /\ UNCHANGED <<job, stoppable, moveMu, stored, interrupted, disk, scan, saw, crashes>>

\* beginMove: the scan flag is read again and the slot claimed in one section.
BeginMove(r) ==
  /\ \/ Running /\ UNCHANGED moveActive /\ RqStep(r, "locked", "unlock")
     \/ ~Running /\ moveActive' = TRUE /\ RqStep(r, "locked", "vet")
  /\ UNCHANGED <<job, stoppable, moveMu, stored, interrupted, disk, scan, saw, crashes>>

\* newMoveVet: the snapshot of the stored results the batch acts on.
Vet(r) ==
  /\ RqStep(r, "vet", "move")
  /\ saw' = [saw EXCEPT ![r] = stored]
  /\ UNCHANGED <<server, disk, scan, crashes>>

\* Mutant: a refusal after the claim forgets to release it.
AbortMoveKeepingClaim(r) ==
  /\ RqStep(r, "vet", "unlock") \/ RqStep(r, "move", "unlock")
  /\ UNCHANGED <<server, disk, scan, saw, crashes>>

\* A refusal of the whole request after the claim, or a panic: the deferred
\* functions run either way.
AbortMove(r) ==
  /\ RqStep(r, "vet", "end") \/ RqStep(r, "move", "end")
  /\ UNCHANGED <<server, disk, scan, saw, crashes>>

\* The files of the batch move and their rows are pruned.
MoveFiles(r) ==
  /\ RqStep(r, "move", "save")
  /\ UNCHANGED <<server, disk, scan, saw, crashes>>

\* saveState writes everything in memory, a scan's unsaved results included.
SaveMove(r) ==
  /\ RqStep(r, "save", "end")
  /\ unsaved' = None \/ UNCHANGED unsaved
  /\ UNCHANGED <<server, marker, marked, scan, saw, crashes>>

EndMove(r) ==
  /\ RqStep(r, "end", "unlock")
  /\ moveActive' = FALSE
  /\ saw' = [saw EXCEPT ![r] = None]
  /\ UNCHANGED <<job, stoppable, moveMu, stored, interrupted, disk, scan, crashes>>

\* Mutant: the lock is left holding the value of an empty job slot.
UnlockToNone(r) ==
  /\ RqStep(r, "unlock", "idle")
  /\ moveMu' = None
  /\ UNCHANGED <<job, stoppable, moveActive, stored, interrupted, disk, scan, saw, crashes>>

Unlock(r) ==
  /\ RqStep(r, "unlock", "idle")
  /\ moveMu' = NoReq
  /\ UNCHANGED <<job, stoppable, moveActive, stored, interrupted, disk, scan, saw, crashes>>

(***************************************************************************)
(* handleRefs: refused while a scan runs, accepted while a batch does.  The *)
(* list itself is left out; what matters here is that its save writes the   *)
(* results as well.                                                         *)
(***************************************************************************)

SetRefs(r) ==
  /\ ~Running
  /\ RqStep(r, "idle", "saverefs")
  /\ UNCHANGED <<server, disk, scan, saw, crashes>>

SaveRefs(r) ==
  /\ RqStep(r, "saverefs", "idle")
  /\ unsaved' = None \/ UNCHANGED unsaved
  /\ UNCHANGED <<server, marker, marked, scan, saw, crashes>>

(***************************************************************************)
(* The daemon dies at any point and starts again: loadState brings back     *)
(* what was saved, loadMarker the notice of a scan that did not end.        *)
(***************************************************************************)
Restart ==
  /\ crashes < MaxCrashes
  /\ crashes' = crashes + 1
  /\ job' = None
  /\ stoppable' = FALSE
  /\ moveMu' = NoReq
  /\ moveActive' = FALSE
  /\ stored' = IF unsaved = None THEN stored ELSE None
  /\ interrupted' = marker
  /\ unsaved' = None
  /\ scanPc' = [s \in Scans |-> IF scanPc[s] = "none" THEN "none" ELSE "done"]
  /\ rqPc' = [r \in Requests |-> "idle"]
  /\ saw' = [r \in Requests |-> None]
  /\ UNCHANGED <<marker, marked, cancelled, published>>

(***************************************************************************)
(* Specification.                                                           *)
(***************************************************************************)

Init ==
  /\ job = None /\ stoppable = FALSE
  /\ moveMu = NoReq /\ moveActive = FALSE
  /\ stored = None /\ interrupted = None
  /\ marker = None /\ unsaved = None /\ marked = {}
  /\ scanPc = [s \in Scans |-> "none"] /\ cancelled = {} /\ published = {}
  /\ rqPc = [r \in Requests |-> "idle"]
  /\ saw = [r \in Requests |-> None]
  /\ crashes = 0

ScanWork(s) == WriteMarker(s) \/ RewriteMarker(s) \/ Publish(s) \/ LeaveRun(s)
               \/ SaveScan(s) \/ ClearMarker(s) \/ ReleaseJob(s)

RequestWork(r) == RefuseDest(r) \/ TryLock(r) \/ BeginMove(r) \/ Vet(r) \/ AbortMove(r)
                  \/ MoveFiles(r) \/ SaveMove(r) \/ EndMove(r) \/ Unlock(r) \/ SaveRefs(r)

Next ==
  \/ \E s \in Scans : StartScan(s) \/ ScanWork(s)
  \/ \E r \in Requests : CheapCheck(r) \/ SetRefs(r) \/ RequestWork(r)
  \/ Cancel
  \/ Restart

Spec == Init /\ [][Next]_vars

\* Goroutines run on; users and crashes are free to come or not.  That a scan
\* ends its passes and a batch its files is fair because the walk is finite and
\* so is every wait for File Station, short of a task it never ends.
FairSpec == /\ Spec
            /\ \A s \in Scans : WF_vars(ScanWork(s))
            /\ \A r \in Requests : WF_vars(RequestWork(r))

(***************************************************************************)
(* Properties.                                                              *)
(***************************************************************************)

\* The one type invariant: every slot, lock and marker names something that
\* may stand there.
TypeOK ==
  /\ {job, stored, interrupted, marker, unsaved} \subseteq Scans \cup {None}
  /\ moveMu \in Requests \cup {NoReq}
  /\ moveActive \in BOOLEAN /\ stoppable \in BOOLEAN
  /\ scanPc \in [Scans -> {"none", "start", "run", "ending", "clear", "release", "done"}]
  /\ cancelled \subseteq Scans /\ published \subseteq Scans /\ marked \subseteq Scans
  /\ rqPc \in [Requests -> {"idle", "dest", "locked", "vet", "move", "save", "end",
                            "unlock", "saverefs"}]
  /\ saw \in [Requests -> Scans \cup {None}]
  /\ crashes \in 0..MaxCrashes

ScanAtWork(s) == scanPc[s] \in {"start", "run", "ending", "clear", "release"}
MoveAtWork(r) == rqPc[r] \in {"vet", "move", "save", "end"}

AtWork == {s \in Scans : ScanAtWork(s)} \cup {r \in Requests : MoveAtWork(r)}

Exclusion == INSTANCE TreeExclusion WITH Workers <- Scans \cup Requests, using <- AtWork

\* Scans and moves never overlap in either direction, nor do two of either:
\* moveMu, moveActive and the job slot implement the one-user promise.
OneUserOfTheTree == Exclusion!Spec

\* What a batch was vetted against is still the stored result while its files
\* move and until it has pruned and saved (handleMove, newMoveVet, publish).
VettedResultsStand ==
  \A r \in Requests : rqPc[r] \in {"move", "save"} => saw[r] = stored

\* A scan in flight keeps its own marker on disk: no other scan's ending
\* deletes or replaces it (the order of the deferred function of runScan).
MarkerStaysForItsScan ==
  \A s \in Scans : scanPc[s] \in {"run", "ending", "clear"} /\ s \in marked => marker = s

\* No scan and no batch holds the tree for ever, whatever refusals, stops and
\* restarts come in between.
TreeIsReleased == []<>(AtWork = {} /\ ~Running /\ ~moveActive)

\* A restart that loses a scan's results says so (the deferred function of
\* runScan): "a restart then reports the scan as interrupted and offers to run
\* it again, instead of silently serving the previous state".
LossIsReported ==
  [][crashes' # crashes /\ unsaved \in marked => interrupted' # None]_vars
=============================================================================
