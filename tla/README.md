# Duplicate Finder: a TLA+ verification of its daemon

This directory models the Go daemon of Duplicate Finder (`server/`): the part
that scans a tree, keeps the results, and moves files away through DSM's File
Station under one promise above all, that a copy of every duplicate group stays
where it was. The models are translated from the source; paths below are
relative to the repository. `PROJECT.json` maps every definition to its lines.

## 1. Inventory

### Components

| Part | Source | State it keeps | Operations |
|---|---|---|---|
| Admission | `server/daemon.go`, `handlers.go`, `scan.go`, `move.go` | `Server.job`, `moveMu`, `moveActive`, `interrupted`, the marker file | admit a scan, cancel it, end it; admit, refuse, end a move; set the reference folders; restart |
| Keep-one | `server/move.go` | none (a pure decision) | `keepOneDropsWhy`, `groupExistence`, `checkStaying` |
| Move batch | `server/move.go`, `moveout.go` | `results`, `keepers`, `moveOut` | vet, move one file, prune, record |
| Transfer | `server/fsapi.go`, `transit.go` | staging folders and task ids at File Station | `copyMoveTask`, `findCopyMoveTask`, `moveViaFS`, `claimFromStaging`, `transitViaFS`, `retireOriginal` |
| Persistence | `server/persist.go`, `journal.go`, `records.go` | `results.json.gz`, the record file, the move journal, the marker | save, load, replay, acknowledge |
| Walk and candidates | `server/walk.go`, `stream.go` | spill files, key counters, bounded heaps | enumerate, count, distil, window |
| Duplicates pipeline | `server/duplicates.go`, `hashing.go` | windows, group heap | prefix hash, full hash, group, cap |
| Hash store | `server/hashcache.go` | `hashcache.bin`, a generation | look up, record, trim, resume |
| Empty folders, flat tools | `server/emptyfolders.go`, `tempfiles.go` | one frame per open directory | visit, confirm |
| Conflicting files | `server/corrupt.go`, `internal/media` | verdicts | judge a set |
| Results | `server/results.go`, `export.go` | derived views | page, sort, filter, export |
| Move report | `server/movereport.go` | the last report | publish, poll |
| Gateway | `server/cgi.go`, `spk/ui/api.cgi` | none | proxy, authenticate |
| Paths, mounts, names | `server/paths.go`, `selfmount.go`, `bytesafe.go` | none | canonicalise, escape |
| Desktop app, packaging, mock | `spk/`, `spksrc/`, `server/dev.go` | | |

### How they interact

HTTP handlers run concurrently, each on a goroutine. `Server.mu` guards the
in-memory state and is dropped before any disk or File Station call, so every
operation is a chain of short critical sections with the world in between. One
scan runs on a goroutine of its own and publishes results under `mu`. One move
batch runs at a time under `moveMu`, with the flag `moveActive` telling scans
about it; it reads a snapshot of the results, acts through File Station for
minutes, then prunes the results and adds to the record of moved copies.
`saveState` is called by scans, batches and settings alike. The user's own work
on the tree, and File Station finishing a task whose answer was lost, go on
beside all of this.

### What is hard, and what makes each part correct

- *Admission*: a scan and a batch, or two of either, must never overlap, at any
  point where `mu` is dropped; a batch must find at its prune what it was vetted
  against; a scan's marker must survive until that scan ends; every refusal and
  panic must give the tree back.
- *Keep-one*: over every combination of selected, protected, missing, moved and
  damaged copies something must stay, and nothing may be refused for no reason.
- *Move batch*: the promise must hold over many batches, across tools whose rows
  overlap, with rescans between them that list moved copies beside originals,
  with files parked, kept twice or unsettled, and with a user who renames things.
- *Transfer*: answers that are lost or mislead, name collisions with another
  writer, an original saved while it is copied. The file must be somewhere at
  every moment, be deleted only for a copy read back as good, and what the user
  is told must fit where it is.
- *Persistence*: a crash between any two writes; savers overlapping. What landed
  must be known again, and rows of what left must not return.
- *Walk, duplicates pipeline*: every structure is bounded (a counter that
  degrades, windows, a ladder of splits, a heap, a cap). No pair of equal files
  may fall between the bounds, none may be counted twice, and the report of what
  was left out must be exact, while files change under the scan.
- *Hash store*: a hash served must have been read by the scan it serves, across
  crashes, resumes and failed writes; the evidence of rot that a scan overwrites
  must reach its judgement.
- *Conflicting files*: only positive evidence convicts; a file edited or saved
  under the scan is not rot; copies of the same bytes share a verdict.

`PROJECT.json` lists the hazards line by line, those no property covers included.

## 2. Modules

| Module | Models | Extended or checked by |
|---|---|---|
| `TreeExclusion` | the abstract promise: one user of the tree at a time | implemented by `Admission` |
| `Admission` | locks, flags, marker, save, cancel, restart | `MCAdmission`, `AdmissionProofs` |
| `KeepOne` | `keepOneDropsWhy` as pure operators | `KeepOneCases`, `KeepOneRules`, `MoveBatch` |
| `KeepOneCases` | every input of the decision, reached one fact at a time | `MCKeepOne`, `KeepOneProofs` |
| `KeepOneRules` | lemmas: what the decision guarantees over any group | `KeepOneProofs`, `MoveBatchProofs` |
| `MoveBatch` | `handleMove` over the stored results, with scans, the user and late answers | `MCMoveBatch`, `MoveBatchProofs` |
| `MoveRecords` | the journal, the records and results files, their savers, crash, load and replay | `MCMoveRecords`, `MoveRecordsProofs` |
| `FileMove` | the abstract promise of moving one file: somewhere, and told so | implemented by `Transfer` |
| `Transfer` | the task protocol, the staging folder, the verified copy and the retirement of its original | `MCTransfer`, `TransferProofs` |
| `Duplicates` | key counter, windows, ladder, group heap and listing of the duplicates pass | `MCDuplicates`, `DuplicatesProofs` |
| `HashStore` | the operations of the store of hashes, as pure operators | `Verdicts`, `Conflicts` |
| `Verdicts` | the ladder that judges one set of conflicting files, as pure operators | `Conflicts` |
| `Conflicts` | scans one after another over the same files and one store | `MCConflicts`, `ConflictsProofs` |

**Admission.** `job`, `moveMu`, `moveActive` and `interrupted` are the fields of
`Server`. Each goroutine has a program counter (`scanPc`, `rqPc`) and each
action is one critical section, one lock operation or one disk write, so TLC and
the proofs see every interleaving the locks allow. `CheapCheck`, `TryLock` and
`BeginMove` are the three guards of `handleMove`; `AbortMove` stands for every
refusal after the claim and for panics, whose deferred functions are
`EndMove` and `Unlock`. `WriteMarker` and `RewriteMarker` are the two writes of
the marker, each of which may fail, `Publish` one pass's result, `SaveScan`,
`ClearMarker` and `ReleaseJob` the deferred function in its order, with the
early return of a failed save. `unsaved` and `marked` are history: the scan
whose results are in memory only and the scans whose marker was written.

**KeepOne.** One group and one vetting: the listed paths, those requested, in a
reference folder, existing, moved by this app, and sound. `AnyOriginal`,
`Counts`, `Survivors`, `Tiers` and `Held` follow the function. The six tiers are
its four with the sound ones put first, which is what its last loop does. When
nothing is read (no verification) every copy is taken for sound, and the tiers
collapse to the four.

**MoveBatch.** A file is an id (inode, size and time: what rows compare), and
`damaged` holds those whose content changed under it. `group` is the stored
duplicates result, `flat` the Temporary Files result, and `outPaths`, `outData`,
`outFrom` the three kinds of entry in `moveOut`. `Vet` is `newMoveVet`,
including File Station not answering; `CheckStaying` the pass that reads the
copies that stay. Each file then takes one of the outcomes of `moveOne`:
`Refuse`, `Move`, `KeepBoth`, `Park` or `LeaveUnsettled`. `Finish` records and
prunes. `LandLate` and `FailLate` are File Station after a lost answer; `Delete`,
`Rename`, `Damage` and `Unpark` are the user and the disk. The history variables
`origs`, `soundOrigs`, `open`, `touched` and `appMoved` serve the properties only.

**MoveRecords.** `where` is the truth, the spots each file stands at (home, a
hidden staging folder, the destination), and `asked` what File Station has been
asked for and not ended; both go on when the daemon is down. Against them stand
memory (`out`, `rows`), disk (`recs`, `prev`, `results`) and the `journal`, of
which the first `synced` lines are sure to survive. A file goes straight to the
destination, through a staging folder, or as a copy through one (`Routes`);
`Announce` is the `ahead` or `staging` line before each hop, `Ask` the call,
`FinishHop` and `FailHop` its end at File Station, `Arrive`, `Fail` and
`Unsettle` what the daemon learns of it, `Done` the outcome line with the
batch's own bookkeeping. `AddRecords` to `Close` are the end of `handleMove` one
step at a time. A saver is a process: a snapshot under `mu` (`Snapshot`), then
`WritePrevious`, `WriteRecords` and `WriteResults` under `persistMu`, each of
which may fail. `Crash` keeps any prefix of the journal that holds the synced
lines; `Load`, `Replay` and `Boot` are the start of the daemon, with one of the
two files damaged or none, and may themselves be cut short by a second crash.

**FileMove, Transfer.** `tree` is what stands at each place: the source, the
hidden name an original is renamed to before its deletion, the staging folder and
the destination under each of its names. `tasks` are File Station's, which run
beside the daemon and go on after it has given them up. The daemon is one thread
of calls; `pc` is its next call, and each action is one call with every way it can
end: answered, answered with an error (`refused`), not answered although it ran
or not (`lost`), or answered about the status with an error that is not the
task's (`misled`). `Start`, `FindTask` and `Poll` are `copyMoveTask`; `Probe` to
`Clear` are `moveViaFS`; `Claim` to `Again` are `claimFromStaging`; `VerifyMoved`
is the check after a plain move; `Copy` to `Wipe` are `transitViaFS` and
`discardCopy`; `Retire` to `Back` are `retireOriginal` and its undoing.
`OtherWriter` takes names at the destination and `Edit` saves the file.
`FileMove` says what all this promises: copies are carried, never the last one,
and each outcome fits where the file is. The weaker outcomes lean on what File
Station answered, so they hold up to a number of answers (`doubt`) that never
came or misled: "both" and "stranded" survive one such answer, "parked" and
"failed" none.

**Duplicates.** A content is a size, a prefix hash and a full hash; a file is its
place in the walk. The nested loops of `duplicates.go` are a stack of tasks
(`work`), the innermost on top: `Walk` fills the counter (`Count`, `Degrade`,
`Hot`) and the spill, `Window` takes one partition of the candidate keys, `Skew`,
`Prefix`, `Deep`, `Bucket` and `Slice` are the rungs a key too big for a window
goes down, `Compare` and `Hash` the two passes of `dupWindow`, `Add` the bounded
heap `groupTop`, `Final` the capped listing. Between any two of them a file may be
rewritten at its size (`Rewrite`) or become unreadable (`Break`). `cache` is the
store as one scan sees it.

**HashStore, Verdicts, Conflicts.** `HashStore` has the operations of the store on
records: `Load`, `LoadResume`, `Hit`, `Displaced` and `Record` with the bounded
evidence set, `Prior`, `Saved`. `Verdicts` is `judgeSet` rung by rung: a failed
read (`Unread`), the file's own checksums (`OwnChecks`), its past under the same
time (`PastStep` for one changed file, `Past` for all of them in path order), the
shape of the difference of two contents (`Present`), and what is left (`Rest`). Each
family, the files of one size and time (`Kin`), is judged by itself. `Conflicts` puts
both to work in scans one after another. Its
actions are cut where the code waits for the disk: the walk (`Start`), the opening
of the store and the marker (`Open`), prefixes and hashes of the duplicates pass,
prefixes and hashes of the conflicts pass, `Judge`, `SaveStore`, `Publish`; `Stop`
and `Crash` end a scan between any two of them, and a crashed one may be resumed
at its generation. Meanwhile `Rot`, `QuietEdit` (an edit that puts the time back),
`Restore` (`cp -p` from a twin), `Save`/`SaveEnds` (half written in between) and
`Break` happen to the files. A repair that keeps the time looks to the past like
rot; `SoundNotConvicted` excuses that (`restored` names the files) and nothing else.
`base` is the tree as a scan that nothing disturbed read and saved it, and `past` what
happened since: they are what `RotConvicted` compares the next scan's verdicts with.

## 3. Runs

| Run | Shows | Bounds | States |
|---|---|---|---|
| `admission` | `OneUserOfTheTree` (the refinement), `VettedResultsStand`, `MarkerStaysForItsScan`, `TreeIsReleased`, `TypeOK` | 2 scans, 2 requests, 1 restart | 50 k |
| `keepone` | `OriginalStays`, `CopyStays`, `HeldOnlyWhenNeeded` | groups of 0 to 3 rows over 3 paths, all 2^15 situations each | 1.3 M |
| `keepone_damaged` | finding: a damaged original can outlive a good moved copy | same | |
| `movebatch` | `OriginalStays`, `SoundOriginalStays`, `NoPhantomRow`, `MovedCopiesKnown`, `TypeOK` | 2 batches, 3 scans, 1 act of the user, 1 lost answer, at most 4 events besides the batches | 1.6 M |
| `movebatch_unsettled` | finding: an unsettled source counts as a copy that stays | 2 batches, 1 scan, 1 lost answer | |
| `moverecords` | `LandedRecovered`, `LandedKnown`, `NoRowReturns`, `StillMeansStill`, `TypeOK` | 2 requested files (one batch of two or two of one), 2 crashes, 1 setting saved meanwhile, 1 failed write, at most 2 of these mishaps in all | 1.3 M |
| `moverecords_dropped` | finding: a batch with nothing to save removes the journal of one whose save failed | 2 requested files, 1 failed write | |
| `moverecords_overtaken` | finding: a setting's save puts older records over a batch's | 2 requested files, 1 setting | |
| `transfer` | `KeepsPromise` (the refinement), `ContentSurvives`, `EditSurvives`, `DeletedForCopy`, `FailedUnstagedMeansStill`, `LandedRecorded`, `Ends`, `TypeOK` | 1 file, 2 tries at a name, 2 answers lost, 1 call refused, 1 misled, 2 names taken by others, 1 edit | 0.4 M |
| `duplicates` | `OneGroupEach`, `NothingLost`, `CountedOnce`, `BestListed`, `Ends`, `TypeOK` | 6 files over 5 contents, every bound of the code at 1 to 3, 1 file rewritten or broken | 0.1 M |
| `conflicts` | `LiveEntriesAreOwn`, `NoConflictHidden`, `HistoryTrue`, `RotConvicted`, `SoundNotConvicted`, `TwinsConvicted`, `TypeOK` | 3 files, 2 scans, 2 events, 1 crash, 1 failed write, 2 of them in all, evidence set of 1 | 1.2 M |
| `conflicts_twin` | finding: history copied onto a twin | same | |

**Why the bounds are enough.** An overlap needs two parties and a third that
follows one of them: two scans (the second finds what the first left) and two
requests do. The decision of keep-one has no more than three roles in a group (the
copy that stays, the one held back, one that misleads), and the theorems lift the
bound. In `MoveBatch` two original places, two landing places and two batches with
a scan before, between and after them reach every chain that matters: a group
dissolved by one batch and drained by another through another tool, a moved copy
paired with its original by a rescan, a late landing between batches. The run is
symmetric in the files of the start and has no reference folder; the theorems of
`MoveBatchProofs` hold for any places, folders and counts.

In `MoveRecords` one failed write and two crashes are what it takes to leave a
journal behind, to restart over it, and to die again before its replay is saved;
two requested files give a batch that stops between its files and a batch that
appends to the journal of another. `MaxMishaps` is the number of crashes, failed
writes and settings together: no chain above needs more than two, and three take
the space past what a run can afford. `lapses` records the two ways in which the
disk falls behind memory, which are the findings `moverecords_dropped` and
`moverecords_overtaken`; the three properties about recovery speak of the
behaviours without them. They are not void there: every crash, damage, failed
save and concurrent save that keeps its order is in such a behaviour.

In `Transfer` two lost answers are what a wrong restoration takes (the rename and
the look after it), one refused call sends each route to its fallback, two names
taken make the claim loop go round until `nameClaimTries` (2 here, 25 in the
code) ends it. In `Duplicates` every limit is so small that six files cross all of
them: the counter degrades at its second key, two keys share both slots of the
table, a key has more files than a window, a prefix more than the cap, a partition
of contents more than a window, the heap is full at its third group, the listing
is cut. In `Conflicts` two scans are an earlier and a later, or a dead one and the
one that resumes it; the third file is the one that draws a verdict on the other
two, or takes the only slot of the evidence set.

**What the properties of `MoveBatch` leave to the user.** A promise about the
originals of a published group is void once the user deletes, renames or damages
one of those, or puts a file at a place the group lists (`Meddle`); no scan or row
is blamed for a place in `touched`. `OriginalStays` and `SoundOriginalStays` speak
until a batch decides after one that left an outcome open, or decides `Blind`: with
no answer from File Station over rows that no longer stand. What happens then is
the finding of `movebatch_unsettled` and the disagreement of `MCMoveBatchUnanswered`
below. Moved copies are known by data anywhere except where some move took a file
from (`outFrom`), the rule of `moveOutSet.isOut` by which a file put back is an
original again.

Deadlock is checked in the `keepone` runs. The other models stop when their
counters run out or the request has ended, as a daemon nobody asks anything of
does.

**Fairness.** `FairSpec` in `Admission` assumes weak fairness of each scan
goroutine and each request goroutine, nothing of users, cancels and restarts. The
Go scheduler runs every ready goroutine; the walk, the candidate list and the
request are finite; so is every wait for File Station, short of a task it never
ends, which the liveness property does not speak about. `Publish` and
`RewriteMarker` may be repeated, but a repetition changes nothing and so does not
count as progress. `Transfer` assumes weak fairness of the daemon's calls and of
File Station as a whole: each call ends (the HTTP client has a timeout, which is
`Silent`), and File Station gets on with the tasks it has. Other writers and edits
are not fair. `Ends` says that the poll, which has no deadline, is not what keeps a
request open. `Duplicates` assumes weak fairness of the scan's one goroutine.

**Configurations run by hand.** Disagreements met while modelling that the runs
above do not repeat; TLC finds each property violated by what the code does.

| Configuration | Property | What the code does, and what is said |
|---|---|---|
| `MCAdmissionLoss` | `LossIsReported` | the marker kept by a failed save (`scan.go:290`) is overwritten by the next scan and cleared when that one ends, also when it saved nothing |
| `MCMoveBatchUnanswered` | `LastCopyHeld` | without an answer about existence the last listed path is held back; if it is the one that is gone, the other moves (`move.go:1162-1164`: it "fails in the safe direction"). Likewise a moved copy that is gone cannot be told for one, so its row is held back in place of the last original |
| `MCMoveRecordsAhead` | `AheadMeansThere` | the `ahead` line of a staged file replaces the staging folder in the report of a batch cut short, while the file may be in that folder still |
| `MCTransferStaged` | `FailedMeansStill` | a hop into the staging folder whose answer is lost, with the entry not there yet, is told as a plain failure (`fsapi.go:844`); the task may still take the file (`fsapi.go:799-806`) |
| `MCTransferCopied` | `CopiesRecorded` | a plain move to another filesystem that fails after its copy leaves the copy at the destination unrecorded (`fsapi.go:809`; `move.go:215-218`) |
| `MCDuplicatesRanked` | `RankedByWhole` | a group cut by its tag (`duplicates.go:205`) notes the rest as skipped and is ranked by its truncated length (`stream.go:619-622` says it is not) |
| `MCConflictsSaved` | `UntouchedStaysSound` | a sound file can be convicted for what its sibling looked like half written (`corrupt.go:742-771`; comment 722-725) |
| `MCConflictsCompleted` | `CompletedNotResumed` | a scan that published and could not save keeps its marker (`scan.go:286-299`) and can be resumed into after a restart (`hashcache.go:190-192` says it cannot) |

## 4. Findings

1. *A damaged original kept* (`keepone_damaged`). A requested original makes
   moved copies not count without being read, so that a damaged one held back
   lets the good copy go.
2. *An unsettled source* (`movebatch_unsettled`). Its landing place is recorded
   as this app's, but its row remains a copy that stays for the next batch.
3. *A dropped journal* (`moverecords_dropped`). `saved` is set before it is
   known whether there is anything to save. A batch that moves nothing, started
   after one whose save failed, removes the journal which alone holds, on disk,
   what that one moved.
4. *An old snapshot written last* (`moverecords_overtaken`). `saveState` reads
   under `mu` and writes under `persistMu`, and nothing orders the writes as the
   snapshots were ordered: a change of settings or an acknowledgement beside a
   batch can leave older records and rows on disk, after the journal is gone.
5. *A twin's history* (`conflicts_twin`). A file repaired from its twin with the
   twin's time has changed under its time; the verdict about that is copied, history
   included, to the twin, which never changed.

## 5. Proofs

**Admission.** `AdmissionProofs` proves, for any number of requests, scans and
restarts, `TypeCorrect`, `VettingStands`, `MarkerStays` and `OneUser`. The
inductive invariant `AdmissionInv` joins the two checked invariants and `TypeOK`
with two strengthenings they need:

- `Holders`: a scan is at work exactly when it has the job slot; a request
  holds `moveMu` exactly from its `TryLock` to its `Unlock`; `moveActive` is up
  exactly while a request is between claim and release; slot and claim exclude
  each other. Without it no state says that the step `Publish` finds no batch
  between vetting and save.
- `Unmarked`: a scan that has not reached `WriteMarker` has no marker. Without
  it a new scan's first step could find itself `marked` by nobody.

`OneUser` is a refinement: `FlagsDown` (both flags down means nobody at work)
makes `StartScan` and `BeginMove` steps of `TreeExclusion!Begin`; `EndMove`,
`ReleaseJob` and the early return of `SaveScan` are `End`; the rest leaves the
set of workers alone. The proofs rest on the constants' assumptions only:
requests are neither scans nor the free-lock value, and the bounds are naturals.

**Keep-one.** `KeepOneRules` proves what the decision guarantees for groups of any
length over any paths. The lemmas follow the code: a finite sequence has a greatest
index in a tier (`GreatestIndex`, `LastListedIn`), the first non-empty tier is the
one chosen (`BestTierIs`), hence what is held is a requested, counting path of the
best kind (`HeldIs`), hence an intact original never leaves without another
staying (`KeepsOriginalAlways`), with no answer either (`KeepsOriginalUnanswered`).
`KeepOneProofs` puts them to the state machine of `KeepOneCases`, which only
produces well-formed vettings (`ListedAlways`).

**Move batches.** `MoveBatchProofs` proves the type invariant and the four safety
invariants of `MoveBatch`, for any finite listing, any reference folders and
scopes, and any number of scans, batches, acts of the user and lost answers:
`BatchTypes`, `OriginalNeverLost`, `SoundOriginalNeverLost`, `RowsAlwaysStand` and
`MovedCopiesAlwaysKnown`. None of the four is inductive. `BatchInv` adds

- `Sides`: outside a batch nothing is landed or emptied; every moved copy is in
  the record or about to join it; an open outcome is not followed by a check;
- `RowsStand`: `NoPhantomRow` in the middle of a batch, for the rows its prune will
  leave;
- `RowsTold`: while no outcome is open, a row of the published group is an
  original's exactly if the record does not tell it for a moved copy. This is the
  heart: it makes `isOut`, which the decision asks, mean what the promise is about,
  and it is why landing places must be free, prunes must follow every emptied
  place, and a copied file must be new;
- `AnswerHolds`: File Station's answer stays one about the rows until the copies
  that stay have been read;
- `OneKept`, `OneSoundKept`: not just that some original is there, but that one is
  which no move under way takes, which the batch under way leaves, and whose row or
  keeper is left for the next vetting.

`VetRows`, `AnsweredKeeps` and `UnansweredKeeps` carry the lemmas of `KeepOneRules`
over to the rows; `DecisionKeeps` joins them with `RowsTold`; then one step lemma
per conjunct, one case per action. The assumptions are those `MoveBatch` names:
destinations and reference folders are disjoint places, scopes are sets of places,
and the absence of a file is not a file.

**What a batch writes down.** `MoveRecordsProofs` proves the type invariant and the
four safety invariants of `MoveRecords` for any number of files, hops, settings,
failed writes and crashes: `RecordsTyped`, `LandedAlwaysRecovered`,
`LandedAlwaysKnown`, `RowsNeverReturn` and `StillIsStill`. The only assumption is
that the absence of a file in hand is not a file. None of the four is inductive;
`RecordsInv` says why they hold:

- `Control` and `Lines`: which phase goes with which file in hand and which saver,
  and that the last line of the journal is the one before the hop under way, flushed
  while File Station may be at it.
- `Landings`: a line *covers* a file when a replay would record it (`Covers`): an
  outcome that says so, or an `ahead` or `placed` line no outcome has settled. An
  outcome settles only the entry it ends, so a covering line with a `start` or
  `begin` after it covers for good (`Barred`); this is why every file's entry opens
  with a line of its own. `NeedsSafe`: a file at a destination, or one a pending hop
  may still bring there, is in both files on disk (`DiskSafe`) or has a covering line
  that a later `begin` bars or that no batch can settle any more. The file in hand is
  excepted, for it the last line speaks (`InPlaceLine`). `NeedsKnown`: the memory has
  it too, or will when the batch adds its landings.
- `Memory` and `Saved`: the memory holds all that the files and the snapshots of
  savers hold; between the second and the third file the records on disk are the
  saver's own; what the batch or the start has saved is all of the memory. That is
  the fact `moveJournal.finish` leans on when it removes the journal.
- `Rows`: the row of a file that left is out of memory, or goes at the coming prune
  or replay; the results file has lost it, or a line of the journal prunes it again.
- `Tried`: what File Station was asked for has a flushed line in the batch's own part
  of the journal, with no later `start` of the same file.

The argument goes line by line: what `Append` leaves of what the lines say
(`CoveredAppended`, `PrunedAppended`, `AnnouncedAppended`), what a crash leaves
(`CoveredKept`, `PrunedKept`, `AnnouncedKept`), what a replay makes of it
(`Replayed`, `TellAnnounced`), that the journal of one batch owes nothing to an
earlier one (`OneBegin`, for a batch that removes the journal with nothing to save),
then one step lemma per conjunct. `Largest` is the one place that needs well-founded
induction. The `lapses` of findings 3 and 4 stand in the conclusions as they do in
the runs: without them the theorems say nothing, and the two findings are the proof
that nothing could be said.

**One file's way.** `TransferProofs` proves for any number of names, answers lost,
refusals, misleading errors, names taken by others and edits: `TransferTyped`,
`ContentKept`, `EditsKept`, `FailedStaysStill`, `LandingsRecorded`,
`OriginalsDeletedForCopies` (an action property) and `PromiseKept`, the refinement of
`FileMove`. `TriesAssumption` and `BoundsAssumption` say that the claim loop tries at
least once and that the bounds are naturals. The names the file may take are as many
as others may take and three more; `NamesLeft`, the guard of the steps that look for
a free one, names that bound.
`TransferInv` joins

- `Control`, `Polling`, `Requests`: which calls belong to which route and hop, that
  the task polled is the one asked for, and that File Station was asked for at most
  one straight move, then at most one task into staging, whose end every hop out of
  it presupposes. Without `Requests` an unheard task could take the source twice;
- `NamesTried` and `Landings`: the names below the one held are taken, only that one
  is staged, and what a task carried stands where it went;
- `Plain`: on a plain move the source is empty exactly if a task from it has ended
  well, and then a place of ours has the file;
- `Verified`: on a verified move the original stands until it is retired, and what
  stands at the destination by then is the whole of it, so that `Delete` never takes
  the last copy;
- `Settled`: a straight move told as a failure has no open task that could still take
  the source, unless File Station misled;
- `Named`, `Doubts`, `Heedful`: an outcome is told under the name it landed at; each
  call off the straight path presupposes an answer lost or wrong, the second branch
  of a restoration two of them; with no doubt at all, the task polled is the only one
  open.

`PromiseStep` maps each step to one of `FileMove`: `Carry` where a place changes
(`KindsHeld` names what is held where), `Tell` at the one step that tells an outcome
(`ToldOnce`), by one lemma per outcome (`ToldOfDestination`, `ToldGone`,
`ToldOfBoth`, `ToldStranded`, `ToldParked`, `ToldFailed`, `ToldUnsettled`), and a
stutter elsewhere.

**What the store serves and what convicts.** `ConflictsProofs` proves, for any finite
set of files, any initial contents and any number of scans, crashes and events:
`EvidenceIsTrue` without a condition, and `ConflictsTyped`, `ServedIsOwn`,
`ConflictsAreShown`, `TwinsAreConvicted`, `SoundIsNotConvicted` and `RotIsConvicted`
while at most one write has failed (`OneFailure`, a condition on the history, not on a
constant: the theorems speak of every behaviour up to its second failed write). The assumptions are that the files are finitely many and that
each starts with a content. `ConflictsInv` joins

- `Types`, `Control`: types; which phase has a store, prefixes and findings in hand;
  every scan named in a marker or in the line of a scan has been started;
- `Reads`: an entry, on disk or in memory, is what the file holds, or the file has
  since shown another time or changed under it, at or after the scan that read it
  (`EntryTrue`); the same of prefixes, against the time the walk saw; a flag or a
  displaced entry is of a file that no longer shows its walked time or is in
  `quiet`. Together with the last look at size and time that the judgement takes
  (`stands`), this is why evidence that counts is true;
- `Gens`: a generation belongs to one scan and the runs it continues. `Owned` says
  it of the disk for the marker, for the notice of the last start and for the scan
  under way, `Ordered` that no entry is of a later generation than its store;
- `Hashed`: after the conflicts pass the hash in hand of a file nobody touched is
  that of what it holds, which is what a hit of another scan's entry would break.

One failed write is the limit of the code's argument, not of the prover. If the
removal of the previous marker fails, and the write of the next one fails too, a
scan runs under the marker of an older run. A crash then lets a third scan resume
the older generation over entries of a later one, and the scan after that counts its
generation up to the one those entries have: it would be served what it never read.
With one failure each of these chains is cut; `WalkOwns` is where the count enters.

The first two theorems about verdicts rest on two lemmas about the ladder, for any family
of any size (`Judgeable`): `TwinsAlike`, that files read as equal whose contents and
times look the same share their verdicts, and `ConvictionsStand`, that every
conviction has `Grounds`: a failed read, damage by the file's own checksums while its
time stands, or a comparison with a file that is damaged, or whose evidence counts
and that is not wholly an edit (`Hurts`). Both are of one form, a property of the rows
that each judgement with twins keeps, and `RungsKeep` carries it up the ladder: the
first rungs give the rows (`FirstSays`), each changed file's comparison with its past
is one `PastStep` (`PastKeeps`, over the changed files in path order, with `Smallest`
and `JudgingExists` in place of an induction), `Present` is at most one judgement more,
and the last rung convicts nothing (`LastSays`). `InHand` ties the rows to the disk at
the judgement:

- `RowsTrue`: the rows are the judgement of what is in hand and of nothing older;
- `WalkStands`, `ReadsStand`, `ErrorsHold`: a file nobody touched stands at the time
  the walk saw and can be read if it was; an error in hand is still the disk's;
- `SavingAhead`: a file whose saving began under the scan shows a later time, which is
  why its half-written end convicts nothing by its own checksums;
- `RepairsKnown`: what changed under its time is damaged, an edit, or a repair. An edit
  of many bytes differs by no bit flip and no run of zeros (`ShapesTell`), so that only
  the repair is left for `SoundNotConvicted` to excuse.

`RotIsConvicted` follows evidence through two scans, and needs `Memory`
(`WhatIsRemembered`), which says where the base is at each point:

- `SinceBase`: a file without an event since the base holds what it held or shows
  another time and has no history; a file whose one event is rot differs from its base
  by that rot and by nothing else (`Eventful` gives what one event does);
- `StoreFresh`, `BaseOnDisk`: what an undisturbed scan has read is in its store when it
  judges, hence on disk when it has saved, and stays there until the next scan writes;
- `EvidenceLive`, `EvidenceKept`: from then on the store either still holds the base's
  entry of a file (`Old`), or has replaced it and remembers the base's content if it was
  another (`New`). That no evidence is dropped is a count (`AllFit`): what is displaced
  and what was displaced before are disjoint parts of `quiet`, which fits `ChangedMax`.
  That the base's entry is never taken for one of this scan's own is `ScanOwns`;
- `FlagsTrue`: so the flags in hand say exactly which of these files changed.

`RotAtHand` reads off that the rotten file is the only one of its family whose history
counts, and `RotJudged` takes such a set (`RotIn`) through the ladder, whatever the
number of its files: nothing is convicted before the past is looked at, the comparison
with the past is the only one (`RotFirst`), and a copy that still holds what was held
is called intact.

**No pair lost, no file twice.** `DuplicatesProofs` proves, for any trees over any
contents, any limits of the counter, the windows, the ladder and the groups, any
mixing function and any number of files rewritten or broken, `NoFileTwice`,
`NoPairLost`, the types with the bounds of memory (`DuplicatesTyped`), the exactness
of the report (`ReportExact`) and that of the heap (`HeapLosesNothing`). The
assumptions are that a full hash determines its content, that sizes and limits are
positive, and that tags are naturals. `DupInv` joins

- `Control`, `Types`: the walk is the only task while it lasts, over a tree at rest;
  once it is over, sizes do not change under it; the listing comes last;
- `Counted`: the counter, exact or degraded, never counts a key for less than one or
  two of it (`CountCounts`, with `DegradeCounts` for the step where the table takes
  over and `BumpCounts` for the slots that keys share);
- `OneTask`, `Fresh`, `Apart`: no two tasks on the stack have a file in common, and a
  task has none that is already in a group or noted as left out. `Has` says which
  files a task has in hand: those of its partition, its key, its tag or its set. This
  is what the comment at `duplicates.go:196-198` worries about: a partition taken
  twice would put a file in the hands of two tasks;
- `Answers`, `ReadRight`: the store's answer and the prefix read for a file nobody
  touched are those of what it holds, so that equal files get equal tags on every rung;
- `PairsKept`: two equal files that nobody touched are together in one task that will
  not part them (`Holds`), or one is noted as left out, or their group has been found.

Each operation puts a list of smaller tasks on the stack in place of the one on top;
`Down` says what such a list must do (share out what the task had, keep pairs
together or note one of them), and `DownKeeps` that the invariant then holds. One
lemma per operation shows its list to be such a one (`WindowDown`, `SkewDown`,
`PrefixDown`, `DeepDown`, `BucketDown`, `SliceDown`, `CompareDown`, `HashDown`,
`AddDown`); `Rungs`, `PartsList` and `Ladder` are what they have in common.
The heap has an invariant of its own over `DupInv` (`HeapInv`), of three parts.
`HeapFits` says that it never outgrows its limit: a full heap needs a worst group to
drop, which exists because groups that share no file have different places in the
listing (`GroupsOrdered`, `LowestOf`): `betterGroup` decides the last ties by a file of
each group. `Accounts` balances the books at every moment: groups kept and dropped are
the groups found, and the files of the groups kept with those counted as dropped are
the files of all groups and those noted. It holds because a file is noted once and
never after it was grouped (`Fresh`). `BestKept` says that while a group is out of the
heap, the heap is full of better ones. `Final` then sorts what is kept and cuts it at
the budget: `SortedLists` (there is one order, and it lists each group once),
`CutBefore` (the cut is right before the first group the budget has no room for) and
`StoredFloor` (more than `Limit` groups of two files each are more than the budget)
give both theorems.

Sums over sets, orders and lists of any length are not done by induction (the
library's theorems take an operator as a parameter) but by a smallest counterexample:
`Smallest` gives, for a property of the subsets of a finite set that fails, a subset
on which it fails and holds once any element is taken out. `FoldExists` shows so that
the function a sum of the community modules is the choice of does exist, `SumTakes`
that any element may be taken out of a sum first, and `SumSame`, `SumAdds`, `SumPart`,
`SumFloor` and `SumAlong` are what the heap's books need. `Duplicates` states its sums
with `SumFunction` and its order with `Sorted` (a choice, not a sorting operator) to
be in their reach.

**Only model-checked.** `FairSpec`'s `TreeIsReleased` and the two `Ends`, which are
liveness and so out of the prover's reach. Every invariant and every action property
that a passing run checks is stated by a theorem.

## 6. Not modelled, and abstractions to know of

- A scan of `MoveBatch` publishes one group, the sound copies in scope. The 64 KiB
  check before a move without verification is left out, which lets `MoveBatch`
  move more than the code would.
- Moved directories and the rows under them, and preserve mode's single entry
  for its batch folder, are one place and its entry here.
- Reference folders are a constant of `MoveBatch` (the list can change during a
  batch, a hazard listed as uncovered) and an input of `KeepOneCases`.
- The record of moved copies does not forget within a run of `MoveBatch`; its
  loss with a file or a crash is `MoveRecords`' subject.
- `MoveRecords` has no scan and no keepers: between batches rows only go and
  records only grow. An answer is lost only on the direct way. A damaged journal,
  two files damaged at once, a failed `Start` or `Begin` line (the file or the
  batch is refused) and a removed journal that comes back after a power loss are
  left out.
- `Transfer` moves one file. Folders, whose partial moves leave part of a tree on
  each side, and preserve mode's batch folder (`allocBatchFolder`) are left out; so
  is a second request, which `moveMu` excludes.
- `Duplicates` takes the walk as listing every regular file once: its filters,
  directory handles and self mounts are left out, as are hard links, sparse sizes,
  parallel hashing and the spill's file format.
- In `Conflicts` all of a judgement is one step; times are whole
  seconds; the store does not forget for lack of room (`saveTrim`); a crowded key's
  sampling, the cap on sets and skewed families are left out. One abstract format
  with checksums stands for the byte validators of `internal/media`, which have
  fuzzers beside them. With two failed marker writes over three runs, a dead run's
  entries of a later generation could become live again by a resume of an earlier
  one, so `LiveEntriesAreOwn` is checked and proved for one failed write (section 5).
- Empty folders (`emptyfolders.go`): the confirmation of a folder before its move
  leaves a window to File Station's own move that nothing closes; what could be
  checked of the frames is a fold over the walk.
- Result pages, export, derived views, the move report's pages: functions of the
  stored rows, cached; the gateway and path handling keep no state; the app's
  requests are those of the models in any order; packaging and the development
  mock are not the program.

## 7. Plan

Done, in this order because each is the ground of the next: admission, the
keep-one decision, batches over the stored results, what a batch writes down, one
file's way through File Station, the duplicates pass, the hash store and the
judgement of conflicting files; proofs of admission, keep-one, the batches, one
file's way with its refinement, what a batch writes down, the store's evidence and
the verdicts, and the way from the counter to the groups.

What would add most next: scans and keepers in `MoveRecords` (a journal kept over
results a later scan replaced); reference folders changing under a batch; the view
cache of `results.go`.
