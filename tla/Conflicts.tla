------------------------------ MODULE Conflicts ------------------------------
(***************************************************************************)
(* Content scans one after another over the same files (scan.go,           *)
(* hashcache.go, corrupt.go): each reads the files, keeps their hashes in  *)
(* the store, and judges the family of files whose size and modified time  *)
(* agree while their contents do not.  Between the scans and under them    *)
(* the disk rots, files are edited and saved, and the daemon dies; a dead  *)
(* scan may be resumed, which serves it what it had read.                  *)
(*                                                                         *)
(* The passes are cut where the code waits for the disk: the walk, the     *)
(* opening of the store, the prefixes and the full hashes of the           *)
(* duplicates pass, the prefixes and the full hashes of the conflicts      *)
(* pass, the judgement, and the saving of the store and of the results.    *)
(***************************************************************************)
EXTENDS Verdicts

CONSTANTS
  Trees,       \* initial trees: records [checks, cells], cells one content per file
  MaxEvents,   \* bound: what happens to the files
  MaxMishaps,  \* bound: events, crashes and failed writes together
  MaxRuns,     \* bound: scans
  MaxCrashes,  \* bound: deaths of the daemon
  MaxFailures  \* bound: failed writes of the store, the marker or the results

ASSUME ConflictsAssumption ==
  /\ \A t \in Trees : t.checks \in BOOLEAN /\ t.cells \in [Paths -> [1..2 -> Cell]]
  /\ {MaxEvents, MaxMishaps, MaxRuns, MaxCrashes, MaxFailures} \subseteq Nat

VARIABLES
  checks,    \* whether the files' format carries checksums
  content,   \* what each file holds
  mod,       \* its modified time
  broken,    \* the error a read of it gives, or "ok"
  saving,    \* the files that are being saved in place
  disk,      \* the store's file
  marker,    \* scan.interrupted
  notice,    \* s.interrupted: the marker the daemon found when it started
  phase,     \* where the scan is, or "idle"
  adopt,     \* resumeGen
  seen,      \* the modified times the walk saw
  store,     \* the store in memory
  pfx,       \* the prefixes the pass has read, NoHash for an unread one
  info,      \* corruptFile.hash, readErr, contentChanged and priorHash
  rows,      \* the verdicts of the last scan that published
  runs,      \* history: scans started
  line,      \* history: this scan and the runs it continues
  last,      \* history: per file, the scan under or after which it last changed
  quiet,     \* history: files whose content changed under their present time
  restored,  \* history: those of them that took another file's content
  base,      \* history: the tree and its times, as a scan that nothing disturbed saved them
  past,      \* history: what happened since base
  done,      \* history: the scans that published
  used       \* events, crashes and failed writes so far

files == <<checks, content, mod, broken, saving, last, quiet, restored, past>>
state == <<disk, marker, notice>>
scan == <<phase, adopt, seen, store, pfx, info, rows, runs, line, base, done>>
vars == <<files, state, scan, used>>

NoMarker == [gen |-> 0, runs |-> {}]
Blanks == [f \in Paths |-> NoHash]
NoInfo == [hash |-> Blanks, err |-> [f \in Paths |-> "ok"],
           flag |-> [f \in Paths |-> FALSE], prior |-> Blanks]
NoBase == [run |-> 0, content |-> Blanks, mod |-> [f \in Paths |-> 0]]

Init ==
  /\ \E t \in Trees : checks = t.checks /\ content = t.cells
  /\ mod = [f \in Paths |-> 1] /\ broken = [f \in Paths |-> "ok"] /\ saving = {}
  /\ disk = EmptyDisk /\ marker = NoMarker /\ notice = NoMarker
  /\ phase = "idle" /\ adopt = 0 /\ seen = mod /\ store = Closed
  /\ pfx = Blanks /\ info = NoInfo /\ rows = <<>>
  /\ runs = 0 /\ line = {} /\ last = [f \in Paths |-> 0]
  /\ quiet = {} /\ restored = {}
  /\ base = NoBase /\ past = {} /\ done = {}
  /\ used = [events |-> 0, crashes |-> 0, failures |-> 0]

Spend(what, max) ==
  /\ used[what] < max /\ used.events + used.crashes + used.failures < MaxMishaps
  /\ used' = [used EXCEPT ![what] = @ + 1]
Fails == Spend("failures", MaxFailures)

-----------------------------------------------------------------------------
(* What happens to the files.                                              *)

\* An event matters after the first scan has begun, and when a scan sees it:
\* from the judgement on a scan reads no file.
Happens(f, what) ==
  /\ Spend("events", MaxEvents)
  /\ runs > 0 /\ phase \notin {"judged", "saved"} /\ (phase = "idle" => runs < MaxRuns)
  /\ last' = [last EXCEPT ![f] = runs]
  /\ past' = past \cup {[f |-> f, what |-> what]}
  /\ UNCHANGED <<checks, state, scan>>

Quietly(f, c, what) ==
  /\ Happens(f, what)
  /\ f \notin saving /\ c # content[f]
  /\ content' = [content EXCEPT ![f] = c]
  /\ quiet' = quiet \cup {f}
  /\ UNCHANGED <<mod, broken, saving>>

Rot ==
  \E f \in Paths, i \in 1..2, kind \in {"flip", "zero"} :
    /\ content[f][i].kind = "data" /\ UNCHANGED restored
    /\ Quietly(f, [content[f] EXCEPT ![i] = [kind |-> kind, of |-> IF kind = "flip" THEN f ELSE 0]], kind)

\* An edit by a tool that puts the modified time back.
QuietEdit ==
  \E f \in Paths :
    Quietly(f, [i \in 1..2 |-> [kind |-> "edit", of |-> f]], "edit") /\ UNCHANGED restored

\* cp -p over a damaged copy.
Restore ==
  \E f, g \in Paths :
    broken[g] = "ok" /\ Quietly(f, content[g], "restore") /\ restored' = restored \cup {f}

\* A file is saved in place: for a while its end is not written yet.
Save ==
  \E f \in Paths :
    /\ Happens(f, "save")
    /\ f \notin saving
    /\ content' = [content EXCEPT ![f] = <<[kind |-> "edit", of |-> f], [kind |-> "zero", of |-> 0]>>]
    /\ mod' = [mod EXCEPT ![f] = @ + 1]
    /\ saving' = saving \cup {f}
    /\ quiet' = quiet \ {f} /\ restored' = restored \ {f}
    /\ UNCHANGED broken

SaveEnds ==
  \E f \in saving :
    /\ phase \notin {"judged", "saved"}
    /\ content' = [content EXCEPT ![f] = [i \in 1..2 |-> [kind |-> "edit", of |-> f]]]
    /\ mod' = [mod EXCEPT ![f] = @ + 1]
    /\ saving' = saving \ {f}
    /\ quiet' = quiet \ {f} /\ restored' = restored \ {f}
    /\ last' = [last EXCEPT ![f] = runs]
    /\ UNCHANGED <<checks, broken, past, state, scan, used>>

\* A sector dies, or the right to read is withdrawn.
Break ==
  \E f \in Paths, e \in {"eio", "denied"} :
    /\ Happens(f, "break")
    /\ broken[f] = "ok"
    /\ broken' = [broken EXCEPT ![f] = e]
    /\ UNCHANGED <<content, mod, saving, quiet, restored>>

Disturb == Rot \/ QuietEdit \/ Restore \/ Save \/ SaveEnds \/ Break

-----------------------------------------------------------------------------
(* The scan.                                                               *)

Nothing == pfx' = Blanks /\ info' = NoInfo

\* writeMarker: a failed write leaves the marker there was.
WriteMarker(m) == \/ marker' = m /\ UNCHANGED used
                  \/ Fails /\ UNCHANGED marker

\* handleScan and the walk of runScan.  A scan that matches the notice may
\* take up the generation of the run that died; the notice is gone either way.
Start ==
  \E resume \in BOOLEAN :
    /\ phase = "idle" /\ runs < MaxRuns /\ (resume => notice.gen # 0)
    /\ phase' = "walked"
    /\ adopt' = IF resume THEN notice.gen ELSE 0
    /\ runs' = runs + 1
    /\ line' = {runs + 1} \cup IF resume THEN notice.runs ELSE {}
    /\ notice' = NoMarker
    /\ WriteMarker(NoMarker)
    /\ seen' = mod
    /\ rows' = <<>>
    /\ UNCHANGED <<files, disk, store, pfx, info, base, done>>

\* scanContent: the store is opened, and the marker says at which generation.
Open ==
  /\ phase = "walked" /\ phase' = "open"
  /\ store' = LoadResume(disk, adopt)
  /\ WriteMarker([gen |-> store'.gen, runs |-> line])
  /\ UNCHANGED <<files, disk, notice, adopt, seen, pfx, info, rows, runs, line, base, done>>

PrefixesOf(S) == [f \in Paths |-> IF f \in S /\ broken[f] = "ok" THEN <<content[f][1]>> ELSE NoHash]

DupPrefix ==
  /\ phase = "open" /\ phase' = "prefixes"
  /\ pfx' = PrefixesOf(Paths)
  /\ UNCHANGED <<files, state, adopt, seen, store, info, rows, runs, line, base, done, used>>

Hits(S) == {f \in S : Hit(store, f, seen[f], pfx[f])}
FullReads(S) == {f \in S \ Hits(S) : broken[f] = "ok"}

\* save and saveMid: nothing is written when nothing was recorded.
Persist(c) ==
  \/ /\ disk' = IF \E f \in Paths : c.ents[f].scan = runs THEN Saved(c, disk) ELSE disk
     /\ UNCHANGED used
  \/ Fails /\ UNCHANGED disk

\* dupWindow, the full hashes of the files that share a prefix, and the
\* saveMid after the window.
DupHash ==
  /\ phase = "prefixes" /\ phase' = "grouped"
  /\ LET same == {f \in Paths : pfx[f] # NoHash /\ \E g \in Paths \ {f} : pfx[g] = pfx[f]}
         read == FullReads(same)
     IN  \E kept \in Fitting(store, Displaced(store, read, seen, pfx, content)) :
           /\ store' = Record(store, read, seen, pfx, content, runs, kept)
           /\ Persist(store')
  /\ pfx' = Blanks
  /\ UNCHANGED <<files, marker, notice, adopt, seen, info, rows, runs, line, base, done>>

\* The files of one size and modified time.
Family == {f \in Paths : \E g \in Paths \ {f} : seen[g] = seen[f]}

\* corruptWindow, phase A.
CorrPrefix ==
  /\ phase = "grouped" /\ phase' = "windowed"
  /\ pfx' = PrefixesOf(Family)
  /\ LET prior == [f \in Paths |-> IF pfx'[f] = NoHash THEN NoHash
                                   ELSE Prior(store, f, seen[f], pfx'[f])]
     IN  info' = [hash |-> Blanks,
                  err |-> [f \in Paths |-> IF f \in Family THEN broken[f] ELSE "ok"],
                  flag |-> [f \in Paths |-> prior[f] # NoHash],
                  prior |-> prior]
  /\ UNCHANGED <<files, state, adopt, seen, store, rows, runs, line, base, done, used>>

\* corruptWindow, phase B and the filling in: a family whose prefixes are
\* one prefix is hashed to tell its files apart, and one whose prefixes are
\* not is a conflict already, hashed to be shown.
CorrHash ==
  /\ phase = "windowed" /\ phase' = "hashed"
  /\ LET asked == {f \in Family : info.err[f] = "ok"}
         hits == Hits(asked)
         read == FullReads(asked)
         moved == Displaced(store, read, seen, pfx, content)
     IN  /\ \E kept \in Fitting(store, moved) :
              store' = Record(store, read, seen, pfx, content, runs, kept)
         /\ info' = [hash |-> [f \in Paths |-> CASE f \in hits -> store.ents[f].full
                                                 [] f \in read -> content[f]
                                                 [] OTHER -> NoHash],
                     err |-> [f \in Paths |-> IF f \in asked \ hits THEN broken[f] ELSE info.err[f]],
                     flag |-> [f \in Paths |-> f \in moved \/ info.flag[f]],
                     prior |-> [f \in Paths |-> IF f \in moved THEN store.ents[f].full ELSE info.prior[f]]]
  /\ pfx' = Blanks
  /\ UNCHANGED <<files, state, adopt, seen, rows, runs, line, base, done, used>>

\* The files of the size and modified time of f.
Kin(f) == {g \in Paths : seen[g] = seen[f]}

\* buildSet of the family F, and unchangedOnDisk of its files.
Conflict(F) ==
  LET of(g) == [f \in F |-> g[f]]
  IN  [err |-> of(info.err), hash |-> of(info.hash), prior |-> of(info.prior), flag |-> of(info.flag),
       stands |-> [f \in F |-> broken[f] = "ok" /\ mod[f] = seen[f]],
       now |-> of(content), open |-> [f \in F |-> broken[f] = "ok"], checks |-> checks]

\* Each family is judged by itself, when its files do not agree.
Judge ==
  /\ phase = "hashed" /\ phase' = "judged"
  /\ rows' = [f \in {f \in Family : Variants(Conflict(Kin(f))) >= 2} |-> JudgeSet(Conflict(Kin(f)))[f]]
  /\ UNCHANGED <<files, state, adopt, seen, store, pfx, info, runs, line, base, done, used>>

Undisturbed == \A f \in Paths : last[f] < runs

\* The last save of the store.
SaveStore ==
  /\ phase = "judged" /\ phase' = "saved"
  /\ Persist(store)
  /\ IF Undisturbed /\ line = {runs} /\ disk' = Saved(store, disk)
     THEN base' = [run |-> runs, content |-> content, mod |-> mod] /\ past' = {}
     ELSE UNCHANGED <<base, past>>
  /\ UNCHANGED <<checks, content, mod, broken, saving, last, quiet, restored,
                 marker, notice, adopt, seen, store, pfx, info, rows, runs, line, done>>

Ended == phase' = "idle" /\ store' = Closed /\ Nothing

\* The end of runScan: the marker goes, unless the results cannot be saved.
Publish ==
  /\ phase = "saved" /\ Ended
  /\ done' = done \cup {runs}
  /\ \/ marker' = NoMarker /\ UNCHANGED used
     \/ Fails /\ UNCHANGED marker
  /\ UNCHANGED <<files, disk, notice, adopt, seen, rows, runs, line, base>>

\* The user stops the scan: nothing is published, and the marker goes.  A
\* stop during the judgement is heeded once the store is saved.
Stop ==
  /\ phase \notin {"idle", "judged"} /\ Ended
  /\ marker' = NoMarker
  /\ UNCHANGED <<files, disk, notice, adopt, seen, rows, runs, line, base, done, used>>

\* The daemon dies and is started again, scanning or not.
Crash ==
  /\ Spend("crashes", MaxCrashes)
  /\ phase # "idle" \/ marker # notice
  /\ Ended
  /\ notice' = marker
  /\ UNCHANGED <<files, disk, marker, adopt, seen, rows, runs, line, base, done>>

Pass == Start \/ Open \/ DupPrefix \/ DupHash \/ CorrPrefix \/ CorrHash \/ Judge \/ SaveStore \/ Publish
Next == Pass \/ Stop \/ Crash \/ Disturb
Spec == Init /\ [][Next]_vars

-----------------------------------------------------------------------------
(* Properties.                                                             *)

\* Types, and the order of the generations: no entry is of a later
\* generation than the file's or the store's own, which is what makes the
\* generation after it a new one.
TypeOK ==
  /\ \A f \in Paths : Len(content[f]) = 2 /\ mod[f] \in Nat /\ broken[f] \in {"ok", "eio", "denied"}
  /\ saving \subseteq Paths /\ quiet \subseteq Paths
  /\ phase \in {"idle", "walked", "open", "prefixes", "grouped", "windowed", "hashed", "judged", "saved"}
  /\ \A f \in Paths : disk.ents[f].gen <= disk.gen /\ store.ents[f].gen <= store.gen
  /\ \A f \in Paths : disk.ents[f].full = NoHash \/ <<disk.ents[f].full[1]>> = disk.ents[f].pfx
       \/ last[f] >= disk.ents[f].scan
  /\ Cardinality({f \in Paths : store.changed[f] # NoHash}) <= ChangedMax

\* Every hash the store serves was computed in this scan, or in the run it
\* resumes (hashcache.go:204-210), through crashes, resumes and a write that
\* fails: an entry of the live generation is never another scan's.
LiveEntriesAreOwn ==
  \A f \in Paths :
    store.gen # 0 /\ store.ents[f].gen = store.gen => store.ents[f].scan \in line

\* Since when this scan has been reading: it, or the first run it continues.
Touched(f) == last[f] >= Min(line)
Judged == phase = "judged"

\* Two files of a family that hold different bytes are both in the set
\* that is judged, whatever earlier scans recorded (corrupt.go:27-33).
NoConflictHidden ==
  Judged =>
    \A f \in Family : \A g \in Kin(f) :
      broken[f] = "ok" /\ broken[g] = "ok" /\ ~Touched(f) /\ ~Touched(g) /\ content[f] # content[g]
        => {f, g} \subseteq DOMAIN rows

\* Evidence that counts is true: a file it is held against did change under
\* its present size and time; an edit that lands under the scan is never
\* taken for rot (corrupt.go:682-688).
HistoryTrue == Judged => \A f \in Family : Changed(Conflict(Kin(f))) \subseteq quiet

\* One change of a sound file between two scans that nothing disturbed, by
\* a bit or a run of zeros, is convicted, and the copy that still holds what
\* the file held is not (corrupt.go:862-868): the evidence reaches the
\* verdict past the duplicates pass, which has overwritten it.  The evidence
\* set must have room for every such change there is, and nothing else of the
\* family may be convicted before its past is looked at.
RotConvicted ==
  Judged /\ base.run = runs - 1 /\ runs > 1 /\ line = {runs} /\ Undisturbed
         /\ Cardinality(quiet) <= ChangedMax =>
    \A f \in Family : \A g \in Kin(f) \ {f} :
      /\ base.content[g] = base.content[f] /\ content[g] = base.content[g]
      /\ base.mod[f] = mod[f] /\ base.mod[g] = mod[g]
      /\ \E what \in {"flip", "zero"} : past = {[f |-> f, what |-> what]}
      /\ broken[f] = "ok" /\ broken[g] = "ok" /\ \A h \in Kin(f) : broken[h] # "eio"
      /\ checks => \A h \in Kin(f) \ {f} : ~Damage(content[h])
      => rows[f].v = "corrupt" /\ rows[g].v = "intact"

\* Only positive evidence convicts (corrupt.go:655-663): a file that is
\* convicted is damaged, unless it, or a file it was read as equal to, was
\* written to while the scan ran, or was repaired under its own time, which
\* the past cannot tell from rot; and its own checksums convict no file whose
\* saving began after the walk.
SoundNotConvicted ==
  Judged =>
    \A f \in DOMAIN rows : rows[f].v = "corrupt" =>
      \/ rows[f].by = "read" /\ broken[f] = "eio"
      \/ Damage(content[f]) /\ ~(rows[f].by = "checks" /\ f \in saving /\ last[f] >= runs)
      \/ \E g \in Kin(f) : /\ Touched(g) \/ g \in restored
                          /\ rows[f].by \in {"past", "shape"}
                          /\ info.err[g] = "ok" /\ info.hash[g] = info.hash[f]

\* Copies of the same bytes are not told apart by the order of their paths
\* (corrupt.go:920-925).
TwinsConvicted ==
  Judged =>
    \A f \in DOMAIN rows : \A g \in Kin(f) :
      /\ info.err[f] = "ok" /\ info.err[g] = "ok" /\ info.hash[f] = info.hash[g]
      /\ ~Touched(f) /\ ~Touched(g)
      /\ rows[f].v = "corrupt"
      => rows[g].v = "corrupt"

\* "Rung 2's evidence is a statement about one path's hash history and must
\* never be copied onto a peer" (corrupt.go:927-928): a row that cites
\* history is of a file that has one.
HistoryStaysOwn == Judged => \A f \in DOMAIN rows : rows[f].hist => f \in quiet

\* "A file being saved while the validator reads it ...": no file is
\* convicted for what another one looked like half written
\* (corrupt.go:722-725).
UntouchedStaysSound ==
  Judged =>
    \A f \in DOMAIN rows :
      rows[f].v = "corrupt" /\ ~Touched(f) => Damage(content[f]) \/ broken[f] = "eio"

\* "a COMPLETED scan can never be 'resumed' into" (hashcache.go:190-192):
\* no scan continues one that has published.
CompletedNotResumed == phase # "idle" => line \cap done = {}
=============================================================================
