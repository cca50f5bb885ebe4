----------------------------- MODULE MoveRecords -----------------------------
(***************************************************************************)
(* What a move batch writes down, and what a restart makes of it: the       *)
(* journal of the batch in flight (src/server/journal.go), the records and  *)
(* results files (persist.go, records.go) with their concurrent savers, the *)
(* end of handleMove (move.go) and the start of the daemon (daemon.go).     *)
(*                                                                          *)
(* A file stands at home, in a hidden staging folder or at the destination, *)
(* or at two of these; File Station goes on with what it was asked when the *)
(* daemon is gone.  What may go wrong inside one move is left out here but  *)
(* for the plain move whose answer is lost.  Scans are left out too: the    *)
(* record of moved copies only grows and the rows only go.                  *)
(***************************************************************************)
EXTENDS Naturals, Sequences, FiniteSets

CONSTANTS
  Files, NoFile,
  MaxRequests,                              \* bounds on one behaviour: files,
  MaxCrashes, MaxSettings, MaxFailures,     \* each kind of mishap,
  MaxMishaps                                \* and all of them together

ASSUME FilesAssumption == NoFile \notin Files

\* Who saves the state: the batch at its end, a setting, the daemon's start.
Savers == {"batch", "setting", "start"}
NoSaver == "none"

VARIABLES
  where,      \* the spots each file stands at
  asked,      \* the hops File Station has been asked for and not ended
  out, rows,  \* in memory: the files recorded as moved, the rows listed
  recs, prev, \* the records file and the generation before it, if there
  results,    \* the results file, if there
  journal,    \* the lines of the move journal; none is no journal
  synced,     \* how many of them are sure to survive a power loss
  published,  \* the report of the journal's last batch is kept
  told,       \* what the report of an interrupted batch says of each file
  pc,         \* where the batch, or the start of the daemon, stands
  todo, cur,  \* files not yet tried, the file being moved
  legs,       \* the hops it still has to make
  landed, gone,   \* allLanded and movedCanon of the batch
  sv,         \* each saver: where it stands and its snapshot
  persistMu,  \* who writes the files
  left,       \* history: files known, on disk, to have left their place
  tried,      \* history: files the latest batch asked File Station about
  lapses,     \* history: ways in which the disk may have fallen behind
  requests, crashes, settings, failures     \* counters, for the bounds

tree    == <<where, asked>>
memory  == <<out, rows>>
stored  == <<recs, prev, results>>
lines   == <<journal, synced>>
report  == <<published, told>>
batch   == <<pc, todo, cur, legs, landed, gone>>
saving  == <<sv, persistMu>>
history == <<left, tried, lapses>>
vars    == <<tree, memory, stored, lines, report, batch, saving, history,
             requests, crashes, settings, failures>>

Up == pc # "down"

MoreMayHappen == crashes + settings + failures < MaxMishaps

(***************************************************************************)
(* The journal.                                                             *)
(***************************************************************************)

BeginLine(req) == [kind |-> "begin", files |-> req]
StepLine(kind, f) == [kind |-> kind, file |-> f]
DoneLine(f, l, g, m) == [kind |-> "done", file |-> f, landed |-> l, gone |-> g, moved |-> m]
EndLine == [kind |-> "end"]

\* moveJournal.write.
Write(line, durable) ==
  /\ journal' = Append(journal, line)
  /\ synced' = IF durable THEN Len(journal) + 1 ELSE synced

\* The entry line i belongs to has its outcome in s.
Settled(s, i) ==
  \E j \in (i + 1)..Len(s) : /\ s[j].kind = "done"
                             /\ \A k \in (i + 1)..j : s[k].kind \notin {"start", "begin"}

\* Mutant: an entry without an outcome adds nothing.
LandedByDone(s) ==
  {s[i].file : i \in {k \in DOMAIN s : s[k].kind = "done" /\ s[k].landed}}

\* The files replayMoveJournal records as moved: by their outcome, or wherever
\* an entry without one was about to land (settle).
LandedBy(s) ==
  {s[i].file : i \in {k \in DOMAIN s :
     \/ s[k].kind = "done" /\ s[k].landed
     \/ s[k].kind \in {"ahead", "placed"} /\ ~Settled(s, k)}}

\* The files whose rows it prunes.
GoneBy(s) == {s[i].file : i \in {k \in DOMAIN s : s[k].kind = "done" /\ s[k].gone}}

Begins(s) == {i \in DOMAIN s : s[i].kind = "begin"}

LastBegin(s) == CHOOSE i \in Begins(s) : \A j \in Begins(s) : j <= i

\* The lines of the last batch that speak of f.
About(s, f) ==
  {i \in DOMAIN s : i > LastBegin(s) /\ s[i].kind # "end" /\ s[i].file = f}

\* Mutant: a file being staged is taken for one not yet begun.
TellWithoutStaging(s, f) ==
  LET said == {i \in About(s, f) : s[i].kind # "staging"}
      k == s[CHOOSE i \in said : \A j \in said : j <= i]
  IN IF said = {} \/ k.kind = "start" THEN "still"
     ELSE IF k.kind = "done" THEN IF k.moved THEN "moved" ELSE "failed"
     ELSE k.kind

\* interruptedReport: the outcome of f, the phase it was cut short in, or that
\* it is still where it was.
Tell(s, f) ==
  LET said == About(s, f)
      k == s[CHOOSE i \in said : \A j \in said : j <= i]
  IN IF said = {} \/ k.kind = "start" THEN "still"
     ELSE IF k.kind = "done" THEN IF k.moved THEN "moved" ELSE "failed"
     ELSE k.kind

Ended(s) == \E i \in DOMAIN s : i > LastBegin(s) /\ s[i].kind = "end"

(***************************************************************************)
(* saveState: a snapshot under mu, then the two files under persistMu.      *)
(***************************************************************************)

IdleSaver == [at |-> "idle", out |-> {}, rows |-> {}]

Snapshot(s) ==
  /\ sv[s].at = "idle"
  /\ sv' = [sv EXCEPT ![s] = [at |-> "previous", out |-> out, rows |-> rows]]

\* The end of a save; nobody waits for that of a setting.
Ends(s, how) ==
  sv' = [sv EXCEPT ![s] = IF s = "setting" THEN IdleSaver ELSE [IdleSaver EXCEPT !.at = how]]

\* A save that leaves a file of records with less than it held was overtaken.
Overtaken(s) == ~(UNION recs \subseteq sv[s].out /\ \A r \in results : sv[s].rows \subseteq r.rows)

\* saveRecords: the generation about to be replaced becomes the fallback.
WritePrevious(s) ==
  /\ sv[s].at = "previous" /\ persistMu = NoSaver
  /\ persistMu' = s
  /\ sv' = [sv EXCEPT ![s].at = "records"]
  /\ prev' = IF recs = {} THEN prev ELSE recs
  /\ UNCHANGED <<tree, memory, recs, results, lines, report, batch, history,
                 requests, crashes, settings, failures>>

WriteRecords(s) ==
  /\ sv[s].at = "records"
  /\ sv' = [sv EXCEPT ![s].at = "results"]
  /\ recs' = {sv[s].out}
  /\ lapses' = IF Overtaken(s) THEN lapses \cup {"overtaken"} ELSE lapses
  /\ UNCHANGED <<tree, memory, prev, results, lines, report, batch, left, tried, persistMu,
                 requests, crashes, settings, failures>>

WriteResults(s) ==
  /\ sv[s].at = "results"
  /\ persistMu' = NoSaver
  /\ Ends(s, "saved")
  /\ results' = {[out |-> sv[s].out, rows |-> sv[s].rows]}
  /\ UNCHANGED <<tree, memory, recs, prev, lines, report, batch, history,
                 requests, crashes, settings, failures>>

Failing == failures < MaxFailures /\ MoreMayHappen /\ failures' = failures + 1

\* Mutant: the lock is kept by the saver that failed.
FailSaveLocked(s) ==
  /\ Failing
  /\ \/ sv[s].at = "previous" /\ persistMu = NoSaver /\ persistMu' = s
     \/ sv[s].at \in {"records", "results"} /\ UNCHANGED persistMu
  /\ Ends(s, "failed")
  /\ UNCHANGED <<tree, memory, stored, lines, report, batch, history, requests, crashes,
                 settings>>

\* Any of the files may fail to be written; a failed write leaves the old one.
FailSave(s) ==
  /\ Failing
  /\ \/ sv[s].at = "previous" /\ persistMu = NoSaver
     \/ sv[s].at \in {"records", "results"}
  /\ persistMu' = NoSaver
  /\ Ends(s, "failed")
  /\ UNCHANGED <<tree, memory, stored, lines, report, batch, history, requests, crashes,
                 settings>>

\* handleRefs and handleRecordsAck save beside a batch; what they set is left out.
ChangeSetting ==
  /\ Up /\ pc \notin {"load", "boot"}
  /\ settings < MaxSettings /\ MoreMayHappen /\ settings' = settings + 1
  /\ Snapshot("setting")
  /\ UNCHANGED <<tree, memory, stored, lines, report, batch, persistMu, history,
                 requests, crashes, failures>>

(***************************************************************************)
(* The batch: handleMove from openJournal, one file after the other.        *)
(***************************************************************************)

Leg(line, from, to, keep) == [line |-> line, from |-> from, to |-> to, keep |-> keep]

\* The ways a file may take: straight there (moveViaFS), by a staging folder when
\* its name is taken (claimFromStaging), or as a copy across file systems
\* (transitViaFS).
Routes == { <<Leg("ahead", "home", "dest", FALSE)>>,
            <<Leg("staging", "home", "stage", FALSE), Leg("ahead", "stage", "dest", FALSE)>>,
            <<Leg("staging", "home", "stage", TRUE),  Leg("ahead", "stage", "dest", FALSE)>> }

Hop == [file |-> cur, leg |-> Head(legs)]

Begin(req) ==
  /\ pc = "idle" /\ requests' = requests + Cardinality(req) /\ requests' <= MaxRequests
  /\ Write(BeginLine(req), TRUE)
  /\ todo' = req /\ pc' = "next"
  /\ published' = FALSE /\ told' = [f \in Files |-> "nothing"]
  /\ tried' = {}
  /\ UNCHANGED <<tree, memory, stored, cur, legs, landed, gone, saving, left, lapses,
                 crashes, settings, failures>>

BatchOnly == UNCHANGED <<memory, stored, report, saving, requests, crashes, settings>>

\* The next file, by whichever way; its Start line is not flushed.
Start(f, route) ==
  /\ pc = "next" /\ f \in todo
  /\ Write(StepLine("start", f), FALSE)
  /\ todo' = todo \ {f} /\ cur' = f /\ legs' = route /\ pc' = "line"
  /\ BatchOnly /\ UNCHANGED <<tree, landed, gone, history, failures>>

\* The daemon is stopping, or the journal cannot be written: the rest is refused.
GiveUp ==
  /\ pc = "next" /\ todo # {} /\ todo' = {}
  /\ BatchOnly /\ UNCHANGED <<tree, lines, pc, cur, legs, landed, gone, history, failures>>

\* The end of one file: its Done line, flushed when it protects anything.  When
\* that cannot be written the rest is refused.
Done(l, g, m) ==
  /\ landed' = IF l THEN landed \cup {cur} ELSE landed
  /\ gone' = IF g THEN gone \cup {cur} ELSE gone
  /\ \/ /\ Write(DoneLine(cur, l, g, m), l \/ g)
        /\ left' = IF g THEN left \cup {cur} ELSE left
        /\ UNCHANGED <<todo, failures>>
     \/ /\ Failing /\ todo' = {}
        /\ UNCHANGED <<lines, left>>
  /\ pc' = "next" /\ cur' = NoFile /\ legs' = <<>>
  /\ BatchOnly /\ UNCHANGED <<asked, tried, lapses>>

\* moveOne refuses the file before anything was asked of File Station.
Refuse ==
  /\ pc = "line" /\ journal[Len(journal)].kind = "start"
  /\ Done(FALSE, FALSE, FALSE) /\ UNCHANGED where

Movable == cur \in rows /\ "home" \in where[cur] /\ "dest" \notin where[cur]

\* Mutant: the line is written and not flushed.
AnnounceUnflushed ==
  /\ pc = "line" /\ legs # <<>> /\ (Head(legs).from = "home" => Movable)
  /\ Write(StepLine(Head(legs).line, cur), FALSE)
  /\ pc' = "ask"
  /\ BatchOnly /\ UNCHANGED <<tree, todo, cur, legs, landed, gone, history, failures>>

\* ahead and staging: where the file is about to go, flushed before it is asked.
Announce ==
  /\ pc = "line" /\ legs # <<>> /\ (Head(legs).from = "home" => Movable)
  /\ Write(StepLine(Head(legs).line, cur), TRUE)
  /\ pc' = "ask"
  /\ BatchOnly /\ UNCHANGED <<tree, todo, cur, legs, landed, gone, history, failures>>

Ask ==
  /\ pc = "ask" /\ pc' = "wait"
  /\ asked' = asked \cup {Hop} /\ tried' = tried \cup {cur}
  /\ BatchOnly /\ UNCHANGED <<where, lines, todo, cur, legs, landed, gone, left, lapses, failures>>

\* File Station ended the hop and the file is where it was to go.
Arrive ==
  /\ pc = "wait" /\ Hop \notin asked /\ Head(legs).to \in where[cur]
  /\ legs' = Tail(legs)
  /\ pc' = IF Tail(legs) = <<>> THEN "landed" ELSE "line"
  /\ BatchOnly /\ UNCHANGED <<tree, lines, todo, cur, landed, gone, history, failures>>

\* A hop that failed, or whose line could not be written: nothing moved, or the
\* file stays parked in staging, or the copy there is removed (discardCopy).
Fail ==
  /\ \/ pc = "wait" /\ Hop \notin asked /\ Head(legs).to \notin where[cur] /\ Head(legs).from \in where[cur]
     \/ pc = "line" /\ journal[Len(journal)].kind = "staging"
  /\ where' = [where EXCEPT ![cur] = IF "home" \in @ THEN @ \ {"stage"} ELSE @]
  /\ Done(FALSE, "home" \notin where[cur], FALSE)

\* The answer to a plain move is lost while the file stands in place: recorded
\* where it would land, its row kept (unsettledError).
Unsettle ==
  /\ pc = "wait" /\ Hop \in asked /\ Head(legs).to = "dest" /\ Head(legs).from = "home"
  /\ Done(TRUE, FALSE, FALSE) /\ UNCHANGED where

\* placed: the line before verification, or before the original is retired.
Placed ==
  /\ pc = "landed" /\ pc' = "placed"
  /\ \/ Write(StepLine("placed", cur), TRUE)
     \/ UNCHANGED lines
  /\ BatchOnly /\ UNCHANGED <<tree, todo, cur, legs, landed, gone, history, failures>>

\* The file landed; a copied one's original is removed (retireOriginal) or left
\* beside it.  A mismatch found by verification is "moved, but".
Land ==
  /\ pc = "placed"
  /\ \/ /\ where' = [where EXCEPT ![cur] = @ \ {"home"}]
        /\ \E m \in BOOLEAN : Done(TRUE, TRUE, m)
     \/ /\ "home" \in where[cur] /\ UNCHANGED where
        /\ Done(TRUE, FALSE, FALSE)

(***************************************************************************)
(* The end of the batch.                                                    *)
(***************************************************************************)

AddRecords ==
  /\ pc = "next" /\ todo = {} /\ pc' = "prune"
  /\ out' = out \cup landed
  /\ UNCHANGED <<tree, rows, stored, lines, report, todo, cur, legs, landed, gone, saving,
                 history, requests, crashes, settings, failures>>

\* pruneMoved, and whether there is anything to save.
Prune ==
  /\ pc = "prune" /\ pc' = IF landed \cup gone = {} THEN "report" ELSE "save"
  /\ rows' = rows \ gone
  /\ UNCHANGED <<tree, out, stored, lines, report, todo, cur, legs, landed, gone, saving,
                 history, requests, crashes, settings, failures>>

SaveBatch ==
  /\ pc = "save" /\ pc' = "report"
  /\ Snapshot("batch")
  /\ UNCHANGED <<tree, memory, stored, lines, report, todo, cur, legs, landed, gone,
                 persistMu, history, requests, crashes, settings, failures>>

\* publishMoveReport, once the save has ended; the file may fail to be written.
Report ==
  /\ pc = "report" /\ sv["batch"].at \in {"idle", "saved", "failed"}
  /\ pc' = "close"
  /\ published' \in BOOLEAN
  /\ UNCHANGED <<tree, memory, stored, lines, told, todo, cur, legs, landed, gone, saving,
                 history, requests, crashes, settings, failures>>

\* moveJournal.finish: removed unless the save failed, also when the batch had
\* nothing to save.
Close ==
  /\ pc = "close" /\ pc' = "idle"
  /\ IF sv["batch"].at = "failed"
     THEN (Write(EndLine, TRUE) \/ UNCHANGED lines) /\ UNCHANGED lapses
     ELSE /\ journal' = <<>> /\ synced' = 0
          /\ lapses' = IF sv["batch"].at = "idle" /\ Cardinality(Begins(journal)) > 1
                       THEN lapses \cup {"dropped"} ELSE lapses
  /\ sv' = [sv EXCEPT !["batch"] = IdleSaver]
  /\ landed' = {} /\ gone' = {}
  /\ UNCHANGED <<tree, memory, stored, report, todo, cur, legs, persistMu, left, tried,
                 requests, crashes, settings, failures>>

(***************************************************************************)
(* The world and the daemon's end and start.                                *)
(***************************************************************************)

\* File Station ends a hop, whether anyone still waits for it or not.
FinishHop(h) ==
  /\ asked' = asked \ {h}
  /\ h.leg.from \in where[h.file] /\ h.leg.to \notin where[h.file]
  /\ where' = [where EXCEPT ![h.file] =
                 (IF h.leg.keep THEN @ ELSE @ \ {h.leg.from}) \cup {h.leg.to}]
  /\ UNCHANGED <<memory, stored, lines, report, batch, saving, history,
                 requests, crashes, settings, failures>>

FailHop(h) ==
  /\ asked' = asked \ {h}
  /\ UNCHANGED <<where, memory, stored, lines, report, batch, saving, history,
                 requests, crashes, settings, failures>>

\* The daemon is killed or the power fails: lines not flushed may be lost.
Crash ==
  /\ Up /\ crashes < MaxCrashes /\ MoreMayHappen /\ crashes' = crashes + 1
  /\ \E n \in synced..Len(journal) : journal' = SubSeq(journal, 1, n) /\ synced' = n
  /\ out' = {} /\ rows' = {}
  /\ pc' = "down" /\ todo' = {} /\ cur' = NoFile /\ legs' = <<>> /\ landed' = {} /\ gone' = {}
  /\ sv' = [s \in Savers |-> IdleSaver] /\ persistMu' = NoSaver
  /\ UNCHANGED <<tree, stored, report, history, requests, settings, failures>>

\* At most one of the two files is found damaged, and only when both are there.
Damages == {"neither"} \cup (IF recs # {} /\ results # {} THEN {"records", "results"} ELSE {})

\* What loadState makes of the files when one of them is damaged: the copies are
\* merged, the fallback asked only for a records file that is there and unread.
LoadedOut(damage) ==
  (IF damage = "results" THEN {} ELSE UNION {r.out : r \in results})
    \cup UNION (IF damage = "records" /\ recs # {} THEN prev ELSE recs)

\* loadState: a damaged file is set aside, and what was settled is saved.
Load(damage) ==
  /\ pc = "down"
  /\ out' = LoadedOut(damage)
  /\ rows' = IF damage = "results" THEN {} ELSE UNION {r.rows : r \in results}
  /\ recs' = IF damage = "records" THEN {} ELSE recs
  /\ results' = IF damage = "results" THEN {} ELSE results
  /\ pc' = "load"
  /\ sv' = IF damage = "neither" THEN sv
           ELSE [sv EXCEPT !["start"] = [at |-> "previous", out |-> out', rows |-> rows']]
  /\ UNCHANGED <<tree, prev, lines, report, todo, cur, legs, landed, gone, persistMu,
                 history, requests, crashes, settings, failures>>

\* Mutant: the rows of what left are not pruned again.
ReplayWithoutPrune ==
  /\ pc = "load" /\ sv["start"].at \in {"idle", "saved", "failed"}
  /\ out' = out \cup LandedBy(journal)
  /\ pc' = IF journal = <<>> THEN "idle" ELSE "boot"
  /\ sv' = [sv EXCEPT !["start"] =
              IF journal = <<>> THEN IdleSaver ELSE [at |-> "previous", out |-> out', rows |-> rows]]
  /\ UNCHANGED <<tree, rows, stored, lines, report, todo, cur, legs, landed, gone, persistMu,
                 history, requests, crashes, settings, failures>>

\* replayMoveJournal up to its save.
Replay ==
  /\ pc = "load" /\ sv["start"].at \in {"idle", "saved", "failed"}
  /\ out' = out \cup LandedBy(journal)
  /\ rows' = rows \ GoneBy(journal)
  /\ IF Begins(journal) = {} \/ Ended(journal) \/ published
     THEN UNCHANGED report
     ELSE /\ published' = TRUE
          /\ told' = [f \in Files |-> IF f \in journal[LastBegin(journal)].files
                                      THEN Tell(journal, f) ELSE "nothing"]
  /\ pc' = IF journal = <<>> THEN "idle" ELSE "boot"
  /\ sv' = [sv EXCEPT !["start"] =
              IF journal = <<>> THEN IdleSaver ELSE [at |-> "previous", out |-> out', rows |-> rows']]
  /\ UNCHANGED <<tree, stored, lines, todo, cur, legs, landed, gone, persistMu,
                 history, requests, crashes, settings, failures>>

\* Its end: the journal goes once the state is saved, and stays otherwise.
Boot ==
  /\ pc = "boot" /\ sv["start"].at \in {"saved", "failed"} /\ pc' = "idle"
  /\ IF sv["start"].at = "saved" THEN journal' = <<>> /\ synced' = 0 ELSE UNCHANGED lines
  /\ sv' = [sv EXCEPT !["start"] = IdleSaver]
  /\ UNCHANGED <<tree, memory, stored, report, todo, cur, legs, landed, gone, persistMu,
                 history, requests, crashes, settings, failures>>

(***************************************************************************)
(* Specification.                                                           *)
(***************************************************************************)

\* A daemon whose scan has just been saved, and nothing moved yet.
Init ==
  /\ where = [f \in Files |-> {"home"}] /\ asked = {}
  /\ out = {} /\ rows = Files
  /\ recs = {{}} /\ prev = {} /\ results = {[out |-> {}, rows |-> Files]}
  /\ journal = <<>> /\ synced = 0
  /\ published = FALSE /\ told = [f \in Files |-> "nothing"]
  /\ pc = "idle" /\ todo = {} /\ cur = NoFile /\ legs = <<>> /\ landed = {} /\ gone = {}
  /\ sv = [s \in Savers |-> IdleSaver] /\ persistMu = NoSaver
  /\ left = {} /\ tried = {} /\ lapses = {}
  /\ requests = 0 /\ crashes = 0 /\ settings = 0 /\ failures = 0

Batch ==
  \/ \E req \in (SUBSET Files) \ {{}} : Begin(req)
  \/ \E f \in todo, route \in Routes : Start(f, route)
  \/ GiveUp \/ Refuse \/ Announce \/ Ask \/ Arrive \/ Fail \/ Unsettle \/ Placed \/ Land
  \/ AddRecords \/ Prune \/ SaveBatch \/ Report \/ Close

Saving ==
  \/ ChangeSetting
  \/ \E s \in Savers : WritePrevious(s) \/ WriteRecords(s) \/ WriteResults(s) \/ FailSave(s)

World ==
  \/ \E h \in asked : FinishHop(h) \/ FailHop(h)
  \/ Crash \/ Replay \/ Boot
  \/ \E damage \in Damages : Load(damage)

Next == Batch \/ Saving \/ World

Spec == Init /\ [][Next]_vars

(***************************************************************************)
(* Properties.                                                              *)
(***************************************************************************)

\* The one type invariant; only the saver at its second or third file
\* holds the lock.
TypeOK ==
  /\ where \in [Files -> SUBSET {"home", "stage", "dest"}]
  /\ \A h \in asked : h.file \in Files
  /\ out \cup rows \cup todo \cup landed \cup gone \cup left \cup tried \subseteq Files
  /\ recs \cup prev \subseteq SUBSET Files
  /\ Cardinality(recs) <= 1 /\ Cardinality(prev) <= 1 /\ Cardinality(results) <= 1
  /\ synced <= Len(journal)
  /\ told \in [Files -> {"nothing", "still", "ahead", "staging", "placed", "moved", "failed"}]
  /\ pc \in {"idle", "next", "line", "ask", "wait", "landed", "placed", "prune", "save",
             "report", "close", "down", "load", "boot"}
  /\ cur \in Files \cup {NoFile} /\ (cur = NoFile <=> legs = <<>> /\ pc \notin {"landed", "placed"})
  /\ \A s \in Savers : sv[s].at \in {"records", "results"} <=> persistMu = s

\* What a restart would take for moved copies, were the power to fail now and
\* one file be found damaged.
Recovered(damage) == LoadedOut(damage) \cup LandedBy(SubSeq(journal, 1, synced))

\* A file at a destination is recovered as a moved copy by a restart at any
\* moment, whichever one of the two files is damaged: the line before each hop,
\* the journal that outlives its save and the order of the files make it so.
LandedRecovered ==
  lapses = {} =>
    \A f \in Files, damage \in Damages :
      "dest" \in where[f] => f \in Recovered(damage)

\* A daemon that serves between batches counts every file at a destination as a
\* moved copy, those File Station put there after a crash or a lost answer too.
LandedKnown ==
  pc = "idle" /\ lapses = {} => \A f \in Files : "dest" \in where[f] => f \in out

\* No restart brings back a row of a file whose outcome said that it left.
NoRowReturns == pc = "idle" /\ lapses = {} => rows \cap left = {}

\* interruptedReport: of a file said to be still where it was, that batch never
\* asked File Station for anything.
StillMeansStill == \A f \in tried : told[f] # "still"

\* handleMove and moveJournal.finish: the record of moved copies "must survive a
\* restart too", and when the journal goes "everything the journal holds is then
\* in the saved state".
RecordsSurvive == \A f \in Files : "dest" \in where[f] => f \in Recovered("neither")

\* inflight.report: "if it is no longer in its folder, it is at" the place the
\* file was about to land.
AheadMeansThere ==
  \A f \in Files : told[f] = "ahead" /\ pc \in {"load", "boot", "idle"}
                     => "home" \in where[f] \/ "dest" \in where[f]
=============================================================================
