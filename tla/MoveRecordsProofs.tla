-------------------------- MODULE MoveRecordsProofs --------------------------
(***************************************************************************)
(* Proofs about MoveRecords for any number of files, moves, crashes, failed *)
(* writes and settings: what the journal, the records and the results say   *)
(* of the files at a destination, and what a restart makes of them.         *)
(***************************************************************************)
EXTENDS MoveRecords, SequenceTheorems, FiniteSetTheorems, WellFoundedInduction, TLAPS

\* Where the batch has a file in hand, and where it runs.
Active  == {"line", "ask", "wait", "landed", "placed"}
InBatch == Active \cup {"next", "prune", "save", "report", "close"}

Direct    == Leg("ahead", "home", "dest", FALSE)
FromStage == Leg("ahead", "stage", "dest", FALSE)
ToStage   == {Leg("staging", "home", "stage", keep) : keep \in BOOLEAN}
LegType   == {Direct, FromStage} \cup ToStage

Steps == {"start", "ahead", "staging", "placed"}
LineType ==
  {BeginLine(req) : req \in SUBSET Files} \cup {EndLine}
    \cup {StepLine(p[1], p[2]) : p \in Steps \X Files}
    \cup {DoneLine(p[1], p[2], p[3], p[4]) : p \in Files \X BOOLEAN \X BOOLEAN \X BOOLEAN}

Stands == {"idle", "previous", "records", "results", "saved", "failed"}
Written == {"previous", "records", "results"}
SnapType == [at : Stands, out : SUBSET Files, rows : SUBSET Files]
Types ==
  /\ where \in [Files -> SUBSET {"home", "stage", "dest"}]
  /\ asked \subseteq [file : Files, leg : LegType]
  /\ out \in SUBSET Files /\ rows \in SUBSET Files
  /\ todo \in SUBSET Files /\ landed \in SUBSET Files /\ gone \in SUBSET Files
  /\ left \in SUBSET Files /\ tried \in SUBSET Files
  /\ recs = {} \/ \E q \in SUBSET Files : recs = {q}
  /\ prev = {} \/ \E q \in SUBSET Files : prev = {q}
  /\ results = {} \/ \E r \in [out : SUBSET Files, rows : SUBSET Files] : results = {r}
  /\ journal \in Seq(LineType) /\ synced \in 0..Len(journal)
  /\ told \in [Files -> {"nothing", "still", "ahead", "staging", "placed", "moved", "failed"}]
  /\ pc \in InBatch \cup {"idle", "down", "load", "boot"}
  /\ cur \in Files \cup {NoFile}
  /\ legs \in {<<>>, <<Direct>>, <<FromStage>>} \cup {<<l, FromStage>> : l \in ToStage}
  /\ sv \in [Savers -> SnapType] /\ persistMu \in Savers \cup {NoSaver}

\* Which phase goes with which file in hand, and which saver may be at work.
Control ==
  /\ pc \in {"line", "ask", "wait"} <=> legs # <<>>
  /\ pc \in Active <=> cur \in Files
  /\ cur \notin todo \cup landed \cup gone
  /\ todo \cap (landed \cup gone) = {}
  /\ pc \notin InBatch => landed = {} /\ gone = {}
  /\ pc \notin Active \cup {"next"} => todo = {}
  /\ sv["setting"].at \notin {"saved", "failed"}
  /\ sv["batch"].at # "idle" => pc \in {"report", "close"}
  /\ sv["start"].at # "idle" => pc \in {"load", "boot"}
  /\ pc = "down" => \A s \in Savers : sv[s] = IdleSaver
  /\ pc \in {"report", "close"} /\ sv["batch"].at = "idle" => landed = {} /\ gone = {}
  /\ pc = "close" => sv["batch"].at \in {"idle", "saved", "failed"}
  /\ \A s \in Savers : sv[s].at \in {"records", "results"} <=> persistMu = s

\* The last line of the journal speaks of the file in hand.
LastLine == journal[Len(journal)]
Lines ==
  /\ journal # <<>> => synced > 0 /\ journal[1].kind = "begin"
  /\ pc \in InBatch => journal # <<>>
  /\ pc = "line" => \/ LastLine = StepLine("start", cur)
                    \/ legs = <<FromStage>> /\ LastLine = StepLine("staging", cur)
  /\ pc \in {"ask", "wait"} => LastLine = StepLine(Head(legs).line, cur) /\ synced = Len(journal)
  /\ pc \in {"landed", "placed"} =>
       /\ LastLine = StepLine("ahead", cur) \/ LastLine = StepLine("placed", cur)
       /\ synced = Len(journal)

\* Line i of s makes a replay record its file, and so it stays when a line that
\* opens an entry or a batch comes after it.
Covers(s, i) ==
  \/ s[i].kind = "done" /\ s[i].landed
  \/ s[i].kind \in {"ahead", "placed"} /\ ~Settled(s, i)
Prunes(s, i) == s[i].kind = "done" /\ s[i].gone
Opens == {"start", "begin"}
Barred(s, i, K) == \E k \in (i + 1)..Len(s) : s[k].kind \in K
Covered(s, n, f) == \E i \in 1..n : Covers(s, i) /\ s[i].file = f
CoveredFor(s, n, f, K) == \E i \in 1..n : Covers(s, i) /\ s[i].file = f /\ Barred(s, i, K)
Pruned(s, n, f) == \E i \in 1..n : Prunes(s, i) /\ s[i].file = f
PrunedFor(s, n, f, K) == \E i \in 1..n : Prunes(s, i) /\ s[i].file = f /\ Barred(s, i, K)

\* Whichever of the two files is damaged, the other one has f as a moved copy.
DiskSafe(f) ==
  /\ recs = {} => results # {}
  /\ \A q \in recs : f \in q
  /\ \A r \in results : f \in r.out

\* What puts f at a destination, or may still do so, but for the hop the batch
\* waits for or has just seen end: the line before that one stands for it.
InPlace == pc \in {"landed", "placed"} \/ (pc = "wait" /\ Head(legs).to = "dest")
Needs(f) ==
  \/ "dest" \in where[f] /\ ~(InPlace /\ f = cur)
  \/ \E h \in asked : h.leg.to = "dest" /\ h.file = f /\ ~(pc = "wait" /\ h = Hop)

\* What keeps it: the files on disk, a line of an earlier batch, or this one's own.
Safe(f) ==
  \/ DiskSafe(f)
  \/ pc \in InBatch /\ (CoveredFor(journal, synced, f, {"begin"}) \/ f \in landed)
  \/ pc \notin InBatch /\ Covered(journal, synced, f)

LandedLined ==
  \A f \in landed : /\ Covered(journal, synced, f)
                    /\ pc \in Active => CoveredFor(journal, synced, f, Opens)
NeedsSafe == lapses = {} => \A f \in Files : Needs(f) => Safe(f)
NeedsKnown ==
  lapses = {} /\ pc \notin {"down", "load"} => \A f \in Files : Needs(f) => f \in out \cup landed
Landings == LandedLined /\ NeedsSafe /\ NeedsKnown

\* The memory is ahead of the files and of every snapshot of it, and what the
\* batch or the start of the daemon has saved is all of the memory.
Memory ==
  /\ pc # "down" => /\ \A q \in recs : q \subseteq out
                    /\ \A r \in results : r.out \subseteq out
                    /\ \A s \in Savers : sv[s].out \subseteq out
  /\ recs = {} => \A r \in results, s \in Savers :
                    sv[s].at \in {"previous", "records"} => r.out \subseteq sv[s].out
  /\ \A s \in Savers : sv[s].at = "results" => recs = {sv[s].out}
  /\ \A s \in {"batch", "start"} :
       sv[s].at \in Written => sv[s].out = out /\ sv[s].rows = rows
  /\ pc \in {"prune", "save", "report", "close"} => landed \subseteq out
  /\ results = {} => rows = {} /\ \A s \in Savers : sv[s].rows = {}
Saved ==
  lapses = {} =>
    /\ \A s \in Savers, r \in results : sv[s].at = "results" => sv[s].rows \subseteq r.rows
    /\ \A s \in {"batch", "start"} : sv[s].at = "saved" =>
         /\ \A f \in out : DiskSafe(f)
         /\ \A r \in results : r.rows \subseteq rows

\* The row of a file known to have left is gone, or on its way out: of the memory
\* by the batch or the replay, of the results file by a line of the journal.
Clean(f) == \A r \in results : f \notin r.rows
RowGone(f) ==
  \/ f \notin rows
  \/ pc = "load" /\ Pruned(journal, synced, f)
  \/ pc \in Active \cup {"next", "prune"} /\ f \in gone
RowGoes(f) ==
  \/ Clean(f)
  \/ pc \in InBatch /\ PrunedFor(journal, synced, f, {"begin"})
  \/ (pc \in InBatch => f \in gone) /\ Pruned(journal, synced, f)
Rows == lapses = {} => \A f \in left : RowGone(f) /\ RowGoes(f)

\* The line before a file is asked for outlives the batch it belongs to.
Announced(s, n, f) ==
  \E i \in 1..n :
    /\ s[i].kind \in {"ahead", "staging"} /\ s[i].file = f
    /\ \A k \in (i + 1)..Len(s) : s[k].kind # "begin" /\ ~(s[k].kind = "start" /\ s[k].file = f)
Tried ==
  /\ pc \in InBatch => \A f \in Files : told[f] = "nothing"
  /\ \A f \in tried : /\ f \notin todo
                      /\ told[f] # "still"
                      /\ journal # <<>> => Announced(journal, synced, f)

RecordsInv ==
  Types /\ Control /\ Lines /\ Landings /\ Memory /\ Saved /\ Rows /\ Tried

-----------------------------------------------------------------------------
(* The lines of the journal.                                               *)

\* A line is one of the four that journal.go writes.
LEMMA LineMade ==
  /\ \A req \in SUBSET Files : BeginLine(req) \in LineType
  /\ \A k \in Steps, f \in Files : StepLine(k, f) \in LineType
  /\ \A f \in Files, l, g, m \in BOOLEAN : DoneLine(f, l, g, m) \in LineType
  /\ EndLine \in LineType
<1>1. \A req \in SUBSET Files : BeginLine(req) \in LineType
  BY DEF LineType
<1>2. \A k \in Steps, f \in Files : StepLine(k, f) \in LineType
  <2> SUFFICES ASSUME NEW k \in Steps, NEW f \in Files PROVE StepLine(k, f) \in LineType
    OBVIOUS
  <2> DEFINE p == <<k, f>>
  <2>1. p \in Steps \X Files /\ p[1] = k /\ p[2] = f
    OBVIOUS
  <2>2. StepLine(k, f) \in {StepLine(q[1], q[2]) : q \in Steps \X Files}
    <3> HIDE DEF p
    <3> QED BY <2>1
  <2>3. QED
    BY <2>2 DEF LineType
<1>3. \A f \in Files, l, g, m \in BOOLEAN : DoneLine(f, l, g, m) \in LineType
  <2> SUFFICES ASSUME NEW f \in Files, NEW l \in BOOLEAN, NEW g \in BOOLEAN, NEW m \in BOOLEAN
               PROVE  DoneLine(f, l, g, m) \in LineType
    OBVIOUS
  <2> DEFINE p == <<f, l, g, m>>
  <2>1. p \in Files \X BOOLEAN \X BOOLEAN \X BOOLEAN /\ p[1] = f /\ p[2] = l /\ p[3] = g /\ p[4] = m
    OBVIOUS
  <2>2. DoneLine(f, l, g, m)
          \in {DoneLine(q[1], q[2], q[3], q[4]) : q \in Files \X BOOLEAN \X BOOLEAN \X BOOLEAN}
    <3> HIDE DEF p
    <3> QED BY <2>1
  <2>3. QED
    BY <2>2 DEF LineType
<1>4. QED
  BY <1>1, <1>2, <1>3 DEF LineType

\* What the lines say, by their kind.
LEMMA LineSays ==
  /\ \A req : BeginLine(req).kind = "begin" /\ BeginLine(req).files = req
  /\ \A k, f : StepLine(k, f).kind = k /\ StepLine(k, f).file = f
  /\ \A f, l, g, m : /\ DoneLine(f, l, g, m).kind = "done" /\ DoneLine(f, l, g, m).file = f
                     /\ DoneLine(f, l, g, m).landed = l /\ DoneLine(f, l, g, m).gone = g
                     /\ DoneLine(f, l, g, m).moved = m
  /\ EndLine.kind = "end"
BY DEF BeginLine, StepLine, DoneLine, EndLine

\* And what a line of the journal may say.
LEMMA LineRead ==
  ASSUME NEW x \in LineType
  PROVE  /\ x.kind \in Steps \cup {"begin", "done", "end"}
         /\ x.kind \in Steps \cup {"done"} => x.file \in Files
         /\ x.kind = "done" => x.landed \in BOOLEAN /\ x.gone \in BOOLEAN /\ x.moved \in BOOLEAN
         /\ x.kind = "begin" => x.files \in SUBSET Files
<1>1. CASE \E req \in SUBSET Files : x = BeginLine(req)
  BY <1>1, LineSays DEF Steps
<1>2. CASE x = EndLine
  BY <1>2, LineSays DEF Steps
<1>3. CASE \E p \in Steps \X Files : x = StepLine(p[1], p[2])
  BY <1>3, LineSays DEF Steps
<1>4. CASE \E p \in Files \X BOOLEAN \X BOOLEAN \X BOOLEAN : x = DoneLine(p[1], p[2], p[3], p[4])
  BY <1>4, LineSays DEF Steps
<1>5. QED
  BY <1>1, <1>2, <1>3, <1>4 DEF LineType

\* moveJournal.write leaves the lines before its own as they are.
LEMMA Appended ==
  ASSUME NEW s \in Seq(LineType), NEW x \in LineType
  PROVE  /\ Append(s, x) \in Seq(LineType)
         /\ Len(s) \in Nat /\ Len(Append(s, x)) = Len(s) + 1
         /\ \A i \in 1..Len(s) : Append(s, x)[i] = s[i] /\ s[i] \in LineType
         /\ Append(s, x)[Len(s) + 1] = x
         /\ Append(s, x) # <<>>
OBVIOUS

\* A crash keeps the first lines as they are.
LEMMA Kept ==
  ASSUME NEW s \in Seq(LineType), NEW n \in 0..Len(s)
  PROVE  /\ SubSeq(s, 1, n) \in Seq(LineType)
         /\ Len(s) \in Nat /\ Len(SubSeq(s, 1, n)) = n
         /\ \A i \in 1..n : SubSeq(s, 1, n)[i] = s[i] /\ s[i] \in LineType
         /\ n > 0 => SubSeq(s, 1, n) # <<>>
<1>1. Len(s) \in Nat /\ \A i \in 1..n : s[i] \in LineType
  OBVIOUS
<1>2. QED
  BY <1>1, SubSeqProperties

\* An outcome settles only the entry it ends: a line further back, with the
\* opening of another entry behind it, goes on standing for its file.
LEMMA CoversAppended ==
  ASSUME NEW s \in Seq(LineType), NEW x \in LineType, NEW i \in 1..Len(s), Covers(s, i),
         x.kind # "done" \/ Barred(s, i, Opens)
  PROVE  Covers(Append(s, x), i)
<1> DEFINE t == Append(s, x)
<1>1. /\ Len(s) \in Nat /\ Len(t) = Len(s) + 1 /\ t[Len(s) + 1] = x
      /\ \A j \in 1..Len(s) : t[j] = s[j]
  BY Appended
<1> HIDE DEF t
<1>2. CASE s[i].kind = "done" /\ s[i].landed
  BY <1>1, <1>2 DEF Covers, t
<1>3. CASE s[i].kind \in {"ahead", "placed"} /\ ~Settled(s, i)
  <2>1. ASSUME NEW j \in (i + 1)..Len(t), t[j].kind = "done",
               \A k \in (i + 1)..j : t[k].kind \notin {"start", "begin"}
        PROVE  FALSE
    <3>1. j \notin (i + 1)..Len(s)
      <4>1. SUFFICES ASSUME j \in (i + 1)..Len(s) PROVE Settled(s, i)
        BY <1>3
      <4>2. s[j].kind = "done" /\ \A k \in (i + 1)..j : s[k].kind \notin {"start", "begin"}
        BY <1>1, <2>1, <4>1
      <4>3. QED
        BY <4>1, <4>2 DEF Settled
    <3>2. j = Len(s) + 1 /\ x.kind = "done"
      BY <1>1, <2>1, <3>1
    <3>3. PICK k \in (i + 1)..Len(s) : s[k].kind \in Opens
      BY <3>2 DEF Barred
    <3>4. QED
      BY <1>1, <2>1, <3>2, <3>3 DEF Opens
  <2>2. ~Settled(t, i)
    BY <2>1 DEF Settled
  <2>3. QED
    BY <1>1, <1>3, <2>2 DEF Covers, t
<1>4. QED
  BY <1>2, <1>3 DEF Covers

LEMMA BarredAppended ==
  ASSUME NEW s \in Seq(LineType), NEW x \in LineType, NEW i \in 1..Len(s), NEW K,
         x.kind \in K \/ Barred(s, i, K)
  PROVE  Barred(Append(s, x), i, K)
BY Appended DEF Barred

\* What a new line leaves of the files an old one stands for.
LEMMA CoveredAppended ==
  ASSUME NEW s \in Seq(LineType), NEW x \in LineType, NEW n \in 0..Len(s),
         NEW m \in {n, Len(s) + 1}, NEW f
  PROVE  /\ Covered(s, n, f) /\ x.kind # "done" => Covered(Append(s, x), m, f)
         /\ CoveredFor(s, n, f, Opens) => CoveredFor(Append(s, x), m, f, Opens)
         /\ CoveredFor(s, n, f, {"begin"}) => CoveredFor(Append(s, x), m, f, {"begin"})
         /\ Covered(s, n, f) /\ x.kind \in Opens => CoveredFor(Append(s, x), m, f, Opens)
         /\ Covered(s, n, f) /\ x.kind = "begin" => CoveredFor(Append(s, x), m, f, {"begin"})
<1>1. /\ Len(s) \in Nat /\ n \in Nat /\ m \in Nat /\ n <= m /\ n <= Len(s)
      /\ \A i \in 1..Len(s) : Append(s, x)[i] = s[i]
  BY Appended
<1>2. \A i \in 1..n : i \in 1..Len(s) /\ i \in 1..m /\ Append(s, x)[i] = s[i]
  BY <1>1
<1>3. \A i \in 1..n : Barred(s, i, {"begin"}) => Barred(s, i, Opens)
  BY DEF Barred, Opens
<1>4. "start" \in Opens /\ "begin" \in Opens /\ "done" \notin Opens
  BY DEF Opens
<1>5. Covered(s, n, f) /\ x.kind # "done" => Covered(Append(s, x), m, f)
  BY <1>2, CoversAppended DEF Covered
<1>6. CoveredFor(s, n, f, Opens) => CoveredFor(Append(s, x), m, f, Opens)
  BY <1>2, CoversAppended, BarredAppended DEF CoveredFor
<1>7. CoveredFor(s, n, f, {"begin"}) => CoveredFor(Append(s, x), m, f, {"begin"})
  BY <1>2, <1>3, CoversAppended, BarredAppended DEF CoveredFor
<1>8. Covered(s, n, f) /\ x.kind \in Opens => CoveredFor(Append(s, x), m, f, Opens)
  BY <1>2, <1>4, CoversAppended, BarredAppended DEF Covered, CoveredFor
<1>9. Covered(s, n, f) /\ x.kind = "begin" => CoveredFor(Append(s, x), m, f, {"begin"})
  BY <1>2, <1>4, CoversAppended, BarredAppended DEF Covered, CoveredFor
<1>10. QED
  BY <1>5, <1>6, <1>7, <1>8, <1>9

\* The line that stands for a file at once: its outcome, or the line before a hop.
LEMMA CoveredNow ==
  ASSUME NEW s \in Seq(LineType), NEW x \in LineType,
         x.kind \in {"ahead", "placed"} \/ (x.kind = "done" /\ x.landed)
  PROVE  Covered(Append(s, x), Len(s) + 1, x.file)
<1> DEFINE t == Append(s, x)  n == Len(s) + 1
<1>1. Len(s) \in Nat /\ Len(t) = n /\ t[n] = x
  BY Appended
<1> HIDE DEF t
<1>2. ~Settled(t, n)
  BY <1>1 DEF Settled
<1>3. Covers(t, n) /\ n \in 1..n
  BY <1>1, <1>2 DEF Covers
<1>4. QED
  BY <1>1, <1>3 DEF Covered, t

\* The last line of the journal stands for its file while nothing follows.
LEMMA CoveredLast ==
  ASSUME NEW s \in Seq(LineType), s # <<>>, s[Len(s)].kind \in {"ahead", "placed"}
  PROVE  Covered(s, Len(s), s[Len(s)].file)
<1>1. Len(s) \in Nat /\ Len(s) > 0
  OBVIOUS
<1>2. ~Settled(s, Len(s))
  BY <1>1 DEF Settled
<1>3. QED
  BY <1>1, <1>2 DEF Covered, Covers

\* What a bar adds may be forgotten.
LEMMA BarForgotten ==
  \A s, n, f, K : /\ CoveredFor(s, n, f, K) => Covered(s, n, f)
                  /\ PrunedFor(s, n, f, K) => Pruned(s, n, f)
BY DEF CoveredFor, Covered, PrunedFor, Pruned

\* A crash keeps the lines that were flushed, and settles none of them.
LEMMA CoveredKept ==
  ASSUME NEW s \in Seq(LineType), NEW n \in 0..Len(s), NEW m \in n..Len(s), NEW f, Covered(s, n, f)
  PROVE  Covered(SubSeq(s, 1, m), m, f)
<1> DEFINE t == SubSeq(s, 1, m)
<1>1. Len(s) \in Nat /\ m \in Nat /\ Len(t) = m /\ \A i \in 1..m : t[i] = s[i]
  BY Kept
<1> HIDE DEF t
<1>2. PICK i \in 1..n : Covers(s, i) /\ s[i].file = f
  BY DEF Covered
<1>3. i \in 1..m /\ t[i] = s[i]
  BY <1>1
<1>4. Settled(t, i) => Settled(s, i)
  <2>1. ASSUME NEW j \in (i + 1)..m, t[j].kind = "done",
               \A k \in (i + 1)..j : t[k].kind \notin {"start", "begin"}
        PROVE  Settled(s, i)
    <3>1. j \in (i + 1)..Len(s) /\ s[j].kind = "done"
      BY <1>1, <1>3, <2>1
    <3>2. \A k \in (i + 1)..j : s[k].kind \notin {"start", "begin"}
      BY <1>1, <1>3, <2>1
    <3>3. QED
      BY <3>1, <3>2 DEF Settled
  <2>2. QED
    BY <1>1, <2>1 DEF Settled
<1>5. Covers(t, i)
  BY <1>2, <1>3, <1>4 DEF Covers
<1>6. QED
  BY <1>2, <1>3, <1>5 DEF Covered, t

\* The rows a replay prunes, the same way.
LEMMA PrunedAppended ==
  ASSUME NEW s \in Seq(LineType), NEW x \in LineType, NEW n \in 0..Len(s),
         NEW m \in {n, Len(s) + 1}, NEW f
  PROVE  /\ Pruned(s, n, f) => Pruned(Append(s, x), m, f)
         /\ PrunedFor(s, n, f, {"begin"}) => PrunedFor(Append(s, x), m, f, {"begin"})
         /\ Pruned(s, n, f) /\ x.kind = "begin" => PrunedFor(Append(s, x), m, f, {"begin"})
         /\ x.kind = "done" /\ x.gone /\ m = Len(s) + 1 => Pruned(Append(s, x), m, x.file)
<1>1. /\ Len(s) \in Nat /\ n \in Nat /\ m \in Nat /\ n <= m /\ n <= Len(s)
      /\ \A i \in 1..Len(s) : Append(s, x)[i] = s[i]
      /\ Append(s, x)[Len(s) + 1] = x
  BY Appended
<1>2. \A i \in 1..n : i \in 1..Len(s) /\ i \in 1..m /\ Append(s, x)[i] = s[i]
  BY <1>1
<1>3. Pruned(s, n, f) => Pruned(Append(s, x), m, f)
  BY <1>2 DEF Pruned, Prunes
<1>4. PrunedFor(s, n, f, {"begin"}) => PrunedFor(Append(s, x), m, f, {"begin"})
  BY <1>2, BarredAppended DEF PrunedFor, Prunes
<1>5. Pruned(s, n, f) /\ x.kind = "begin" => PrunedFor(Append(s, x), m, f, {"begin"})
  BY <1>2, BarredAppended DEF PrunedFor, Pruned, Prunes
<1>6. x.kind = "done" /\ x.gone /\ m = Len(s) + 1 => Pruned(Append(s, x), m, x.file)
  BY <1>1 DEF Pruned, Prunes
<1>7. QED
  BY <1>3, <1>4, <1>5, <1>6

LEMMA PrunedKept ==
  ASSUME NEW s \in Seq(LineType), NEW n \in 0..Len(s), NEW m \in n..Len(s), NEW f, Pruned(s, n, f)
  PROVE  Pruned(SubSeq(s, 1, m), m, f)
<1>1. /\ Len(s) \in Nat /\ m \in Nat /\ n \in Nat /\ n <= m
      /\ \A i \in 1..m : SubSeq(s, 1, m)[i] = s[i]
  BY Kept
<1>2. QED
  BY <1>1 DEF Pruned, Prunes

\* replayMoveJournal records every file a flushed line stands for, and prunes
\* every row one says to be gone.
LEMMA Replayed ==
  ASSUME NEW s \in Seq(LineType), NEW n \in 0..Len(s), NEW f
  PROVE  /\ Covered(s, n, f) => f \in LandedBy(s) /\ f \in LandedBy(SubSeq(s, 1, n))
         /\ Pruned(s, n, f) => f \in GoneBy(s)
<1>1. /\ Len(s) \in Nat /\ n \in Nat /\ n <= Len(s) /\ DOMAIN s = 1..Len(s)
      /\ n \in n..Len(s) /\ SubSeq(s, 1, n) \in Seq(LineType) /\ Len(SubSeq(s, 1, n)) = n
  BY Kept
<1>2. ASSUME NEW t \in Seq(LineType), NEW k \in Nat, k <= Len(t), Covered(t, k, f) PROVE f \in LandedBy(t)
  <2>1. PICK i \in 1..k : Covers(t, i) /\ t[i].file = f
    BY <1>2 DEF Covered
  <2>2. i \in DOMAIN t
    BY <1>2
  <2>3. QED
    BY <2>1, <2>2 DEF Covers, LandedBy
<1>3. Covered(s, n, f) => f \in LandedBy(SubSeq(s, 1, n))
  <2> DEFINE t == SubSeq(s, 1, n)
  <2>1. Covered(s, n, f) => Covered(t, n, f)
    BY <1>1, CoveredKept
  <2>2. t \in Seq(LineType) /\ n <= Len(t)
    BY <1>1
  <2> HIDE DEF t
  <2>3. Covered(s, n, f) => f \in LandedBy(t)
    BY <1>1, <1>2, <2>1, <2>2
  <2>4. QED
    BY <2>3 DEF t
<1>4. Pruned(s, n, f) => f \in GoneBy(s)
  BY <1>1 DEF Pruned, Prunes, GoneBy
<1>5. QED
  BY <1>1, <1>2, <1>3, <1>4

\* A nonempty set of line numbers has a largest one.
LEMMA Largest ==
  ASSUME NEW n \in Nat, NEW T, T \subseteq 1..n, T # {}
  PROVE  \E i \in T : \A j \in T : j <= i
<1> DEFINE U == {n - i : i \in T}
           R == OpToRel(<, Nat)
<1>1. U \subseteq Nat /\ U # {}
  <2>1. \A i \in T : n - i \in Nat
    OBVIOUS
  <2>2. \E i \in T : n - i \in U
    OBVIOUS
  <2>3. QED
    BY <2>1, <2>2
<1>2. IsWellFoundedOn(R, Nat)
  BY NatLessThanWellFounded
<1>3. PICK u \in U : \A v \in U : ~(<<v, u>> \in R)
  <2> HIDE DEF U, R
  <2>1. QED
    BY <1>1, <1>2, WFMin
<1>4. PICK i \in T : u = n - i
  OBVIOUS
<1>5. \A v \in U : ~(v < u)
  <2> HIDE DEF U
  <2>1. QED
    BY <1>1, <1>3 DEF OpToRel
<1>6. \A j \in T : ~(n - j < n - i)
  BY <1>4, <1>5
<1>7. QED
  BY <1>6

LEMMA LastBatch ==
  ASSUME NEW s \in Seq(LineType), Begins(s) # {}
  PROVE  LastBegin(s) \in Begins(s) /\ \A j \in Begins(s) : j <= LastBegin(s)
<1>1. Len(s) \in Nat /\ Begins(s) \subseteq 1..Len(s)
  BY DEF Begins
<1>2. \E i \in Begins(s) : \A j \in Begins(s) : j <= i
  BY <1>1, Largest
<1>3. QED
  BY <1>2 DEF LastBegin

\* The report of a batch cut short says one of six things of a file.
LEMMA TellTyped ==
  ASSUME NEW s \in Seq(LineType), Begins(s) # {}, NEW f
  PROVE  Tell(s, f) \in {"still", "ahead", "staging", "placed", "moved", "failed"}
<1> DEFINE said == About(s, f)
           k == s[CHOOSE i \in said : \A j \in said : j <= i]
<1>1. Len(s) \in Nat /\ said \subseteq 1..Len(s)
  BY DEF About
<1>2. CASE said = {}
  BY <1>2 DEF Tell
<1>3. CASE said # {}
  <2>1. \E i \in said : \A j \in said : j <= i
    BY <1>1, <1>3, Largest
  <2>2. PICK i \in said : k = s[i]
    BY <2>1
  <2>3. i > LastBegin(s) /\ i \in DOMAIN s /\ k.kind # "end"
    BY <2>2 DEF About
  <2>4. k \in LineType
    BY <1>1, <2>2
  <2>5. k.kind # "begin"
    BY <1>1, <2>2, <2>3, LastBatch DEF Begins
  <2>6. k.kind \in Steps \cup {"done"}
    BY <2>3, <2>4, <2>5, LineRead
  <2> HIDE DEF k, said
  <2>7. Tell(s, f) = IF said = {} \/ k.kind = "start" THEN "still"
                     ELSE IF k.kind = "done" THEN IF k.moved THEN "moved" ELSE "failed"
                     ELSE k.kind
    BY DEF Tell, k, said
  <2>8. QED
    BY <2>6, <2>7 DEF Steps
<1>4. QED
  BY <1>2, <1>3

\* It never says that a file announced in that batch is still where it was.
LEMMA TellAnnounced ==
  ASSUME NEW s \in Seq(LineType), Begins(s) # {}, NEW n \in 0..Len(s), NEW f, Announced(s, n, f)
  PROVE  Tell(s, f) # "still"
<1> DEFINE said == About(s, f)
           k == s[CHOOSE i \in said : \A j \in said : j <= i]
<1>1. Len(s) \in Nat /\ said \subseteq 1..Len(s) /\ DOMAIN s = 1..Len(s)
  BY DEF About
<1>2. PICK i \in 1..n :
        /\ s[i].kind \in {"ahead", "staging"} /\ s[i].file = f
        /\ \A q \in (i + 1)..Len(s) : s[q].kind # "begin" /\ ~(s[q].kind = "start" /\ s[q].file = f)
  BY DEF Announced
<1>3. LastBegin(s) \in 1..Len(s) /\ s[LastBegin(s)].kind = "begin"
  BY <1>1, LastBatch DEF Begins
<1>4. LastBegin(s) < i
  BY <1>1, <1>2, <1>3
<1>5. i \in said
  BY <1>1, <1>2, <1>4 DEF About
<1>6. \E p \in said : \A j \in said : j <= p
  BY <1>1, <1>5, Largest
<1>7. PICK p \in said : k = s[p] /\ i <= p
  BY <1>5, <1>6
<1>8. s[p].file = f /\ s[p].kind # "start"
  BY <1>1, <1>2, <1>7 DEF About
<1>9. k.kind # "start" /\ k.kind # "still" /\ said # {}
  <2>1. s[p] \in LineType
    BY <1>1
  <2>2. s[p].kind # "still"
    BY <2>1, LineRead DEF Steps
  <2>3. QED
    BY <1>5, <1>7, <1>8, <2>2
<1> HIDE DEF k, said
<1>10. Tell(s, f) = IF said = {} \/ k.kind = "start" THEN "still"
                    ELSE IF k.kind = "done" THEN IF k.moved THEN "moved" ELSE "failed"
                    ELSE k.kind
  BY DEF Tell, k, said
<1>11. QED
  BY <1>9, <1>10

-----------------------------------------------------------------------------
(* The steps of a batch.                                                   *)

\* The hops of the routes, one after the other.
LEMMA LegsSay ==
  ASSUME NEW L \in {<<Direct>>, <<FromStage>>} \cup {<<l, FromStage>> : l \in ToStage}
  PROVE  /\ L # <<>> /\ Head(L) \in LegType /\ Head(L).line \in {"ahead", "staging"}
         /\ Tail(L) \in {<<>>, <<FromStage>>}
         /\ Tail(L) = <<>> <=> Head(L).to = "dest"
         /\ Head(L).line = "ahead" <=> Head(L).to = "dest"
         /\ Head(L).from = "home" \/ L = <<FromStage>>
         /\ Head(L).from # Head(L).to /\ Head(L).from \in {"home", "stage"}
         /\ Head(L).to \in {"stage", "dest"}
         /\ Head(L).to = "dest" /\ Head(L).from = "home" => Head(L) = Direct
<1>1. CASE L \in {<<Direct>>, <<FromStage>>}
  <2>1. PICK d \in {Direct, FromStage} : L = <<d>>
    BY <1>1
  <2>2. Head(L) = d /\ Tail(L) = <<>> /\ L # <<>>
    BY <2>1
  <2>3. d.line = "ahead" /\ d.to = "dest" /\ d.from \in {"home", "stage"} /\ d \in LegType
    BY DEF Direct, FromStage, Leg, LegType
  <2>4. d.from = "stage" => d = FromStage
    BY DEF Direct, FromStage, Leg
  <2>5. d.from = "home" => d = Direct
    BY DEF Direct, FromStage, Leg
  <2>6. QED
    BY <2>1, <2>2, <2>3, <2>4, <2>5
<1>2. CASE L \in {<<l, FromStage>> : l \in ToStage}
  <2>1. PICK l \in ToStage : L = <<l, FromStage>>
    BY <1>2
  <2>2. Head(L) = l /\ Tail(L) = <<FromStage>> /\ L # <<>> /\ <<FromStage>> # <<>>
    BY <2>1
  <2>3. l.line = "staging" /\ l.from = "home" /\ l.to = "stage" /\ l \in LegType
    BY DEF ToStage, Leg, LegType
  <2>4. QED
    BY <2>2, <2>3
<1>3. QED
  BY <1>1, <1>2

LEMMA RoutesTyped ==
  ASSUME NEW route \in Routes
  PROVE  route \in {<<Direct>>, <<FromStage>>} \cup {<<l, FromStage>> : l \in ToStage} /\ route # <<>>
<1>1. route = <<Direct>> \/ \E l \in ToStage : route = <<l, FromStage>>
  BY DEF Routes, Direct, FromStage, ToStage
<1>2. QED
  BY <1>1

\* moveJournal.write.
LEMMA Wrote ==
  ASSUME Types, NEW x \in LineType, NEW durable \in BOOLEAN, Write(x, durable)
  PROVE  /\ journal' = Append(journal, x) /\ journal' \in Seq(LineType) /\ journal' # <<>>
         /\ Len(journal) \in Nat /\ Len(journal') = Len(journal) + 1
         /\ synced \in 0..Len(journal) /\ synced' \in {synced, Len(journal) + 1}
         /\ synced' \in 0..Len(journal') /\ synced <= synced'
         /\ durable => synced' = Len(journal')
         /\ LastLine' = x
         /\ \A i \in 1..Len(journal) : journal'[i] = journal[i]
<1>1. /\ Len(journal) \in Nat /\ journal' = Append(journal, x) /\ synced \in 0..Len(journal)
      /\ synced' = IF durable THEN Len(journal) + 1 ELSE synced
  BY DEF Types, Write
<1>2. QED
  BY <1>1, Appended DEF Types, LastLine

\* The file in hand has an outcome line.
LEMMA DoneTyped ==
  ASSUME Types, Control, pc \in Active, NEW l \in BOOLEAN, NEW g \in BOOLEAN, NEW m \in BOOLEAN
  PROVE  cur \in Files /\ DoneLine(cur, l, g, m) \in LineType
BY LineMade DEF Control

\* The journal stays a journal.
LEMMA LinesTyped ==
  Types /\ Control /\ Lines /\ [Next]_vars => journal' \in Seq(LineType) /\ synced' \in 0..Len(journal')
<1> SUFFICES ASSUME Types, Control, Lines, [Next]_vars
             PROVE  journal' \in Seq(LineType) /\ synced' \in 0..Len(journal')
  OBVIOUS
<1>1. journal \in Seq(LineType) /\ synced \in 0..Len(journal) /\ Len(journal) \in Nat
  BY DEF Types
<1>2. ASSUME NEW x \in LineType, NEW durable \in BOOLEAN, Write(x, durable)
      PROVE  journal' \in Seq(LineType) /\ synced' \in 0..Len(journal')
  BY <1>2, Wrote
<1>3. CASE UNCHANGED lines
  BY <1>1, <1>3 DEF lines
<1>4. CASE journal' = <<>> /\ synced' = 0
  <2>1. <<>> \in Seq(LineType) /\ Len(<<>>) = 0
    BY EmptySeq
  <2>2. QED
    BY <1>4, <2>1
<1>5. ASSUME NEW req \in SUBSET Files, Begin(req) PROVE \E x \in LineType, d \in BOOLEAN : Write(x, d)
  BY <1>5, LineMade DEF Begin
<1>6. ASSUME NEW f \in todo, NEW route \in Routes, Start(f, route)
      PROVE  \E x \in LineType, d \in BOOLEAN : Write(x, d)
  BY <1>6, LineMade DEF Start, Steps, Types
<1>7. ASSUME pc \in Active, NEW l \in BOOLEAN, NEW g \in BOOLEAN, NEW m \in BOOLEAN, Done(l, g, m)
      PROVE  UNCHANGED lines \/ \E x \in LineType, d \in BOOLEAN : Write(x, d)
  <2>1. DoneLine(cur, l, g, m) \in LineType /\ (l \/ g) \in BOOLEAN
    BY <1>7, DoneTyped
  <2>2. QED
    BY <1>7, <2>1 DEF Done
<1>8. CASE Refuse \/ Unsettle
  BY <1>2, <1>3, <1>7, <1>8 DEF Refuse, Unsettle, Active
<1>9. CASE Fail
  <2>1. pc \in Active
    BY <1>9 DEF Fail, Active
  <2>2. ("home" \notin where[cur]) \in BOOLEAN
    OBVIOUS
  <2>3. QED
    BY <1>2, <1>3, <1>7, <1>9, <2>1, <2>2 DEF Fail
<1>10. CASE Land
  BY <1>2, <1>3, <1>7, <1>10 DEF Land, Active
<1>11. CASE Announce
  <2>1. cur \in Files /\ Head(legs).line \in Steps
    BY <1>11, LegsSay DEF Announce, Control, Active, Types, Steps
  <2>2. StepLine(Head(legs).line, cur) \in LineType
    BY <2>1, LineMade
  <2>3. QED
    BY <1>2, <1>11, <2>2 DEF Announce
<1>12. CASE Placed
  <2>1. StepLine("placed", cur) \in LineType
    BY <1>12, LineMade DEF Placed, Control, Active, Steps
  <2>2. QED
    BY <1>2, <1>3, <1>12, <2>1 DEF Placed
<1>13. CASE Close
  BY <1>2, <1>3, <1>13, <1>4, LineMade DEF Close
<1>14. CASE Crash
  <2>1. PICK n \in synced..Len(journal) : journal' = SubSeq(journal, 1, n) /\ synced' = n
    BY <1>14 DEF Crash
  <2>2. QED
    BY <1>1, <2>1, Kept
<1>15. CASE Boot
  BY <1>3, <1>15, <1>4 DEF Boot
<1>16. CASE GiveUp \/ Ask \/ Arrive \/ AddRecords \/ Prune \/ SaveBatch \/ Report
  BY <1>3, <1>16 DEF GiveUp, Ask, Arrive, AddRecords, Prune, SaveBatch, Report
<1>17. CASE Saving
  BY <1>3, <1>17 DEF Saving, ChangeSetting, WritePrevious, WriteRecords, WriteResults, FailSave
<1>18. CASE \E h \in asked : FinishHop(h) \/ FailHop(h)
  BY <1>3, <1>18 DEF FinishHop, FailHop
<1>19. CASE Replay \/ \E damage \in Damages : Load(damage)
  BY <1>3, <1>19 DEF Replay, Load
<1>20. CASE UNCHANGED vars
  BY <1>3, <1>20 DEF vars
<1>21. QED
  BY <1>2, <1>5, <1>6, <1>8, <1>9, <1>10, <1>11, <1>12, <1>13, <1>14, <1>15, <1>16, <1>17, <1>18,
     <1>19, <1>20 DEF Next, Batch, World

\* The files stay where a file may stand, and the hops are those of the routes.
LEMMA TreeTyped ==
  Types /\ Control /\ [Next]_vars =>
    where' \in [Files -> SUBSET {"home", "stage", "dest"}] /\ asked' \subseteq [file : Files, leg : LegType]
<1> SUFFICES ASSUME Types, Control, [Next]_vars
             PROVE  where' \in [Files -> SUBSET {"home", "stage", "dest"}]
                    /\ asked' \subseteq [file : Files, leg : LegType]
  OBVIOUS
<1> USE DEF Types
<1>1. CASE UNCHANGED tree
  BY <1>1 DEF tree
<1>2. CASE Ask
  <2>1. cur \in Files /\ Head(legs) \in LegType
    BY <1>2, LegsSay DEF Ask, Control, Active
  <2>2. QED
    BY <1>2, <2>1 DEF Ask, Hop
<1>3. CASE Fail
  BY <1>3 DEF Fail, Done, BatchOnly
<1>4. CASE Land
  <2>1. asked' = asked
    BY <1>4 DEF Land, Done, BatchOnly
  <2>2. where' = [where EXCEPT ![cur] = @ \ {"home"}] \/ where' = where
    BY <1>4 DEF Land
  <2>3. QED
    BY <2>1, <2>2
<1>5. ASSUME NEW h \in asked, FinishHop(h) PROVE where' \in [Files -> SUBSET {"home", "stage", "dest"}]
  <2>1. h.file \in Files /\ h.leg.to \in {"stage", "dest"}
    BY DEF LegType, Direct, FromStage, ToStage, Leg
  <2>2. QED
    BY <1>5, <2>1 DEF FinishHop
<1>6. CASE \E h \in asked : FinishHop(h) \/ FailHop(h)
  BY <1>5, <1>6 DEF FinishHop, FailHop
<1>7. CASE Refuse \/ Unsettle
  BY <1>7 DEF Refuse, Unsettle, Done, BatchOnly
<1>8. CASE (\E req \in (SUBSET Files) \ {{}} : Begin(req)) \/ (\E f \in todo, route \in Routes : Start(f, route))
  BY <1>1, <1>8 DEF Begin, Start
<1>9. CASE GiveUp \/ Announce \/ Arrive \/ Placed \/ AddRecords \/ Prune \/ SaveBatch \/ Report \/ Close
  BY <1>1, <1>9 DEF GiveUp, Announce, Arrive, Placed, AddRecords, Prune, SaveBatch, Report, Close
<1>10. CASE Saving
  BY <1>1, <1>10 DEF Saving, ChangeSetting, WritePrevious, WriteRecords, WriteResults, FailSave
<1>11. CASE Crash \/ Replay \/ Boot \/ (\E damage \in Damages : Load(damage))
  BY <1>1, <1>11 DEF Crash, Replay, Boot, Load
<1>12. CASE UNCHANGED vars
  BY <1>1, <1>12 DEF vars
<1>13. QED
  BY <1>2, <1>3, <1>4, <1>6, <1>7, <1>8, <1>9, <1>10, <1>11, <1>12 DEF Next, Batch, World

\* What loadState reads is of the files there are.
LEMMA LoadedTyped ==
  ASSUME Types, NEW damage
  PROVE  /\ LoadedOut(damage) \in SUBSET Files
         /\ (IF damage = "results" THEN {} ELSE UNION {r.rows : r \in results}) \in SUBSET Files
<1>1. /\ \A r \in results : r.out \subseteq Files /\ r.rows \subseteq Files
      /\ \A q \in recs \cup prev : q \subseteq Files
  BY DEF Types
<1>2. /\ UNION {r.rows : r \in results} \subseteq Files
      /\ UNION {r.out : r \in results} \subseteq Files
      /\ UNION recs \subseteq Files /\ UNION prev \subseteq Files
  BY <1>1
<1>3. QED
  BY <1>2 DEF LoadedOut

\* So do the memory and the files on disk: sets of files, one generation each.
LEMMA StoreTyped ==
  Types /\ Control /\ Lines /\ [Next]_vars =>
    /\ out' \in SUBSET Files /\ rows' \in SUBSET Files
    /\ recs' = {} \/ \E q \in SUBSET Files : recs' = {q}
    /\ prev' = {} \/ \E q \in SUBSET Files : prev' = {q}
    /\ results' = {} \/ \E r \in [out : SUBSET Files, rows : SUBSET Files] : results' = {r}
<1> SUFFICES ASSUME Types, Control, Lines, [Next]_vars
             PROVE  /\ out' \in SUBSET Files /\ rows' \in SUBSET Files
                    /\ recs' = {} \/ \E q \in SUBSET Files : recs' = {q}
                    /\ prev' = {} \/ \E q \in SUBSET Files : prev' = {q}
                    /\ results' = {} \/ \E r \in [out : SUBSET Files, rows : SUBSET Files] : results' = {r}
  OBVIOUS
<1>1. CASE UNCHANGED <<memory, stored>>
  BY <1>1 DEF Types, memory, stored
<1>2. CASE AddRecords \/ Prune
  BY <1>2 DEF AddRecords, Prune, Types, stored
<1>3. CASE Saving
  <2>1. \A s \in Savers : /\ sv[s].out \in SUBSET Files
                          /\ [out |-> sv[s].out, rows |-> sv[s].rows] \in [out : SUBSET Files, rows : SUBSET Files]
    BY DEF Types, SnapType
  <2>2. QED
    BY <1>1, <1>3, <2>1 DEF Saving, ChangeSetting, WritePrevious, WriteRecords, WriteResults, FailSave,
                            Types, memory, stored
<1>4. CASE Replay
  <2>1. LandedBy(journal) \subseteq Files
    BY LineRead DEF LandedBy, Types, Steps
  <2>2. QED
    BY <1>4, <2>1 DEF Replay, Types, stored
<1>5. ASSUME NEW damage \in Damages, Load(damage)
      PROVE  /\ out' \in SUBSET Files /\ rows' \in SUBSET Files /\ UNCHANGED prev
             /\ recs' \in {recs, {}} /\ results' \in {results, {}}
  BY <1>5, LoadedTyped DEF Load, Types
<1>6. CASE \E damage \in Damages : Load(damage)
  BY <1>5, <1>6 DEF Types
<1>7. CASE Crash
  BY <1>7 DEF Crash, Types, stored
<1>8. CASE (\E req \in (SUBSET Files) \ {{}} : Begin(req)) \/ (\E f \in todo, route \in Routes : Start(f, route))
  BY <1>1, <1>8 DEF Begin, Start, BatchOnly
<1>9. CASE GiveUp \/ Announce \/ Ask \/ Arrive \/ Placed \/ SaveBatch \/ Report \/ Close
  BY <1>1, <1>9 DEF GiveUp, Announce, Ask, Arrive, Placed, SaveBatch, Report, Close, BatchOnly
<1>10. CASE Refuse \/ Fail \/ Unsettle \/ Land
  BY <1>1, <1>10 DEF Refuse, Fail, Unsettle, Land, Done, BatchOnly
<1>11. CASE Boot \/ (\E h \in asked : FinishHop(h) \/ FailHop(h)) \/ UNCHANGED vars
  BY <1>1, <1>11 DEF Boot, FinishHop, FailHop, vars
<1>12. QED
  BY <1>2, <1>3, <1>4, <1>6, <1>7, <1>8, <1>9, <1>10, <1>11 DEF Next, Batch, World

\* And the snapshots of the savers.
LEMMA SaversTyped ==
  Types /\ [Next]_vars => sv' \in [Savers -> SnapType] /\ persistMu' \in Savers \cup {NoSaver}
<1> SUFFICES ASSUME Types, [Next]_vars
             PROVE  sv' \in [Savers -> SnapType] /\ persistMu' \in Savers \cup {NoSaver}
  OBVIOUS
<1>1. CASE UNCHANGED saving
  BY <1>1 DEF Types, saving
<1>2. IdleSaver \in SnapType /\ \A at \in Stands : [IdleSaver EXCEPT !.at = at] \in SnapType
  BY DEF IdleSaver, SnapType, Stands
<1>3. ASSUME NEW at \in Stands, NEW o \in SUBSET Files, NEW r \in SUBSET Files
      PROVE  [at |-> at, out |-> o, rows |-> r] \in SnapType
  BY DEF SnapType
<1>4. ASSUME NEW s \in Savers, Snapshot(s) PROVE sv' \in [Savers -> SnapType]
  BY <1>3, <1>4 DEF Snapshot, Types, Stands
<1>5. ASSUME NEW s \in Savers, NEW how \in Stands, Ends(s, how) PROVE sv' \in [Savers -> SnapType]
  BY <1>2, <1>5 DEF Ends, Types
<1>6. CASE SaveBatch \/ ChangeSetting
  BY <1>4, <1>6 DEF SaveBatch, ChangeSetting, Types, Savers
<1>7. ASSUME NEW s \in Savers, WritePrevious(s) \/ WriteRecords(s)
      PROVE  sv' \in [Savers -> SnapType] /\ persistMu' \in Savers \cup {NoSaver}
  BY <1>7 DEF WritePrevious, WriteRecords, Types, SnapType, Stands
<1>8. CASE \E s \in Savers : WriteResults(s) \/ FailSave(s)
  BY <1>5, <1>8 DEF WriteResults, FailSave, Stands
<1>9. CASE Close \/ Crash \/ Boot
  BY <1>2, <1>9 DEF Close, Crash, Boot, Types
<1>10. CASE Replay
  <2>1. LandedBy(journal) \subseteq Files
    BY LineRead DEF LandedBy, Types, Steps
  <2>2. out' \in SUBSET Files /\ rows' \in SUBSET Files /\ rows \in SUBSET Files
    BY <1>10, <2>1 DEF Replay, Types
  <2>3. [at |-> "previous", out |-> out', rows |-> rows'] \in SnapType
    BY <1>3, <2>2 DEF Stands
  <2>4. QED
    BY <1>2, <1>10, <2>3 DEF Replay, Types
<1>11. CASE \E damage \in Damages : Load(damage)
  <2>1. PICK damage \in Damages : Load(damage)
    BY <1>11
  <2>2. out' \in SUBSET Files /\ rows' \in SUBSET Files
    BY <2>1, LoadedTyped DEF Load
  <2>3. [at |-> "previous", out |-> out', rows |-> rows'] \in SnapType
    BY <1>3, <2>2 DEF Stands
  <2>4. QED
    BY <2>1, <2>3 DEF Load, Types
<1>12. CASE (\E req \in (SUBSET Files) \ {{}} : Begin(req)) \/ (\E f \in todo, route \in Routes : Start(f, route))
  BY <1>1, <1>12 DEF Begin, Start, BatchOnly
<1>13. CASE GiveUp \/ Announce \/ Ask \/ Arrive \/ Placed \/ AddRecords \/ Prune \/ Report
  BY <1>1, <1>13 DEF GiveUp, Announce, Ask, Arrive, Placed, AddRecords, Prune, Report, BatchOnly
<1>14. CASE Refuse \/ Fail \/ Unsettle \/ Land
  BY <1>1, <1>14 DEF Refuse, Fail, Unsettle, Land, Done, BatchOnly
<1>15. CASE (\E h \in asked : FinishHop(h) \/ FailHop(h)) \/ UNCHANGED vars
  BY <1>1, <1>15 DEF FinishHop, FailHop, vars
<1>16. SaveBatch \/ Close \/ Crash \/ Boot => persistMu' \in Savers \cup {NoSaver}
  BY DEF SaveBatch, Close, Crash, Boot, Types
<1>17. ChangeSetting \/ Replay \/ (\E damage \in Damages : Load(damage)) => persistMu' \in Savers \cup {NoSaver}
  BY DEF ChangeSetting, Replay, Load, Types
<1>18. (\E s \in Savers : WriteResults(s) \/ FailSave(s)) => persistMu' \in Savers \cup {NoSaver}
  BY DEF WriteResults, FailSave
<1>19. QED
  BY <1>6, <1>7, <1>8, <1>9, <1>10, <1>11, <1>12, <1>13, <1>14, <1>15, <1>16, <1>17, <1>18
     DEF Next, Batch, Saving, World

\* And the batch: its sets, its phase, the file in hand and the hops left.
LEMMA BatchTyped ==
  Types /\ Control /\ [Next]_vars =>
    /\ todo' \in SUBSET Files /\ landed' \in SUBSET Files /\ gone' \in SUBSET Files
    /\ left' \in SUBSET Files /\ tried' \in SUBSET Files
    /\ pc' \in InBatch \cup {"idle", "down", "load", "boot"} /\ cur' \in Files \cup {NoFile}
    /\ legs' \in {<<>>, <<Direct>>, <<FromStage>>} \cup {<<l, FromStage>> : l \in ToStage}
<1> DEFINE Typed ==
      /\ todo' \in SUBSET Files /\ landed' \in SUBSET Files /\ gone' \in SUBSET Files
      /\ left' \in SUBSET Files /\ tried' \in SUBSET Files
      /\ pc' \in InBatch \cup {"idle", "down", "load", "boot"} /\ cur' \in Files \cup {NoFile}
      /\ legs' \in {<<>>, <<Direct>>, <<FromStage>>} \cup {<<l, FromStage>> : l \in ToStage}
<1> SUFFICES ASSUME Types, Control, [Next]_vars PROVE Typed
  OBVIOUS
<1>1. CASE UNCHANGED <<batch, left, tried>>
  BY <1>1 DEF Types, batch
<1>2. CASE \E req \in (SUBSET Files) \ {{}} : Begin(req)
  BY <1>2 DEF Types, Begin, InBatch, Active
<1>3. CASE \E f \in todo, route \in Routes : Start(f, route)
  BY <1>3, RoutesTyped DEF Types, Start, BatchOnly, history, InBatch, Active
<1>4. CASE GiveUp \/ Announce \/ Ask \/ Placed
  <2>1. Ask => cur \in Files
    BY DEF Ask, Control, Active
  <2>2. QED
    BY <1>4, <2>1 DEF Types, GiveUp, Announce, Ask, Placed, BatchOnly, history, InBatch, Active
<1>5. CASE Arrive
  <2>1. Tail(legs) \in {<<>>, <<FromStage>>}
    BY <1>5, LegsSay DEF Arrive, Control, Types
  <2>2. QED
    BY <1>5, <2>1 DEF Types, Arrive, BatchOnly, history, InBatch, Active
<1>6. CASE Refuse \/ Fail \/ Unsettle \/ Land
  <2>1. cur \in Files
    BY <1>6 DEF Refuse, Fail, Unsettle, Land, Control, Active
  <2>2. \E l, g, m \in BOOLEAN : Done(l, g, m)
    BY <1>6 DEF Refuse, Fail, Unsettle, Land
  <2>3. QED
    BY <2>1, <2>2 DEF Types, Done, BatchOnly, InBatch
<1>7. CASE AddRecords \/ Prune \/ SaveBatch \/ Report \/ Close
  BY <1>7 DEF Types, AddRecords, Prune, SaveBatch, Report, Close, history, InBatch, Active
<1>8. CASE Saving
  BY <1>1, <1>8 DEF Saving, ChangeSetting, WritePrevious, WriteRecords, WriteResults, FailSave, history
<1>9. CASE Crash \/ Replay \/ Boot \/ (\E damage \in Damages : Load(damage))
  BY <1>9 DEF Types, Crash, Replay, Boot, Load, history
<1>10. CASE (\E h \in asked : FinishHop(h) \/ FailHop(h)) \/ UNCHANGED vars
  BY <1>1, <1>10 DEF FinishHop, FailHop, vars, history
<1>11. QED
  BY <1>2, <1>3, <1>4, <1>5, <1>6, <1>7, <1>8, <1>9, <1>10 DEF Next, Batch, World

\* The report of an interrupted batch, too.
LEMMA ReportTyped ==
  Types /\ [Next]_vars =>
    told' \in [Files -> {"nothing", "still", "ahead", "staging", "placed", "moved", "failed"}]
<1> SUFFICES ASSUME Types, [Next]_vars
             PROVE  told' \in [Files -> {"nothing", "still", "ahead", "staging", "placed", "moved", "failed"}]
  OBVIOUS
<1>1. CASE UNCHANGED told
  BY <1>1 DEF Types
<1>2. CASE \E req \in (SUBSET Files) \ {{}} : Begin(req)
  BY <1>2 DEF Begin
<1>3. CASE Replay
  <2>1. CASE Begins(journal) = {}
    BY <1>1, <1>3, <2>1 DEF Replay, report
  <2>2. CASE Begins(journal) # {}
    <3>1. \A f : Tell(journal, f) \in {"still", "ahead", "staging", "placed", "moved", "failed"}
      BY <2>2, TellTyped DEF Types
    <3>2. QED
      BY <1>1, <1>3, <3>1 DEF Replay, report
  <2>3. QED
    BY <2>1, <2>2
<1>4. CASE GiveUp \/ Announce \/ Ask \/ Arrive \/ Placed \/ (\E f \in todo, route \in Routes : Start(f, route))
  BY <1>1, <1>4 DEF GiveUp, Announce, Ask, Arrive, Placed, Start, BatchOnly, report
<1>5. CASE Refuse \/ Fail \/ Unsettle \/ Land
  BY <1>1, <1>5 DEF Refuse, Fail, Unsettle, Land, Done, BatchOnly, report
<1>6. CASE AddRecords \/ Prune \/ SaveBatch \/ Report \/ Close
  BY <1>1, <1>6 DEF AddRecords, Prune, SaveBatch, Report, Close, report
<1>7. CASE Saving
  BY <1>1, <1>7 DEF Saving, ChangeSetting, WritePrevious, WriteRecords, WriteResults, FailSave, report
<1>8. CASE Crash \/ Boot \/ (\E damage \in Damages : Load(damage))
  BY <1>1, <1>8 DEF Crash, Boot, Load, report
<1>9. CASE (\E h \in asked : FinishHop(h) \/ FailHop(h)) \/ UNCHANGED vars
  BY <1>1, <1>9 DEF FinishHop, FailHop, vars, report
<1>10. QED
  BY <1>2, <1>3, <1>4, <1>5, <1>6, <1>7, <1>8, <1>9 DEF Next, Batch, World

LEMMA TypesStep == Types /\ Control /\ Lines /\ [Next]_vars => Types'
BY LinesTyped, TreeTyped, StoreTyped, SaversTyped, BatchTyped, ReportTyped DEF Types

-----------------------------------------------------------------------------
(* The phases and the savers.                                              *)

\* A step that leaves the batch, or the savers, alone.
LEMMA ControlStep == Types /\ Control /\ Lines /\ [Next]_vars => Control'
<1> SUFFICES ASSUME Types, Control, Lines, [Next]_vars PROVE Control'
  OBVIOUS
<1>1. /\ NoFile \notin Files /\ todo \subseteq Files /\ landed \subseteq Files /\ gone \subseteq Files
      /\ sv \in [Savers -> SnapType] /\ \A s \in Savers : sv[s] \in SnapType /\ sv[s].at \in Stands
      /\ "batch" \in Savers /\ "setting" \in Savers /\ "start" \in Savers /\ NoSaver \notin Savers
  BY FilesAssumption DEF Types, SnapType, Savers, NoSaver
<1>2. CASE UNCHANGED <<pc, todo, cur, legs, landed, gone, saving>>
  BY <1>2 DEF Control, saving
<1>3. CASE \E req \in (SUBSET Files) \ {{}} : Begin(req)
  BY <1>1, <1>3 DEF Begin, Control, saving, Active, InBatch
<1>4. CASE \E f \in todo, route \in Routes : Start(f, route)
  BY <1>1, <1>4, RoutesTyped DEF Start, BatchOnly, Control, saving, Active, InBatch
<1>5. CASE GiveUp
  BY <1>1, <1>5 DEF GiveUp, BatchOnly, Control, saving, Active, InBatch
<1>6. CASE Announce \/ Ask \/ Placed
  BY <1>1, <1>6 DEF Announce, Ask, Placed, BatchOnly, Control, saving, Active, InBatch
<1>7. CASE Arrive
  <2>1. Tail(legs) \in {<<>>, <<FromStage>>} /\ <<FromStage>> # <<>>
    BY <1>7, LegsSay DEF Arrive, Control, Types
  <2>2. QED
    BY <1>1, <1>7, <2>1 DEF Arrive, BatchOnly, Control, saving, Active, InBatch
<1>8. CASE Refuse \/ Fail \/ Unsettle \/ Land
  <2>1. pc \in Active /\ cur \in Files
    BY <1>8 DEF Refuse, Fail, Unsettle, Land, Control, Active
  <2>2. \E l, g, m \in BOOLEAN : Done(l, g, m)
    BY <1>8 DEF Refuse, Fail, Unsettle, Land
  <2>3. QED
    BY <1>1, <2>1, <2>2 DEF Done, BatchOnly, Control, saving, Active, InBatch
<1>9. CASE AddRecords \/ Prune \/ Report
  BY <1>1, <1>9 DEF AddRecords, Prune, Report, Control, saving, Active, InBatch, Stands
<1>10. CASE SaveBatch
  BY <1>1, <1>10 DEF SaveBatch, Snapshot, Control, Active, InBatch, Savers
<1>11. CASE Close
  BY <1>1, <1>11 DEF Close, Control, Active, InBatch, Savers, IdleSaver
<1>12. CASE ChangeSetting
  BY <1>1, <1>12 DEF ChangeSetting, Snapshot, Control, Active, InBatch, Savers, batch, Up
<1>13. CASE \E s \in Savers : WritePrevious(s) \/ WriteRecords(s)
  BY <1>1, <1>13 DEF WritePrevious, WriteRecords, Control, Savers, batch, SnapType
<1>14. CASE \E s \in Savers : WriteResults(s) \/ FailSave(s)
  BY <1>1, <1>14 DEF WriteResults, FailSave, Ends, Control, Savers, batch, IdleSaver
<1>15. CASE Crash
  BY <1>1, <1>15 DEF Crash, Control, Active, InBatch, IdleSaver, Savers
<1>16. CASE Replay
  BY <1>1, <1>16 DEF Replay, Control, Active, InBatch, Savers, IdleSaver
<1>17. CASE Boot
  BY <1>1, <1>17 DEF Boot, Control, Active, InBatch, Savers, IdleSaver
<1>18. CASE \E damage \in Damages : Load(damage)
  <2>1. PICK damage \in Damages : Load(damage)
    BY <1>18
  <2>2. /\ pc = "down" /\ pc' = "load" /\ UNCHANGED <<todo, cur, legs, landed, gone, persistMu>>
        /\ \/ sv' = sv
           \/ sv' = [sv EXCEPT !["start"] = [at |-> "previous", out |-> out', rows |-> rows']]
    BY <2>1 DEF Load
  <2>3. /\ \A s \in Savers : sv[s].at = "idle"
        /\ \A s \in Savers : persistMu # s
    BY <2>2 DEF Control, IdleSaver
  <2>4. /\ sv'["batch"].at = "idle" /\ sv'["setting"].at = "idle"
        /\ sv'["start"].at \in {"idle", "previous"}
    BY <1>1, <2>2, <2>3
  <2>5. QED
    BY <1>1, <2>2, <2>3, <2>4 DEF Control, Active, InBatch, Savers
<1>19. CASE (\E h \in asked : FinishHop(h) \/ FailHop(h)) \/ UNCHANGED vars
  BY <1>2, <1>19 DEF FinishHop, FailHop, vars, batch, saving
<1>20. QED
  BY <1>3, <1>4, <1>5, <1>6, <1>7, <1>8, <1>9, <1>10, <1>11, <1>12, <1>13, <1>14, <1>15, <1>16, <1>17,
     <1>18, <1>19 DEF Next, Batch, Saving, World

\* A journal begins with a batch, and what is written after that leaves it so.
LEMMA FirstLine ==
  ASSUME Types, Lines, NEW x \in LineType, NEW d \in BOOLEAN, Write(x, d),
         journal # <<>> \/ (x.kind = "begin" /\ d)
  PROVE  journal' # <<>> /\ synced' > 0 /\ journal'[1].kind = "begin"
<1>1. /\ journal' # <<>> /\ synced' \in Nat /\ synced <= synced' /\ synced \in Nat /\ Len(journal) \in Nat
      /\ d => synced' = Len(journal) + 1
      /\ Len(journal') = Len(journal) + 1 /\ LastLine' = x
  BY Wrote
<1>2. CASE journal # <<>>
  <2>1. Len(journal) > 0 /\ synced > 0 /\ journal[1].kind = "begin"
    BY <1>2 DEF Lines, Types
  <2>2. journal'[1] = journal[1]
    BY <1>1, <2>1, Wrote
  <2>3. QED
    BY <1>1, <2>1, <2>2
<1>3. CASE journal = <<>>
  <2>1. Len(journal) = 0
    BY <1>3, EmptySeq
  <2>2. Len(journal') = 1 /\ LastLine' = x
    BY <1>1, <2>1
  <2>3. QED
    BY <1>1, <1>3, <2>1, <2>2 DEF LastLine
<1>4. QED
  BY <1>2, <1>3

LEMMA LinesStep == Types /\ Control /\ Lines /\ [Next]_vars => Lines'
<1> SUFFICES ASSUME Types, Control, Lines, [Next]_vars PROVE Lines'
  OBVIOUS
<1> DEFINE First == journal' # <<>> => synced' > 0 /\ journal'[1].kind = "begin"
           Last == /\ pc' = "line" => \/ LastLine' = StepLine("start", cur')
                                      \/ legs' = <<FromStage>> /\ LastLine' = StepLine("staging", cur')
                   /\ pc' \in {"ask", "wait"} => LastLine' = StepLine(Head(legs').line, cur')
                                                 /\ synced' = Len(journal')
                   /\ pc' \in {"landed", "placed"} =>
                        /\ LastLine' = StepLine("ahead", cur') \/ LastLine' = StepLine("placed", cur')
                        /\ synced' = Len(journal')
           Goal == First /\ (pc' \in InBatch => journal' # <<>>) /\ Last
<1>1. SUFFICES Goal
  BY <1>1 DEF Lines
<1>2. CASE UNCHANGED lines /\ (pc' \in InBatch => pc \in InBatch)
           /\ pc' \notin {"line", "ask", "wait", "landed", "placed"}
  BY <1>2 DEF Lines, lines
<1>3. CASE UNCHANGED <<lines, pc, cur, legs>>
  BY <1>3 DEF Lines, lines, LastLine
<1>4. ASSUME NEW x \in LineType, NEW d \in BOOLEAN, Write(x, d), journal # <<>>,
             pc' \notin {"line", "ask", "wait", "landed", "placed"}
      PROVE  Goal
  BY <1>4, FirstLine
<1>5. CASE \E req \in (SUBSET Files) \ {{}} : Begin(req)
  <2>1. PICK req \in (SUBSET Files) \ {{}} : Begin(req)
    BY <1>5
  <2>2. BeginLine(req) \in LineType /\ BeginLine(req).kind = "begin" /\ Write(BeginLine(req), TRUE)
    BY <2>1, LineMade, LineSays DEF Begin
  <2>3. First /\ journal' # <<>>
    BY <2>2, FirstLine
  <2>4. pc' = "next"
    BY <2>1 DEF Begin
  <2>5. QED
    BY <2>3, <2>4
<1>6. CASE \E f \in todo, route \in Routes : Start(f, route)
  <2>1. PICK f \in todo, route \in Routes : Start(f, route)
    BY <1>6
  <2>2. StepLine("start", f) \in LineType /\ Write(StepLine("start", f), FALSE) /\ pc = "next" /\ pc' = "line"
        /\ cur' = f
    BY <2>1, LineMade DEF Start, Types, Steps
  <2>3. journal # <<>>
    BY <2>2 DEF Lines, InBatch
  <2>4. First /\ journal' # <<>> /\ LastLine' = StepLine("start", f)
    BY <2>2, <2>3, FirstLine, Wrote
  <2>5. QED
    BY <2>2, <2>4
<1>7. CASE Announce
  <2>1. cur \in Files /\ Head(legs).line \in Steps /\ journal # <<>>
    BY <1>7, LegsSay DEF Announce, Control, Active, InBatch, Types, Steps, Lines
  <2>2. StepLine(Head(legs).line, cur) \in LineType /\ Write(StepLine(Head(legs).line, cur), TRUE)
    BY <1>7, <2>1, LineMade DEF Announce
  <2>3. First /\ journal' # <<>> /\ LastLine' = StepLine(Head(legs).line, cur) /\ synced' = Len(journal')
    BY <2>1, <2>2, FirstLine, Wrote
  <2>4. pc' = "ask" /\ legs' = legs /\ cur' = cur
    BY <1>7 DEF Announce, BatchOnly
  <2>5. QED
    BY <2>3, <2>4
<1>8. CASE Ask
  BY <1>8 DEF Ask, BatchOnly, Lines, lines, LastLine, Active, InBatch
<1>9. CASE Arrive
  <2>1. /\ pc = "wait" /\ legs' = Tail(legs) /\ UNCHANGED <<lines, cur>>
        /\ pc' = IF Tail(legs) = <<>> THEN "landed" ELSE "line"
    BY <1>9 DEF Arrive, BatchOnly
  <2>2. /\ Tail(legs) \in {<<>>, <<FromStage>>}
        /\ Head(legs).line = IF Tail(legs) = <<>> THEN "ahead" ELSE "staging"
    BY <2>1, LegsSay DEF Control, Types
  <2>3. /\ LastLine = StepLine(Head(legs).line, cur) /\ synced = Len(journal) /\ journal # <<>>
        /\ journal # <<>> => synced > 0 /\ journal[1].kind = "begin"
    BY <2>1 DEF Lines, Active, InBatch
  <2>4. QED
    BY <2>1, <2>2, <2>3 DEF lines, LastLine
<1>10. CASE Placed
  <2>1. /\ pc = "landed" /\ pc' = "placed" /\ UNCHANGED <<cur, legs>>
        /\ Write(StepLine("placed", cur), TRUE) \/ UNCHANGED lines
    BY <1>10 DEF Placed, BatchOnly
  <2>2. StepLine("placed", cur) \in LineType /\ journal # <<>>
    BY <2>1, LineMade DEF Control, Active, InBatch, Steps, Lines
  <2>3. CASE Write(StepLine("placed", cur), TRUE)
    BY <2>1, <2>2, <2>3, FirstLine, Wrote
  <2>4. CASE UNCHANGED lines
    BY <2>1, <2>4 DEF Lines, lines, LastLine, Active, InBatch
  <2>5. QED
    BY <2>1, <2>3, <2>4
<1>11. CASE Refuse \/ Fail \/ Unsettle \/ Land
  <2>1. pc \in Active /\ cur \in Files /\ journal # <<>> /\ pc \in InBatch
    BY <1>11 DEF Refuse, Fail, Unsettle, Land, Control, Active, InBatch, Lines
  <2>2. PICK l \in BOOLEAN, g \in BOOLEAN, m \in BOOLEAN : Done(l, g, m)
    BY <1>11 DEF Refuse, Fail, Unsettle, Land
  <2>3. DoneLine(cur, l, g, m) \in LineType /\ (l \/ g) \in BOOLEAN
    BY <2>1, <2>2, DoneTyped
  <2>4. pc' = "next" /\ (UNCHANGED lines \/ Write(DoneLine(cur, l, g, m), l \/ g))
    BY <2>2 DEF Done
  <2>5. QED
    BY <1>2, <1>4, <2>1, <2>3, <2>4
<1>12. CASE Close
  <2>1. pc' = "idle" /\ journal # <<>> /\ pc' \notin InBatch
    BY <1>12 DEF Close, Lines, Active, InBatch
  <2>2. UNCHANGED lines \/ Write(EndLine, TRUE) \/ journal' = <<>>
    BY <1>12 DEF Close
  <2>3. QED
    BY <1>2, <1>4, <2>1, <2>2, LineMade
<1>13. CASE Crash
  <2>1. PICK n \in synced..Len(journal) : journal' = SubSeq(journal, 1, n) /\ synced' = n
    BY <1>13 DEF Crash
  <2>2. /\ Len(journal) \in Nat /\ n \in 0..Len(journal) /\ Len(journal') = n
        /\ \A i \in 1..n : journal'[i] = journal[i]
    BY <2>1, Kept DEF Types
  <2>3. pc' = "down" /\ pc' \notin InBatch
    BY <1>13 DEF Crash, InBatch, Active
  <2>4. First
    <3>1. SUFFICES ASSUME journal' # <<>> PROVE synced' > 0 /\ journal'[1].kind = "begin"
      OBVIOUS
    <3>2. journal' \in Seq(LineType)
      BY LinesTyped
    <3>3. n > 0 /\ journal # <<>>
      BY <2>2, <3>1, <3>2 DEF Types
    <3>4. QED
      BY <2>1, <2>2, <3>3 DEF Lines
  <2>5. QED
    BY <2>3, <2>4
<1>14. CASE Boot
  BY <1>2, <1>14 DEF Boot, InBatch, Active
<1>15. CASE GiveUp \/ Saving \/ (\E h \in asked : FinishHop(h) \/ FailHop(h)) \/ UNCHANGED vars
  BY <1>3, <1>15 DEF GiveUp, BatchOnly, Saving, ChangeSetting, WritePrevious, WriteRecords, WriteResults,
                     FailSave, FinishHop, FailHop, vars, batch
<1>16. CASE AddRecords \/ Prune \/ SaveBatch \/ Report
  BY <1>2, <1>16 DEF AddRecords, Prune, SaveBatch, Report, InBatch, Active
<1>17. CASE Replay \/ \E damage \in Damages : Load(damage)
  BY <1>2, <1>17 DEF Replay, Load, InBatch, Active
<1>18. QED
  BY <1>5, <1>6, <1>7, <1>8, <1>9, <1>10, <1>11, <1>12, <1>13, <1>14, <1>15, <1>16, <1>17
     DEF Next, Batch, World

-----------------------------------------------------------------------------
(* The files on disk and what they are written from.                       *)

\* Only a saver and the start of the daemon touch the two files, and a step
\* that loses something says so.
LEMMA StoredSteps ==
  [Next]_vars =>
    /\ \/ UNCHANGED <<recs, results, lapses>>
       \/ \E s \in Savers : WriteRecords(s) \/ WriteResults(s)
       \/ \E damage \in Damages : Load(damage)
       \/ Close /\ UNCHANGED <<recs, results>>
    /\ lapses' = {} => lapses = {}
<1> SUFFICES ASSUME [Next]_vars
             PROVE  /\ \/ UNCHANGED <<recs, results, lapses>>
                       \/ \E s \in Savers : WriteRecords(s) \/ WriteResults(s)
                       \/ \E damage \in Damages : Load(damage)
                       \/ Close /\ UNCHANGED <<recs, results>>
                    /\ lapses' = {} => lapses = {}
  OBVIOUS
<1>1. CASE UNCHANGED <<recs, results, lapses>>
  BY <1>1
<1>2. CASE (\E req \in (SUBSET Files) \ {{}} : Begin(req)) \/ (\E f \in todo, route \in Routes : Start(f, route))
  BY <1>1, <1>2 DEF Begin, Start, BatchOnly, stored, history
<1>3. CASE GiveUp \/ Announce \/ Ask \/ Arrive \/ Placed
  BY <1>1, <1>3 DEF GiveUp, Announce, Ask, Arrive, Placed, BatchOnly, stored, history
<1>4. CASE Refuse \/ Fail \/ Unsettle \/ Land
  BY <1>1, <1>4 DEF Refuse, Fail, Unsettle, Land, Done, BatchOnly, stored
<1>5. CASE AddRecords \/ Prune \/ SaveBatch \/ Report
  BY <1>1, <1>5 DEF AddRecords, Prune, SaveBatch, Report, stored, history
<1>6. CASE Close
  BY <1>6 DEF Close, stored
<1>7. CASE ChangeSetting \/ (\E s \in Savers : WritePrevious(s) \/ FailSave(s))
  BY <1>1, <1>7 DEF ChangeSetting, WritePrevious, FailSave, stored, history
<1>8. CASE \E s \in Savers : WriteRecords(s) \/ WriteResults(s)
  BY <1>8 DEF WriteRecords, WriteResults, history
<1>9. CASE \E damage \in Damages : Load(damage)
  BY <1>9 DEF Load, history
<1>10. CASE Crash \/ Replay \/ Boot \/ (\E h \in asked : FinishHop(h) \/ FailHop(h)) \/ UNCHANGED vars
  BY <1>1, <1>10 DEF Crash, Replay, Boot, FinishHop, FailHop, vars, stored, history
<1>11. QED
  BY <1>2, <1>3, <1>4, <1>5, <1>6, <1>7, <1>8, <1>9, <1>10 DEF Next, Batch, Saving, World

\* A saver at its second or third file is alone there.
LEMMA OneWriter ==
  Control => \A s, t \in Savers : sv[s].at \in {"records", "results"}
                                  /\ sv[t].at \in {"records", "results"} => s = t
BY DEF Control

\* A saver that has not lagged behind: what loses nothing keeps a safe file safe.
LEMMA DiskSafeKept ==
  ASSUME Types, Control, Memory, [Next]_vars, lapses' = {}, NEW f, DiskSafe(f)
  PROVE  DiskSafe(f)'
<1>1. CASE UNCHANGED <<recs, results>>
  BY <1>1 DEF DiskSafe
<1>2. ASSUME NEW s \in Savers, WriteRecords(s) PROVE DiskSafe(f)'
  <2>1. recs' = {sv[s].out} /\ results' = results /\ sv[s].at = "records"
    BY <1>2 DEF WriteRecords
  <2>2. ~Overtaken(s)
    BY <1>2 DEF WriteRecords
  <2>3. CASE recs = {}
    <3>1. PICK r \in results : f \in r.out
      BY <2>3 DEF DiskSafe
    <3>2. r.out \subseteq sv[s].out
      BY <2>1, <2>3 DEF Memory
    <3>3. QED
      BY <2>1, <3>1, <3>2 DEF DiskSafe
  <2>4. CASE recs # {}
    <3>1. f \in UNION recs
      BY <2>4 DEF DiskSafe
    <3>2. f \in sv[s].out
      BY <2>2, <3>1 DEF Overtaken
    <3>3. QED
      BY <2>1, <3>2 DEF DiskSafe
  <2>5. QED
    BY <2>3, <2>4
<1>3. ASSUME NEW s \in Savers, WriteResults(s) PROVE DiskSafe(f)'
  <2>1. recs' = recs /\ recs = {sv[s].out} /\ results' = {[out |-> sv[s].out, rows |-> sv[s].rows]}
    BY <1>3 DEF WriteResults, Memory
  <2>2. QED
    BY <2>1 DEF DiskSafe
<1>4. ASSUME NEW damage \in Damages, Load(damage) PROVE DiskSafe(f)'
  <2>1. /\ recs' = (IF damage = "records" THEN {} ELSE recs)
        /\ results' = (IF damage = "results" THEN {} ELSE results)
        /\ damage \in {"records", "results"} => recs # {} /\ results # {}
        /\ damage \in {"neither", "records", "results"}
    BY <1>4 DEF Load, Damages
  <2>2. QED
    BY <2>1 DEF DiskSafe
<1>5. QED
  BY <1>1, <1>2, <1>3, <1>4, StoredSteps

\* Nor does it bring a row back into the results file.
LEMMA CleanKept ==
  ASSUME Types, Control, Memory, Saved, [Next]_vars, lapses' = {}, NEW f, Clean(f)
  PROVE  Clean(f)'
<1>1. CASE results' \subseteq results
  BY <1>1 DEF Clean
<1>2. ASSUME NEW s \in Savers, WriteResults(s) PROVE Clean(f)'
  <2>1. results' = {[out |-> sv[s].out, rows |-> sv[s].rows]} /\ sv[s].at = "results"
    BY <1>2 DEF WriteResults
  <2>2. f \notin sv[s].rows
    <3>1. CASE results = {}
      BY <3>1 DEF Memory
    <3>2. CASE results # {}
      <4>1. PICK r \in results : TRUE
        BY <3>2
      <4>2. lapses = {}
        BY StoredSteps
      <4>3. sv[s].rows \subseteq r.rows
        BY <2>1, <4>1, <4>2 DEF Saved
      <4>4. QED
        BY <4>1, <4>3 DEF Clean
    <3>3. QED
      BY <3>1, <3>2
  <2>3. QED
    BY <2>1, <2>2 DEF Clean
<1>3. ASSUME NEW damage \in Damages, Load(damage) PROVE results' \subseteq results
  BY <1>3 DEF Load
<1>4. (\E s \in Savers : WriteRecords(s)) => results' \subseteq results
  BY DEF WriteRecords
<1>5. QED
  BY <1>1, <1>2, <1>3, <1>4, StoredSteps

LEMMA MemoryStep == Types /\ Control /\ Memory /\ [Next]_vars => Memory'
<1> SUFFICES ASSUME Types, Control, Memory, [Next]_vars PROVE Memory'
  OBVIOUS
<1> DEFINE Ahead == pc # "down" => /\ \A q \in recs : q \subseteq out
                                   /\ \A r \in results : r.out \subseteq out
                                   /\ \A s \in Savers : sv[s].out \subseteq out
           Refill == recs = {} => \A r \in results, s \in Savers :
                                   sv[s].at \in {"previous", "records"} => r.out \subseteq sv[s].out
           Half == \A s \in Savers : sv[s].at = "results" => recs = {sv[s].out}
           Whole == \A s \in {"batch", "start"} :
                      sv[s].at \in Written => sv[s].out = out /\ sv[s].rows = rows
           Counted == pc \in {"prune", "save", "report", "close"} => landed \subseteq out
           NoRows == results = {} => rows = {} /\ \A s \in Savers : sv[s].rows = {}
<1>0. Memory' <=> Ahead' /\ Refill' /\ Half' /\ Whole' /\ Counted' /\ NoRows'
  BY DEF Memory
<1>1. /\ "batch" \in Savers /\ "setting" \in Savers /\ "start" \in Savers
      /\ sv \in [Savers -> SnapType]
      /\ \A s \in Savers : sv[s].out \subseteq Files /\ sv[s].rows \subseteq Files /\ sv[s].at \in Stands
  BY DEF Types, SnapType, Savers
<1>2. CASE /\ UNCHANGED <<memory, recs, results, sv>> /\ (pc = "down" => pc' = "down")
           /\ pc' \in {"prune", "save", "report", "close"} =>
                landed' = landed /\ pc \in {"prune", "save", "report", "close"}
  BY <1>2 DEF Memory, memory
<1>3. CASE (\E req \in (SUBSET Files) \ {{}} : Begin(req)) \/ (\E f \in todo, route \in Routes : Start(f, route))
  BY <1>2, <1>3 DEF Begin, Start, BatchOnly, stored, saving
<1>4. CASE GiveUp \/ Announce \/ Ask \/ Arrive \/ Placed
  BY <1>2, <1>4 DEF GiveUp, Announce, Ask, Arrive, Placed, BatchOnly, stored, saving
<1>5. CASE Refuse \/ Fail \/ Unsettle \/ Land
  BY <1>2, <1>5 DEF Refuse, Fail, Unsettle, Land, Done, BatchOnly, stored, saving
<1>6. CASE Report
  BY <1>2, <1>6 DEF Report, stored, saving
<1>7. CASE AddRecords \/ Prune
  <2>1. /\ \A s \in {"batch", "start"} : sv[s].at \notin Written
        /\ pc # "down"
    BY <1>7 DEF AddRecords, Prune, Control, Written
  <2>2. /\ UNCHANGED <<recs, results, sv, landed>> /\ out \subseteq out' /\ rows' \subseteq rows
        /\ landed \subseteq out'
    BY <1>7 DEF AddRecords, Prune, stored, saving, Memory
  <2>3. QED
    BY <2>1, <2>2 DEF Memory
<1>8. ASSUME NEW s \in Savers, Snapshot(s), UNCHANGED <<memory, stored, landed>>, pc # "down",
             pc' \in {"prune", "save", "report", "close"} => pc \in {"prune", "save", "report", "close"}
      PROVE  Memory'
  <2>1. /\ sv' = [sv EXCEPT ![s] = [at |-> "previous", out |-> out, rows |-> rows]]
        /\ UNCHANGED <<out, rows, recs, results, landed>>
    BY <1>8 DEF Snapshot, memory, stored
  <2>2. /\ sv'[s].at = "previous" /\ sv'[s].out = out /\ sv'[s].rows = rows
        /\ \A t \in Savers \ {s} : sv'[t] = sv[t]
    BY <1>1, <2>1
  <2>3. QED
    BY <1>1, <1>8, <2>1, <2>2 DEF Memory
<1>9. CASE SaveBatch \/ ChangeSetting
  BY <1>1, <1>8, <1>9 DEF SaveBatch, ChangeSetting, Up, batch
<1>10. ASSUME NEW s \in Savers, WritePrevious(s) PROVE Memory'
  <2>1. /\ sv[s].at = "previous" /\ sv' = [sv EXCEPT ![s].at = "records"]
        /\ UNCHANGED <<out, rows, recs, results, landed, pc>>
    BY <1>10 DEF WritePrevious, memory, batch
  <2>2. \A t \in Savers : /\ sv'[t].out = sv[t].out /\ sv'[t].rows = sv[t].rows
                          /\ sv'[t].at = IF t = s THEN "records" ELSE sv[t].at
    BY <1>1, <2>1 DEF SnapType
  <2>3. QED
    BY <1>1, <2>1, <2>2 DEF Memory, Written
<1>11. ASSUME NEW s \in Savers, WriteRecords(s) PROVE Memory'
  <2>1. /\ sv[s].at = "records" /\ sv' = [sv EXCEPT ![s].at = "results"] /\ recs' = {sv[s].out}
        /\ UNCHANGED <<out, rows, results, landed, pc>>
    BY <1>11 DEF WriteRecords, memory, batch
  <2>2. \A t \in Savers : /\ sv'[t].out = sv[t].out /\ sv'[t].rows = sv[t].rows
                          /\ sv'[t].at = IF t = s THEN "results" ELSE sv[t].at
    BY <1>1, <2>1 DEF SnapType
  <2>3. \A t \in Savers : sv'[t].at = "results" => t = s
    BY <2>1, <2>2, OneWriter
  <2>4. pc # "down"
    BY <2>1 DEF Control, IdleSaver
  <2>5. sv[s].out \subseteq out /\ sv'[s].out = sv[s].out /\ recs' = {sv'[s].out}
    BY <2>1, <2>2, <2>4 DEF Memory
  <2>6. Ahead'
    BY <2>1, <2>2, <2>4, <2>5 DEF Memory
  <2>7. Refill' /\ Half'
    BY <2>3, <2>5
  <2>8. Whole'
    BY <1>1, <2>1, <2>2 DEF Memory, Written
  <2>9. Counted' /\ NoRows'
    BY <1>1, <2>1, <2>2 DEF Memory
  <2>10. QED
    BY <1>0, <2>6, <2>7, <2>8, <2>9
<1>12. ASSUME NEW s \in Savers, NEW how \in {"saved", "failed"}, Ends(s, how) PROVE
         /\ sv'[s].at \in {"idle", "saved", "failed"} /\ sv'[s].out = {} /\ sv'[s].rows = {}
         /\ \A t \in Savers \ {s} : sv'[t] = sv[t]
  BY <1>1, <1>12 DEF Ends, IdleSaver
<1>13. ASSUME NEW s \in Savers, WriteResults(s) PROVE Memory'
  <2>1. /\ sv[s].at = "results" /\ Ends(s, "saved") /\ results' = {[out |-> sv[s].out, rows |-> sv[s].rows]}
        /\ UNCHANGED <<out, rows, recs, landed, pc>>
    BY <1>13 DEF WriteResults, memory, batch
  <2>2. pc # "down"
    BY <2>1 DEF Control, IdleSaver
  <2>3. recs = {sv[s].out} /\ sv[s].out \subseteq out
    BY <2>1, <2>2 DEF Memory
  <2>4. \A t \in Savers \ {s} : sv'[t].at # "results"
    BY <1>12, <2>1, OneWriter
  <2>5. sv'[s].at \in {"idle", "saved"} /\ sv'[s].out = {} /\ sv'[s].rows = {}
        /\ \A u \in Savers \ {s} : sv'[u] = sv[u]
    BY <1>1, <2>1 DEF Ends, IdleSaver
  <2>6. Ahead' /\ Refill' /\ Half'
    BY <1>1, <2>1, <2>2, <2>3, <2>4, <2>5 DEF Memory
  <2>7. Whole'
    BY <1>1, <2>1, <2>5 DEF Memory, Written
  <2>8. Counted' /\ NoRows'
    BY <2>1 DEF Memory
  <2>9. QED
    BY <1>0, <2>6, <2>7, <2>8
<1>14. ASSUME NEW s \in Savers, FailSave(s) PROVE Memory'
  <2>1. Ends(s, "failed") /\ UNCHANGED <<out, rows, recs, results, landed, pc>>
    BY <1>14 DEF FailSave, memory, batch, stored
  <2>2. QED
    BY <1>1, <1>12, <2>1 DEF Memory, Written
<1>15. CASE Close \/ Boot
  <2>1. /\ \E s \in {"batch", "start"} : sv' = [sv EXCEPT ![s] = IdleSaver]
        /\ UNCHANGED <<out, rows, recs, results>> /\ pc' = "idle" /\ pc # "down"
    BY <1>15 DEF Close, Boot, memory, stored
  <2>2. QED
    BY <1>1, <2>1 DEF Memory, Written, IdleSaver
<1>16. CASE Crash
  <2>1. /\ sv' = [s \in Savers |-> IdleSaver] /\ pc' = "down" /\ rows' = {}
    BY <1>16 DEF Crash
  <2>2. \A s \in Savers : sv'[s] = IdleSaver
    BY <2>1
  <2>3. QED
    BY <1>1, <2>1, <2>2 DEF Memory, Written, IdleSaver
<1>17. CASE Replay
  <2>1. /\ out \subseteq out' /\ rows' \subseteq rows /\ UNCHANGED <<recs, results, landed>> /\ pc = "load"
        /\ pc' \in {"idle", "boot"}
    BY <1>17 DEF Replay, stored
  <2>2. \E a \in {IdleSaver, [at |-> "previous", out |-> out', rows |-> rows']} :
          sv' = [sv EXCEPT !["start"] = a]
    BY <1>17 DEF Replay
  <2>3. /\ sv["batch"].at = "idle" /\ \A s \in Savers \ {"start"} : sv'[s] = sv[s]
        /\ sv'["start"] \in {IdleSaver, [at |-> "previous", out |-> out', rows |-> rows']}
    BY <1>1, <2>1, <2>2 DEF Control
  <2>4. /\ sv'["start"].at \in {"idle", "previous"} /\ sv'["start"].out \subseteq out'
        /\ sv'["start"].rows \subseteq rows'
        /\ sv'["start"].at = "previous" => sv'["start"].out = out' /\ sv'["start"].rows = rows'
    BY <2>3 DEF IdleSaver
  <2>5. /\ \A s \in Savers \ {"start"} : sv'[s] = sv[s]
        /\ sv'["batch"].at = "idle" /\ \A s \in Savers : s = "start" \/ s \in Savers \ {"start"}
    BY <1>1, <2>3
  <2>6. Ahead'
    BY <2>1, <2>4, <2>5 DEF Memory
  <2>7. Refill' /\ Half'
    BY <2>1, <2>4, <2>5, <2>6 DEF Memory
  <2>8. Whole'
    BY <2>4, <2>5 DEF Written
  <2>9. Counted' /\ NoRows'
    BY <2>1, <2>4, <2>5 DEF Memory
  <2>10. QED
    BY <1>0, <2>6, <2>7, <2>8, <2>9
<1>18. ASSUME NEW damage \in Damages, Load(damage) PROVE Memory'
  <2>1. /\ pc = "down" /\ pc' = "load"
        /\ out' = LoadedOut(damage)
        /\ rows' = (IF damage = "results" THEN {} ELSE UNION {r.rows : r \in results})
        /\ recs' = (IF damage = "records" THEN {} ELSE recs)
        /\ results' = (IF damage = "results" THEN {} ELSE results)
        /\ \E a \in {sv["start"], [at |-> "previous", out |-> out', rows |-> rows']} :
             sv' = [sv EXCEPT !["start"] = a]
    BY <1>1, <1>18 DEF Load
  <2>2. /\ \A q \in recs' : q \subseteq out'
        /\ \A r \in results' : r.out \subseteq out' /\ r.rows \subseteq rows'
        /\ results' = {} => rows' = {}
    BY <2>1 DEF LoadedOut
  <2>3. /\ \A s \in Savers \ {"start"} : sv'[s] = IdleSaver
        /\ sv'["start"] \in {IdleSaver, [at |-> "previous", out |-> out', rows |-> rows']}
    BY <1>1, <2>1 DEF Control
  <2>4. sv'["start"].at \in {"idle", "previous"} /\ sv'["start"].out \subseteq out'
        /\ sv'["start"].rows \subseteq rows'
        /\ sv'["start"].at = "previous" => sv'["start"].out = out' /\ sv'["start"].rows = rows'
    BY <2>3 DEF IdleSaver
  <2>5. QED
    BY <1>1, <2>1, <2>2, <2>3, <2>4 DEF Memory, Written, IdleSaver
<1>19. CASE (\E h \in asked : FinishHop(h) \/ FailHop(h)) \/ UNCHANGED vars
  BY <1>2, <1>19 DEF FinishHop, FailHop, vars, stored, saving, batch
<1>20. QED
  BY <1>3, <1>4, <1>5, <1>6, <1>7, <1>9, <1>10, <1>11, <1>13, <1>14, <1>15, <1>16, <1>17, <1>18, <1>19
     DEF Next, Batch, Saving, World

LEMMA SavedStep == Types /\ Control /\ Memory /\ Saved /\ [Next]_vars => Saved'
<1> SUFFICES ASSUME Types, Control, Memory, Saved, [Next]_vars, lapses' = {}
             PROVE  /\ \A s \in Savers, r \in results' : sv'[s].at = "results" => sv'[s].rows \subseteq r.rows
                    /\ \A s \in {"batch", "start"} : sv'[s].at = "saved" =>
                         /\ \A f \in out' : DiskSafe(f)'
                         /\ \A r \in results' : r.rows \subseteq rows'
  BY DEF Saved
<1>1. /\ "batch" \in Savers /\ "setting" \in Savers /\ "start" \in Savers
      /\ sv \in [Savers -> SnapType] /\ lapses = {}
  BY StoredSteps DEF Types, Savers
<1>2. \A f \in out : (\E s \in {"batch", "start"} : sv[s].at = "saved") => DiskSafe(f) /\ DiskSafe(f)'
  BY <1>1, DiskSafeKept DEF Saved
<1>3. CASE /\ UNCHANGED <<out, rows, results>>
           /\ \A s \in Savers : sv'[s].at \in {"results", "saved"} => sv'[s] = sv[s]
  BY <1>1, <1>2, <1>3 DEF Saved, Savers
<1>4. CASE \A s \in Savers : sv'[s].at \notin {"results", "saved"}
  BY <1>1, <1>4
<1>5. ASSUME NEW s \in Savers, WriteRecords(s) PROVE Saved'
  <2>1. /\ sv[s].at = "records" /\ sv' = [sv EXCEPT ![s].at = "results"] /\ ~Overtaken(s)
        /\ UNCHANGED <<out, rows, results>>
    BY <1>5 DEF WriteRecords, memory
  <2>2. \A t \in Savers : /\ sv'[t].rows = sv[t].rows
                          /\ sv'[t].at = IF t = s THEN "results" ELSE sv[t].at
    BY <1>1, <2>1 DEF SnapType
  <2>3. \A t \in Savers : sv'[t].at = "results" => t = s
    BY <2>1, <2>2, OneWriter
  <2>4. \A r \in results : sv[s].rows \subseteq r.rows
    BY <2>1 DEF Overtaken
  <2>5. QED
    BY <1>1, <1>2, <2>1, <2>2, <2>3, <2>4 DEF Saved
<1>6. ASSUME NEW s \in Savers, WriteResults(s) PROVE Saved'
  <2>1. /\ sv[s].at = "results" /\ Ends(s, "saved") /\ results' = {[out |-> sv[s].out, rows |-> sv[s].rows]}
        /\ UNCHANGED <<out, rows, recs>> /\ recs = {sv[s].out}
    BY <1>6 DEF WriteResults, memory, Memory
  <2>2. /\ sv'[s].at \in {"idle", "saved"} /\ (s = "setting" => sv'[s].at = "idle")
        /\ \A t \in Savers \ {s} : sv'[t] = sv[t]
    BY <1>1, <2>1 DEF Ends, IdleSaver
  <2>3. \A t \in Savers : sv'[t].at # "results"
    BY <2>1, <2>2, OneWriter
  <2>4. s \in {"batch", "start"} => /\ \A f \in out : DiskSafe(f)'
                                    /\ sv[s].rows = rows
    <3>1. s \in {"batch", "start"} => sv[s].out = out /\ sv[s].rows = rows
      BY <2>1 DEF Memory, Written
    <3>2. QED
      BY <2>1, <3>1 DEF DiskSafe
  <2>5. \A t \in {"batch", "start"} : sv[t].at = "saved" => sv[s].rows \subseteq rows
    <3>1. CASE results = {}
      BY <3>1 DEF Memory
    <3>2. CASE results # {}
      BY <1>1, <2>1, <3>2 DEF Saved
    <3>3. QED
      BY <3>1, <3>2
  <2>6. ASSUME NEW t \in {"batch", "start"}, sv'[t].at = "saved"
        PROVE  (\A f \in out' : DiskSafe(f)') /\ \A r \in results' : r.rows \subseteq rows'
    <3>1. CASE t = s
      BY <2>1, <2>4, <3>1
    <3>2. CASE t # s
      BY <1>1, <1>2, <2>1, <2>2, <2>5, <2>6, <3>2
    <3>3. QED
      BY <3>1, <3>2
  <2>7. QED
    BY <2>3, <2>6 DEF Saved
<1>7. CASE (\E req \in (SUBSET Files) \ {{}} : Begin(req)) \/ (\E f \in todo, route \in Routes : Start(f, route))
  BY <1>3, <1>7 DEF Begin, Start, BatchOnly, memory, stored, saving
<1>8. CASE GiveUp \/ Announce \/ Ask \/ Arrive \/ Placed
  BY <1>3, <1>8 DEF GiveUp, Announce, Ask, Arrive, Placed, BatchOnly, memory, stored, saving
<1>9. CASE Refuse \/ Fail \/ Unsettle \/ Land
  BY <1>3, <1>9 DEF Refuse, Fail, Unsettle, Land, Done, BatchOnly, memory, stored, saving
<1>10. CASE Report
  BY <1>3, <1>10 DEF Report, memory, stored, saving
<1>11. CASE AddRecords \/ Prune
  <2>1. /\ \A s \in {"batch", "start"} : sv[s].at = "idle"
        /\ UNCHANGED <<results, sv>>
    BY <1>11 DEF AddRecords, Prune, Control, stored, saving
  <2>2. QED
    BY <1>1, <2>1 DEF Saved
<1>12. CASE SaveBatch \/ ChangeSetting \/ \E s \in Savers : WritePrevious(s)
  <2>1. UNCHANGED <<out, rows, results>>
    BY <1>12 DEF SaveBatch, ChangeSetting, WritePrevious, memory, stored
  <2>2. \A s \in Savers : sv'[s] = sv[s] \/ sv'[s].at \in {"previous", "records"}
    BY <1>1, <1>12 DEF SaveBatch, ChangeSetting, WritePrevious, Snapshot, SnapType
  <2>3. QED
    BY <1>3, <2>1, <2>2
<1>13. CASE \E s \in Savers : FailSave(s)
  <2>1. UNCHANGED <<out, rows, results>>
    BY <1>13 DEF FailSave, memory, stored
  <2>2. \A s \in Savers : sv'[s] = sv[s] \/ sv'[s].at \in {"idle", "failed"}
    BY <1>1, <1>13 DEF FailSave, Ends, IdleSaver
  <2>3. QED
    BY <1>3, <2>1, <2>2
<1>14. CASE Close \/ Boot
  <2>1. UNCHANGED <<out, rows, results>> /\ \E s \in Savers : sv' = [sv EXCEPT ![s] = IdleSaver]
    BY <1>1, <1>14 DEF Close, Boot, memory, stored
  <2>2. \A s \in Savers : sv'[s] = sv[s] \/ sv'[s].at = "idle"
    BY <1>1, <2>1 DEF IdleSaver
  <2>3. QED
    BY <1>3, <2>1, <2>2
<1>15. CASE Crash
  BY <1>4, <1>15 DEF Crash, IdleSaver
<1>16. CASE Replay
  <2>1. pc = "load" /\ results' = results
        /\ \E a \in {IdleSaver, [at |-> "previous", out |-> out', rows |-> rows']} :
             sv' = [sv EXCEPT !["start"] = a]
    BY <1>16 DEF Replay, stored
  <2>2. /\ sv["batch"].at = "idle" /\ \A s \in Savers \ {"start"} : sv'[s] = sv[s]
        /\ sv'["start"].at \in {"idle", "previous"}
    BY <1>1, <2>1 DEF Control, IdleSaver
  <2>3. QED
    BY <1>1, <2>1, <2>2 DEF Saved
<1>17. CASE \E damage \in Damages : Load(damage)
  <2>1. pc = "down"
        /\ \E a \in {sv["start"], [at |-> "previous", out |-> out', rows |-> rows']} :
             sv' = [sv EXCEPT !["start"] = a]
    BY <1>1, <1>17 DEF Load
  <2>2. \A s \in Savers : sv'[s].at \in {"idle", "previous"}
    BY <1>1, <2>1 DEF Control, IdleSaver
  <2>3. QED
    BY <1>4, <2>2
<1>18. CASE (\E h \in asked : FinishHop(h) \/ FailHop(h)) \/ UNCHANGED vars
  BY <1>3, <1>18 DEF FinishHop, FailHop, vars, memory, stored, saving
<1>19. QED
  BY <1>5, <1>6, <1>7, <1>8, <1>9, <1>10, <1>11, <1>12, <1>13, <1>14, <1>15, <1>16, <1>17, <1>18
     DEF Next, Batch, Saving, World, Saved

-----------------------------------------------------------------------------
(* The report of a batch cut short.                                        *)

LEMMA AnnouncedAppended ==
  ASSUME NEW s \in Seq(LineType), NEW x \in LineType, NEW n \in 0..Len(s), NEW m \in {n, Len(s) + 1},
         NEW f, Announced(s, n, f), x.kind # "begin", ~(x.kind = "start" /\ x.file = f)
  PROVE  Announced(Append(s, x), m, f)
<1> DEFINE t == Append(s, x)
<1>1. /\ Len(s) \in Nat /\ n \in Nat /\ m \in Nat /\ n <= m /\ n <= Len(s) /\ Len(t) = Len(s) + 1
      /\ t[Len(s) + 1] = x /\ \A j \in 1..Len(s) : t[j] = s[j]
  BY Appended
<1> HIDE DEF t
<1>2. PICK i \in 1..n :
        /\ s[i].kind \in {"ahead", "staging"} /\ s[i].file = f
        /\ \A k \in (i + 1)..Len(s) : s[k].kind # "begin" /\ ~(s[k].kind = "start" /\ s[k].file = f)
  BY DEF Announced
<1>3. i \in 1..m /\ t[i] = s[i]
  BY <1>1
<1>4. \A k \in (i + 1)..Len(t) : t[k].kind # "begin" /\ ~(t[k].kind = "start" /\ t[k].file = f)
  <2> SUFFICES ASSUME NEW k \in (i + 1)..Len(t)
               PROVE  t[k].kind # "begin" /\ ~(t[k].kind = "start" /\ t[k].file = f)
    OBVIOUS
  <2>1. k \in (i + 1)..Len(s) \/ k = Len(s) + 1
    BY <1>1
  <2>2. k \in (i + 1)..Len(s) => t[k] = s[k]
    BY <1>1, <1>3
  <2>3. QED
    BY <1>1, <1>2, <2>1, <2>2
<1>5. QED
  BY <1>2, <1>3, <1>4 DEF Announced, t

LEMMA AnnouncedLast ==
  ASSUME NEW s \in Seq(LineType), s # <<>>, s[Len(s)].kind \in {"ahead", "staging"}
  PROVE  Announced(s, Len(s), s[Len(s)].file)
<1>1. Len(s) \in Nat /\ Len(s) > 0
  OBVIOUS
<1>2. QED
  BY <1>1 DEF Announced

LEMMA AnnouncedKept ==
  ASSUME NEW s \in Seq(LineType), NEW n \in 0..Len(s), NEW m \in n..Len(s), NEW f, Announced(s, n, f)
  PROVE  Announced(SubSeq(s, 1, m), m, f)
<1> DEFINE t == SubSeq(s, 1, m)
<1>1. /\ Len(s) \in Nat /\ m \in Nat /\ n \in Nat /\ n <= m /\ m <= Len(s)
      /\ Len(t) = m /\ \A i \in 1..m : t[i] = s[i]
  BY Kept
<1> HIDE DEF t
<1>2. PICK i \in 1..n :
        /\ s[i].kind \in {"ahead", "staging"} /\ s[i].file = f
        /\ \A k \in (i + 1)..Len(s) : s[k].kind # "begin" /\ ~(s[k].kind = "start" /\ s[k].file = f)
  BY DEF Announced
<1>3. i \in 1..m /\ t[i] = s[i] /\ \A k \in (i + 1)..Len(t) : k \in (i + 1)..Len(s) /\ t[k] = s[k]
  BY <1>1
<1>4. QED
  BY <1>2, <1>3 DEF Announced, t

LEMMA TriedStep == Types /\ Control /\ Lines /\ Tried /\ [Next]_vars => Tried'
<1> SUFFICES ASSUME Types, Control, Lines, Tried, [Next]_vars PROVE Tried'
  OBVIOUS
<1>1. journal \in Seq(LineType) /\ synced \in 0..Len(journal) /\ tried \subseteq Files /\ Len(journal) \in Nat
  BY DEF Types
<1>2. ASSUME UNCHANGED <<told, tried>>, pc' \in InBatch => pc \in InBatch, todo' \subseteq todo,
             UNCHANGED lines \/ journal' = <<>>
      PROVE  Tried'
  BY <1>2 DEF Tried, lines
<1>3. ASSUME NEW x \in LineType, NEW d \in BOOLEAN, Write(x, d), journal # <<>>, x.kind # "begin",
             x.kind = "start" => x.file \notin tried,
             UNCHANGED <<told, tried>>, pc' \in InBatch => pc \in InBatch, todo' \subseteq todo
      PROVE  Tried'
  <2>1. \A f \in tried : Announced(journal, synced, f)
    BY <1>3 DEF Tried
  <2>2. journal' = Append(journal, x) /\ synced' \in {synced, Len(journal) + 1}
    BY <1>3, Wrote
  <2>3. \A f \in tried : Announced(Append(journal, x), synced', f)
    BY <1>1, <1>3, <2>1, <2>2, AnnouncedAppended
  <2>4. QED
    BY <1>3, <2>2, <2>3 DEF Tried
<1>4. CASE \E req \in (SUBSET Files) \ {{}} : Begin(req)
  BY <1>4 DEF Begin, Tried
<1>5. CASE \E f \in todo, route \in Routes : Start(f, route)
  <2>1. PICK f \in todo, route \in Routes : Start(f, route)
    BY <1>5
  <2>2. /\ StepLine("start", f) \in LineType /\ Write(StepLine("start", f), FALSE)
        /\ StepLine("start", f).kind = "start" /\ StepLine("start", f).file = f
    <3>1. StepLine("start", f) \in LineType /\ Write(StepLine("start", f), FALSE)
      BY <2>1, LineMade DEF Start, Types, Steps
    <3>2. QED
      BY <3>1, LineSays
  <2>3. pc = "next" /\ todo' \subseteq todo /\ UNCHANGED <<told, tried>>
    BY <2>1 DEF Start, BatchOnly, report, history
  <2>4. pc \in InBatch /\ journal # <<>> /\ f \notin tried
    BY <2>1, <2>3 DEF InBatch, Lines, Tried
  <2>5. QED
    BY <1>3, <2>2, <2>3, <2>4
<1>6. CASE Announce
  <2>1. cur \in Files /\ Head(legs).line \in {"ahead", "staging"} /\ pc \in InBatch /\ journal # <<>>
    BY <1>6, LegsSay DEF Announce, Control, Active, InBatch, Types, Lines
  <2>2. /\ StepLine(Head(legs).line, cur) \in LineType /\ Write(StepLine(Head(legs).line, cur), TRUE)
        /\ StepLine(Head(legs).line, cur).kind = Head(legs).line
    <3>1. StepLine(Head(legs).line, cur) \in LineType /\ Write(StepLine(Head(legs).line, cur), TRUE)
      BY <1>6, <2>1, LineMade DEF Announce, Steps
    <3>2. QED
      BY <3>1, LineSays
  <2>3. UNCHANGED <<told, tried, todo>>
    BY <1>6 DEF Announce, BatchOnly, report, history
  <2>4. QED
    BY <1>3, <2>1, <2>2, <2>3
<1>7. CASE Ask
  <2>1. /\ pc = "ask" /\ tried' = tried \cup {cur} /\ pc' \in InBatch
        /\ UNCHANGED <<lines, told, todo>>
    BY <1>7 DEF Ask, BatchOnly, report, InBatch, Active
  <2>2. /\ pc \in InBatch /\ cur \in Files /\ cur \notin todo /\ journal # <<>>
        /\ Head(legs).line \in {"ahead", "staging"}
        /\ journal[Len(journal)] = StepLine(Head(legs).line, cur) /\ synced = Len(journal)
    BY <2>1, LegsSay DEF Control, Active, InBatch, Lines, LastLine, Types
  <2>3. Announced(journal, synced, cur)
    BY <1>1, <2>2, AnnouncedLast, LineSays
  <2>4. QED
    BY <2>1, <2>2, <2>3 DEF Tried, lines
<1>8. CASE Placed
  <2>1. /\ pc = "landed" /\ UNCHANGED <<told, tried, todo>>
        /\ Write(StepLine("placed", cur), TRUE) \/ UNCHANGED lines
    BY <1>8 DEF Placed, BatchOnly, report, history
  <2>2. /\ StepLine("placed", cur) \in LineType /\ journal # <<>> /\ pc \in InBatch
        /\ StepLine("placed", cur).kind = "placed"
    BY <2>1, LineMade, LineSays DEF Control, Active, InBatch, Steps, Lines
  <2>3. QED
    BY <1>2, <1>3, <2>1, <2>2
<1>9. CASE Refuse \/ Fail \/ Unsettle \/ Land
  <2>1. pc \in Active /\ journal # <<>> /\ pc \in InBatch
    BY <1>9 DEF Refuse, Fail, Unsettle, Land, Active, InBatch, Lines
  <2>2. PICK l \in BOOLEAN, g \in BOOLEAN, m \in BOOLEAN : Done(l, g, m)
    BY <1>9 DEF Refuse, Fail, Unsettle, Land
  <2>3. DoneLine(cur, l, g, m) \in LineType /\ (l \/ g) \in BOOLEAN /\ DoneLine(cur, l, g, m).kind = "done"
    BY <2>1, <2>2, DoneTyped, LineSays
  <2>4. /\ UNCHANGED <<told, tried>> /\ todo' \subseteq todo
        /\ UNCHANGED lines \/ Write(DoneLine(cur, l, g, m), l \/ g)
    BY <2>2 DEF Done, BatchOnly, report
  <2>5. QED
    BY <1>2, <1>3, <2>1, <2>3, <2>4
<1>10. CASE Close
  <2>1. pc' = "idle" /\ journal # <<>> /\ pc' \notin InBatch /\ UNCHANGED <<told, tried, todo>>
    BY <1>10 DEF Close, Lines, Active, InBatch, report
  <2>2. UNCHANGED lines \/ Write(EndLine, TRUE) \/ journal' = <<>>
    BY <1>10 DEF Close
  <2>3. EndLine \in LineType /\ EndLine.kind = "end"
    BY LineMade, LineSays
  <2>4. QED
    BY <1>2, <1>3, <2>1, <2>2, <2>3
<1>11. CASE Crash
  <2>1. PICK n \in synced..Len(journal) : journal' = SubSeq(journal, 1, n) /\ synced' = n
    BY <1>11 DEF Crash
  <2>2. pc' \notin InBatch /\ UNCHANGED <<told, tried>> /\ todo' = {}
    BY <1>11 DEF Crash, InBatch, Active, report, history
  <2>3. journal' # <<>> => journal # <<>>
    BY <1>1, <2>1, Kept, SubSeqEmpty, EmptySeq
  <2>4. \A f \in tried : journal' # <<>> => Announced(journal', synced', f)
    BY <1>1, <2>1, <2>3, AnnouncedKept DEF Tried
  <2>5. QED
    BY <2>2, <2>4 DEF Tried
<1>12. CASE Replay
  <2>1. /\ UNCHANGED <<lines, tried, todo>> /\ pc' \notin InBatch
    BY <1>12 DEF Replay, history, InBatch, Active
  <2>2. CASE UNCHANGED told
    BY <1>2, <2>1, <2>2
  <2>3. CASE told' # told
    <3>1. /\ Begins(journal) # {}
          /\ told' = [f \in Files |-> IF f \in journal[LastBegin(journal)].files
                                      THEN Tell(journal, f) ELSE "nothing"]
      BY <1>12, <2>3 DEF Replay, report
    <3>2. journal # <<>>
      BY <3>1 DEF Begins
    <3>3. \A f \in tried : told'[f] # "still"
      BY <1>1, <3>1, <3>2, TellAnnounced DEF Tried
    <3>4. QED
      BY <2>1, <3>3 DEF Tried, lines
  <2>4. QED
    BY <2>2, <2>3
<1>13. CASE Boot
  BY <1>2, <1>13 DEF Boot, InBatch, Active, report, history
<1>14. CASE \E damage \in Damages : Load(damage)
  BY <1>2, <1>14 DEF Load, InBatch, Active, report, history
<1>15. CASE GiveUp \/ Arrive
  BY <1>2, <1>15 DEF GiveUp, Arrive, BatchOnly, InBatch, Active, report, history
<1>16. CASE AddRecords \/ Prune \/ SaveBatch \/ Report
  BY <1>2, <1>16 DEF AddRecords, Prune, SaveBatch, Report, InBatch, Active, report, history
<1>17. CASE Saving
  BY <1>2, <1>17 DEF Saving, ChangeSetting, WritePrevious, WriteRecords, WriteResults, FailSave, report,
                     history, batch
<1>18. CASE (\E h \in asked : FinishHop(h) \/ FailHop(h)) \/ UNCHANGED vars
  BY <1>2, <1>18 DEF FinishHop, FailHop, vars, report, history, batch
<1>19. QED
  BY <1>4, <1>5, <1>6, <1>7, <1>8, <1>9, <1>10, <1>11, <1>12, <1>13, <1>14, <1>15, <1>16, <1>17, <1>18
     DEF Next, Batch, World

-----------------------------------------------------------------------------
(* The rows of what left.                                                  *)

\* A journal of one batch has no line of an earlier one.
LEMMA OneBegin ==
  ASSUME NEW s \in Seq(LineType), s # <<>>, s[1].kind = "begin", ~(Cardinality(Begins(s)) > 1),
         NEW n \in 0..Len(s), NEW f
  PROVE  ~CoveredFor(s, n, f, {"begin"}) /\ ~PrunedFor(s, n, f, {"begin"})
<1>1. Len(s) \in Nat /\ Len(s) > 0 /\ DOMAIN s = 1..Len(s) /\ n \in Nat
  OBVIOUS
<1>2. SUFFICES ASSUME NEW i \in 1..n, Barred(s, i, {"begin"}) PROVE FALSE
  BY <1>2 DEF CoveredFor, PrunedFor
<1>3. PICK k \in (i + 1)..Len(s) : s[k].kind = "begin"
  BY <1>2 DEF Barred
<1>4. 1 \in Begins(s) /\ k \in Begins(s) /\ k # 1 /\ Begins(s) \subseteq 1..Len(s)
  BY <1>1, <1>3 DEF Begins
<1>5. IsFiniteSet(Begins(s))
  <2>1. IsFiniteSet(1..Len(s))
    BY <1>1, FS_Interval
  <2>2. QED
    BY <1>4, <2>1, FS_Subset
<1> DEFINE T == {1} \cup {k}
<1>6. IsFiniteSet({1}) /\ Cardinality({1}) = 1 /\ k \notin {1}
  BY <1>4, FS_Singleton
<1>7. Cardinality(T) = 2
  <2>1. Cardinality(T) = Cardinality({1}) + 1
    BY <1>6, FS_AddElement
  <2>2. QED
    BY <1>6, <2>1
<1>8. T \in SUBSET Begins(s)
  BY <1>4
<1> HIDE DEF T
<1>9. Cardinality(T) <= Cardinality(Begins(s)) /\ Cardinality(Begins(s)) \in Nat
  BY <1>5, <1>8, FS_Subset, FS_CardinalityType
<1>10. QED
  BY <1>7, <1>9

\* A step within the batch, or within what comes between two, that writes at
\* most one line leaves the row of a file that has left gone or going.
LEMMA RowGoesOn ==
  ASSUME Types, Control, Memory, Saved, [Next]_vars, lapses' = {}, NEW f, RowGone(f), RowGoes(f),
         UNCHANGED lines \/ \E x \in LineType, d \in BOOLEAN : Write(x, d),
         pc' \in InBatch <=> pc \in InBatch, gone \subseteq gone', rows' \subseteq rows,
         pc = "load" => pc' = "load",
         pc \in Active \cup {"next", "prune"} => pc' \in Active \cup {"next", "prune"}
  PROVE  RowGone(f)' /\ RowGoes(f)'
<1>1. journal \in Seq(LineType) /\ synced \in 0..Len(journal)
  BY DEF Types
<1>2. Pruned(journal, synced, f) => Pruned(journal', synced', f)
  <2>1. CASE UNCHANGED lines
    BY <2>1 DEF lines
  <2>2. ASSUME NEW x \in LineType, NEW d \in BOOLEAN, Write(x, d)
        PROVE  Pruned(journal, synced, f) => Pruned(journal', synced', f)
    BY <1>1, <2>2, Wrote, PrunedAppended
  <2>3. QED
    BY <2>1, <2>2
<1>3. PrunedFor(journal, synced, f, {"begin"}) => PrunedFor(journal', synced', f, {"begin"})
  <2>1. CASE UNCHANGED lines
    BY <2>1 DEF lines
  <2>2. ASSUME NEW x \in LineType, NEW d \in BOOLEAN, Write(x, d)
        PROVE  PrunedFor(journal, synced, f, {"begin"}) => PrunedFor(journal', synced', f, {"begin"})
    BY <1>1, <2>2, Wrote, PrunedAppended
  <2>3. QED
    BY <2>1, <2>2
<1>4. RowGone(f)'
  BY <1>2 DEF RowGone
<1>5. Clean(f) => Clean(f)'
  BY CleanKept
<1>6. RowGoes(f)'
  BY <1>2, <1>3, <1>5 DEF RowGoes
<1>7. QED
  BY <1>4, <1>6

LEMMA RowsStep == Types /\ Control /\ Lines /\ Memory /\ Saved /\ Rows /\ [Next]_vars => Rows'
<1> SUFFICES ASSUME Types, Control, Lines, Memory, Saved, Rows, [Next]_vars, lapses' = {}, NEW f \in left'
             PROVE  RowGone(f)' /\ RowGoes(f)'
  BY DEF Rows
<1>1. /\ lapses = {} /\ journal \in Seq(LineType) /\ synced \in 0..Len(journal) /\ Len(journal) \in Nat
      /\ f \in left => RowGone(f) /\ RowGoes(f)
      /\ Clean(f) => Clean(f)'
  <2>1. lapses = {}
    BY StoredSteps
  <2>2. journal \in Seq(LineType) /\ synced \in 0..Len(journal) /\ Len(journal) \in Nat
    BY DEF Types
  <2>3. f \in left => RowGone(f) /\ RowGoes(f)
    BY <2>1 DEF Rows
  <2>4. Clean(f) => Clean(f)'
    BY CleanKept
  <2>5. QED
    BY <2>1, <2>2, <2>3, <2>4
<1>2. ASSUME f \in left, UNCHANGED lines \/ \E x \in LineType, d \in BOOLEAN : Write(x, d),
             pc' \in InBatch <=> pc \in InBatch, gone \subseteq gone', rows' \subseteq rows,
             pc = "load" => pc' = "load",
             pc \in Active \cup {"next", "prune"} => pc' \in Active \cup {"next", "prune"}
      PROVE  RowGone(f)' /\ RowGoes(f)'
  BY <1>1, <1>2, RowGoesOn
<1>3. CASE \E req \in (SUBSET Files) \ {{}} : Begin(req)
  <2>1. PICK req \in (SUBSET Files) \ {{}} : Begin(req)
    BY <1>3
  <2>2. BeginLine(req) \in LineType /\ BeginLine(req).kind = "begin" /\ Write(BeginLine(req), TRUE)
    BY <2>1, LineMade, LineSays DEF Begin
  <2>3. /\ pc = "idle" /\ pc' = "next" /\ UNCHANGED <<rows, left>>
    BY <2>1 DEF Begin, memory
  <2>4. Pruned(journal, synced, f) => PrunedFor(journal', synced', f, {"begin"})
    BY <1>1, <2>2, Wrote, PrunedAppended
  <2>5. RowGone(f)'
    BY <1>1, <2>3 DEF RowGone, Active
  <2>6. RowGoes(f)'
    BY <1>1, <2>3, <2>4 DEF RowGoes, InBatch, Active
  <2>7. QED
    BY <2>5, <2>6
<1>4. CASE \E g \in todo, route \in Routes : Start(g, route)
  <2>1. PICK g \in todo, route \in Routes : Start(g, route)
    BY <1>4
  <2>2. StepLine("start", g) \in LineType /\ Write(StepLine("start", g), FALSE)
    BY <2>1, LineMade DEF Start, Types, Steps
  <2>3. pc = "next" /\ pc' = "line" /\ UNCHANGED <<rows, left, gone>>
    BY <2>1 DEF Start, BatchOnly, memory, history
  <2>4. QED
    BY <1>2, <2>2, <2>3 DEF InBatch, Active
<1>5. CASE Announce
  <2>1. cur \in Files /\ Head(legs).line \in Steps /\ pc \in Active /\ pc' \in Active
    BY <1>5, LegsSay DEF Announce, Control, Active, Types, Steps
  <2>2. StepLine(Head(legs).line, cur) \in LineType /\ Write(StepLine(Head(legs).line, cur), TRUE)
    BY <1>5, <2>1, LineMade DEF Announce
  <2>3. UNCHANGED <<rows, left, gone>>
    BY <1>5 DEF Announce, BatchOnly, memory, history
  <2>4. QED
    BY <1>2, <2>1, <2>2, <2>3 DEF InBatch, Active
<1>6. CASE Placed
  <2>1. /\ pc = "landed" /\ pc' = "placed" /\ UNCHANGED <<rows, left, gone>>
        /\ Write(StepLine("placed", cur), TRUE) \/ UNCHANGED lines
    BY <1>6 DEF Placed, BatchOnly, memory, history
  <2>2. StepLine("placed", cur) \in LineType
    BY <2>1, LineMade DEF Control, Active, Steps
  <2>3. QED
    BY <1>2, <2>1, <2>2 DEF InBatch, Active
<1>7. CASE Refuse \/ Fail \/ Unsettle \/ Land
  <2>1. pc \in Active
    BY <1>7 DEF Refuse, Fail, Unsettle, Land, Active
  <2>2. PICK l \in BOOLEAN, g \in BOOLEAN, m \in BOOLEAN : Done(l, g, m)
    BY <1>7 DEF Refuse, Fail, Unsettle, Land
  <2>3. /\ DoneLine(cur, l, g, m) \in LineType /\ (l \/ g) \in BOOLEAN /\ DoneLine(cur, l, g, m).kind = "done"
        /\ DoneLine(cur, l, g, m).gone = g /\ DoneLine(cur, l, g, m).file = cur
    BY <2>1, <2>2, DoneTyped, LineSays
  <2>4. /\ pc' = "next" /\ UNCHANGED rows /\ gone' = (IF g THEN gone \cup {cur} ELSE gone)
        /\ UNCHANGED lines \/ Write(DoneLine(cur, l, g, m), l \/ g)
    BY <2>2 DEF Done, BatchOnly, memory
  <2>5. CASE f \in left
    BY <1>2, <2>1, <2>3, <2>4, <2>5 DEF InBatch, Active
  <2>6. CASE f \notin left
    <3>1. Write(DoneLine(cur, l, g, m), l \/ g) /\ g /\ f = cur
      BY <2>2, <2>6 DEF Done
    <3>2. journal' = Append(journal, DoneLine(cur, l, g, m)) /\ synced' = Len(journal) + 1
      BY <2>3, <3>1, Wrote
    <3>3. Pruned(journal', synced', f)
      BY <1>1, <2>3, <3>1, <3>2, PrunedAppended
    <3>4. QED
      BY <2>4, <3>1, <3>3 DEF RowGone, RowGoes
  <2>7. QED
    BY <2>5, <2>6
<1>8. CASE Prune
  <2>1. /\ pc = "prune" /\ pc' \in {"report", "save"} /\ rows' = rows \ gone
        /\ UNCHANGED <<gone, left, journal, synced>>
    BY <1>8 DEF Prune, lines, history
  <2>2. RowGone(f)'
    BY <1>1, <2>1 DEF RowGone
  <2>3. RowGoes(f)'
    BY <1>1, <2>1 DEF RowGoes, InBatch
  <2>4. QED
    BY <2>2, <2>3
<1>9. CASE Close
  <2>1. /\ pc = "close" /\ pc' = "idle" /\ UNCHANGED <<rows, left>> /\ pc \in InBatch /\ journal # <<>>
    BY <1>9 DEF Close, memory, InBatch, Lines
  <2>2. f \notin rows
    BY <1>1, <2>1 DEF RowGone, Active
  <2>3. CASE sv["batch"].at = "failed"
    <3>1. (UNCHANGED lines \/ Write(EndLine, TRUE)) /\ EndLine \in LineType
      BY <1>9, <2>3, LineMade DEF Close
    <3>2. Pruned(journal, synced, f) => Pruned(journal', synced', f)
      BY <1>1, <3>1, Wrote, PrunedAppended DEF lines
    <3>3. PrunedFor(journal, synced, f, {"begin"}) => Pruned(journal', synced', f)
      BY <3>2, BarForgotten
    <3>4. RowGoes(f)'
      BY <1>1, <2>1, <3>2, <3>3 DEF RowGoes, InBatch, Active
    <3>5. QED
      BY <2>1, <2>2, <3>4 DEF RowGone
  <2>4. CASE sv["batch"].at = "saved"
    <3>1. Clean(f)
      BY <1>1, <2>2, <2>4 DEF Saved, Clean
    <3>2. QED
      BY <1>1, <2>1, <2>2, <3>1 DEF RowGone, RowGoes
  <2>5. CASE sv["batch"].at = "idle"
    <3>1. gone = {}
      BY <2>1, <2>5 DEF Control
    <3>2. ~(Cardinality(Begins(journal)) > 1)
      BY <1>9, <2>5 DEF Close
    <3>3. ~PrunedFor(journal, synced, f, {"begin"})
      BY <1>1, <2>1, <3>2, OneBegin DEF Lines
    <3>4. Clean(f)
      BY <1>1, <2>1, <3>1, <3>3 DEF RowGoes
    <3>5. QED
      BY <1>1, <2>1, <2>2, <3>4 DEF RowGone, RowGoes
  <2>6. QED
    BY <2>1, <2>3, <2>4, <2>5 DEF Control
<1>10. CASE Crash
  <2>1. PICK n \in synced..Len(journal) : journal' = SubSeq(journal, 1, n) /\ synced' = n
    BY <1>10 DEF Crash
  <2>2. rows' = {} /\ pc' = "down" /\ left' = left
    BY <1>10 DEF Crash, history
  <2>3. Pruned(journal, synced, f) => Pruned(journal', synced', f)
    BY <1>1, <2>1, PrunedKept
  <2>4. PrunedFor(journal, synced, f, {"begin"}) => Pruned(journal', synced', f)
    BY <2>3, BarForgotten
  <2>5. RowGoes(f)'
    BY <1>1, <2>2, <2>3, <2>4 DEF RowGoes, InBatch, Active
  <2>6. QED
    BY <2>2, <2>5 DEF RowGone
<1>11. CASE \E damage \in Damages : Load(damage)
  <2>1. PICK damage \in Damages : Load(damage)
    BY <1>11
  <2>2. /\ pc = "down" /\ pc' = "load" /\ UNCHANGED <<left, journal, synced>>
        /\ rows' = (IF damage = "results" THEN {} ELSE UNION {r.rows : r \in results})
    BY <2>1 DEF Load, lines, history
  <2>3. Clean(f) \/ Pruned(journal, synced, f)
    BY <1>1, <2>2 DEF RowGoes, InBatch, Active
  <2>4. RowGone(f)'
    BY <2>2, <2>3 DEF RowGone, Clean
  <2>5. RowGoes(f)'
    BY <1>1, <2>2, <2>3 DEF RowGoes, InBatch, Active
  <2>6. QED
    BY <2>4, <2>5
<1>12. CASE Replay
  <2>1. /\ pc = "load" /\ pc' \in {"idle", "boot"} /\ UNCHANGED <<left, journal, synced>>
        /\ rows' = rows \ GoneBy(journal)
    BY <1>12 DEF Replay, lines, history
  <2>2. f \notin rows \/ f \in GoneBy(journal)
    BY <1>1, <2>1, Replayed DEF RowGone, Active
  <2>3. RowGoes(f)'
    BY <1>1, <2>1 DEF RowGoes, InBatch, Active
  <2>4. QED
    BY <2>1, <2>2, <2>3 DEF RowGone
<1>13. CASE Boot
  <2>1. pc = "boot" /\ pc' = "idle" /\ UNCHANGED <<rows, left>> /\ f \notin rows
    BY <1>1, <1>13 DEF Boot, memory, history, RowGone, Active
  <2>2. CASE sv["start"].at = "saved"
    <3>1. Clean(f)
      BY <1>1, <2>1, <2>2 DEF Saved, Clean
    <3>2. QED
      BY <1>1, <2>1, <3>1 DEF RowGone, RowGoes
  <2>3. CASE sv["start"].at # "saved"
    <3>1. UNCHANGED <<journal, synced>>
      BY <1>13, <2>3 DEF Boot, lines
    <3>2. RowGoes(f)'
      BY <1>1, <2>1, <3>1 DEF RowGoes, InBatch, Active
    <3>3. QED
      BY <2>1, <3>2 DEF RowGone
  <2>4. QED
    BY <2>2, <2>3
<1>14. CASE GiveUp \/ Ask \/ Arrive
  BY <1>2, <1>14 DEF GiveUp, Ask, Arrive, BatchOnly, InBatch, Active, memory, history
<1>15. CASE AddRecords \/ SaveBatch \/ Report
  BY <1>2, <1>15 DEF AddRecords, SaveBatch, Report, InBatch, Active, memory, history
<1>16. CASE Saving
  BY <1>2, <1>16 DEF Saving, ChangeSetting, WritePrevious, WriteRecords, WriteResults, FailSave, memory,
                     history, batch
<1>17. CASE (\E h \in asked : FinishHop(h) \/ FailHop(h)) \/ UNCHANGED vars
  BY <1>2, <1>17 DEF FinishHop, FailHop, vars, memory, history, batch
<1>18. QED
  BY <1>3, <1>4, <1>5, <1>6, <1>7, <1>8, <1>9, <1>10, <1>11, <1>12, <1>13, <1>14, <1>15, <1>16, <1>17
     DEF Next, Batch, World

-----------------------------------------------------------------------------
(* The files at a destination.                                             *)

\* What a step does to the journal and to the files that landed.
LEMMA JournalSteps ==
  Types /\ Control /\ Lines /\ [Next]_vars =>
    \/ /\ UNCHANGED lines /\ landed' = landed /\ (pc' \in InBatch <=> pc \in InBatch)
       /\ pc' \in Active => pc \in Active
    \/ \E req \in (SUBSET Files) \ {{}} : Begin(req)
    \/ \E x \in LineType, d \in BOOLEAN :
         /\ Write(x, d) /\ x.kind # "done" /\ landed' = landed /\ pc \in InBatch /\ pc' \in InBatch
         /\ pc \in Active \/ x.kind \in Opens
    \/ pc \in Active /\ \E l, g, m \in BOOLEAN : Done(l, g, m) /\ (l => InPlace)
    \/ Close \/ Crash \/ Boot
<1> DEFINE Calm == /\ UNCHANGED lines /\ landed' = landed /\ (pc' \in InBatch <=> pc \in InBatch)
                   /\ pc' \in Active => pc \in Active
           Line == \E x \in LineType, d \in BOOLEAN :
                     /\ Write(x, d) /\ x.kind # "done" /\ landed' = landed
                     /\ pc \in InBatch /\ pc' \in InBatch
                     /\ pc \in Active \/ x.kind \in Opens
           Ending == pc \in Active /\ \E l, g, m \in BOOLEAN : Done(l, g, m) /\ (l => InPlace)
           Other == (\E req \in (SUBSET Files) \ {{}} : Begin(req)) \/ Close \/ Crash \/ Boot
<1> SUFFICES ASSUME Types, Control, Lines, [Next]_vars PROVE Calm \/ Line \/ Ending \/ Other
  OBVIOUS
<1>1. CASE \E f \in todo, route \in Routes : Start(f, route)
  <2>1. PICK f \in todo, route \in Routes : Start(f, route)
    BY <1>1
  <2>2. StepLine("start", f) \in LineType /\ StepLine("start", f).kind = "start"
    BY LineMade, LineSays DEF Types, Steps
  <2>3. /\ Write(StepLine("start", f), FALSE) /\ landed' = landed /\ pc = "next" /\ pc' = "line"
    BY <2>1 DEF Start
  <2>4. Line
    BY <2>2, <2>3 DEF InBatch, Active, Opens
  <2>5. QED
    BY <2>4
<1>2. CASE Announce
  <2>1. cur \in Files /\ Head(legs).line \in {"ahead", "staging"} /\ pc \in Active /\ pc' \in Active
    BY <1>2, LegsSay DEF Announce, Control, Active, Types
  <2>2. /\ StepLine(Head(legs).line, cur) \in LineType
        /\ StepLine(Head(legs).line, cur).kind \in {"ahead", "staging"}
    BY <2>1, LineMade, LineSays DEF Steps
  <2>3. Write(StepLine(Head(legs).line, cur), TRUE) /\ landed' = landed
    BY <1>2 DEF Announce
  <2>4. Line
    BY <2>1, <2>2, <2>3 DEF InBatch
  <2>5. QED
    BY <2>4
<1>3. CASE Placed
  <2>1. pc = "landed" /\ pc' = "placed" /\ landed' = landed
    BY <1>3 DEF Placed
  <2>2. StepLine("placed", cur) \in LineType /\ StepLine("placed", cur).kind = "placed"
    BY <2>1, LineMade, LineSays DEF Control, Active, Steps
  <2>3. CASE UNCHANGED lines
    BY <2>1, <2>3 DEF InBatch, Active
  <2>4. CASE Write(StepLine("placed", cur), TRUE)
    <3>1. Line
      BY <2>1, <2>2, <2>4 DEF InBatch, Active
    <3>2. QED
      BY <3>1
  <2>5. QED
    BY <1>3, <2>3, <2>4 DEF Placed
<1>4. CASE Refuse \/ Unsettle
  BY <1>4 DEF Refuse, Unsettle, Active, InPlace
<1>5. CASE Fail
  <2>1. pc \in Active /\ ("home" \notin where[cur]) \in BOOLEAN
    BY <1>5 DEF Fail, Active
  <2>2. QED
    BY <1>5, <2>1 DEF Fail
<1>6. CASE Land
  BY <1>6 DEF Land, Active, InPlace
<1>7. CASE GiveUp \/ Ask \/ Arrive
  <2>1. UNCHANGED <<lines, landed>> /\ pc \in InBatch /\ pc' \in InBatch /\ (pc' \in Active => pc \in Active)
    BY <1>7 DEF GiveUp, Ask, Arrive, Active, InBatch
  <2>2. QED
    BY <2>1
<1>8. CASE AddRecords \/ Prune \/ SaveBatch \/ Report
  <2>1. UNCHANGED <<lines, landed>> /\ pc \in InBatch /\ pc' \in InBatch /\ pc' \notin Active
    BY <1>8 DEF AddRecords, Prune, SaveBatch, Report, Active, InBatch
  <2>2. QED
    BY <2>1
<1>9. CASE Saving
  BY <1>9 DEF Saving, ChangeSetting, WritePrevious, WriteRecords, WriteResults, FailSave, batch
<1>10. CASE (\E h \in asked : FinishHop(h) \/ FailHop(h)) \/ UNCHANGED vars
  BY <1>10 DEF FinishHop, FailHop, vars, batch
<1>11. CASE Replay \/ \E damage \in Damages : Load(damage)
  <2>1. UNCHANGED <<lines, landed>> /\ pc \in {"down", "load"} /\ pc' \in {"load", "idle", "boot"}
    <3>1. CASE Replay
      BY <3>1 DEF Replay
    <3>2. CASE \E damage \in Damages : Load(damage)
      BY <3>2 DEF Load
    <3>3. QED
      BY <1>11, <3>1, <3>2
  <2>2. pc \notin InBatch /\ pc' \notin InBatch /\ pc' \notin Active
    BY <2>1 DEF InBatch, Active
  <2>3. QED
    BY <2>1, <2>2
<1>12. QED
  BY <1>1, <1>2, <1>3, <1>4, <1>5, <1>6, <1>7, <1>8, <1>9, <1>10, <1>11 DEF Next, Batch, World

\* The line before the hop that may have brought the file in hand to its
\* destination is the last one and is flushed.
LEMMA InPlaceLine ==
  ASSUME Types, Control, Lines, InPlace
  PROVE  Covered(journal, synced, cur)
<1>1. /\ LastLine = StepLine("ahead", cur) \/ LastLine = StepLine("placed", cur)
      /\ synced = Len(journal) /\ pc \in InBatch
  <2>1. CASE pc \in {"landed", "placed"}
    BY <2>1 DEF Lines, InBatch, Active
  <2>2. CASE pc = "wait" /\ Head(legs).to = "dest"
    <3>1. Head(legs).line = "ahead"
      BY <2>2, LegsSay DEF Types, Control
    <3>2. QED
      BY <2>2, <3>1 DEF Lines, InBatch, Active
  <2>3. QED
    BY <2>1, <2>2 DEF InPlace
<1>2. journal # <<>> /\ journal \in Seq(LineType)
  BY <1>1 DEF Lines, Types
<1>3. LastLine.kind \in {"ahead", "placed"} /\ LastLine.file = cur
  BY <1>1, LineSays
<1>4. QED
  BY <1>1, <1>2, <1>3, CoveredLast DEF LastLine

\* allLanded: every file in it has a flushed line that a replay records it by.
LEMMA LandedLinedStep == Types /\ Control /\ Lines /\ LandedLined /\ [Next]_vars => LandedLined'
<1> SUFFICES ASSUME Types, Control, Lines, LandedLined, [Next]_vars, NEW f \in landed'
             PROVE  /\ Covered(journal', synced', f)
                    /\ pc' \in Active => CoveredFor(journal', synced', f, Opens)
  BY DEF LandedLined
<1>1. journal \in Seq(LineType) /\ synced \in 0..Len(journal)
  BY DEF Types
<1>2. f \in landed => /\ Covered(journal, synced, f)
                      /\ pc \in Active => CoveredFor(journal, synced, f, Opens)
  BY DEF LandedLined
<1>3. CASE /\ UNCHANGED lines /\ landed' = landed /\ (pc' \in InBatch <=> pc \in InBatch)
           /\ pc' \in Active => pc \in Active
  BY <1>2, <1>3 DEF lines
<1>4. CASE \E x \in LineType, d \in BOOLEAN :
             /\ Write(x, d) /\ x.kind # "done" /\ landed' = landed /\ pc \in InBatch /\ pc' \in InBatch
             /\ pc \in Active \/ x.kind \in Opens
  <2>1. PICK x \in LineType, d \in BOOLEAN :
             /\ Write(x, d) /\ x.kind # "done" /\ landed' = landed
             /\ pc \in Active \/ x.kind \in Opens
    BY <1>4
  <2>2. journal' = Append(journal, x) /\ synced' \in {synced, Len(journal) + 1}
    BY <2>1, Wrote
  <2>3. Covered(journal', synced', f)
    BY <1>1, <1>2, <2>1, <2>2, CoveredAppended
  <2>4. CoveredFor(journal', synced', f, Opens)
    BY <1>1, <1>2, <2>1, <2>2, CoveredAppended
  <2>5. QED
    BY <2>3, <2>4
<1>5. CASE pc \in Active /\ \E l, g, m \in BOOLEAN : Done(l, g, m) /\ (l => InPlace)
  <2>1. PICK l \in BOOLEAN, g \in BOOLEAN, m \in BOOLEAN : Done(l, g, m) /\ (l => InPlace)
    BY <1>5
  <2> DEFINE x == DoneLine(cur, l, g, m)
  <2>2. x \in LineType /\ x.kind = "done" /\ x.landed = l /\ x.file = cur /\ (l \/ g) \in BOOLEAN
    BY <1>5, DoneTyped, LineSays
  <2>3. /\ Write(x, l \/ g) \/ UNCHANGED lines
        /\ landed' = (IF l THEN landed \cup {cur} ELSE landed) /\ pc' = "next"
    BY <2>1 DEF Done
  <2> HIDE DEF x
  <2>4. CASE UNCHANGED lines
    BY <1>2, <2>1, <2>3, <2>4, InPlaceLine DEF lines, Active
  <2>5. CASE Write(x, l \/ g)
    <3>1. /\ journal' = Append(journal, x) /\ synced' \in {synced, Len(journal) + 1}
          /\ l => synced' = Len(journal) + 1
      BY <2>2, <2>5, Wrote
    <3>2. CASE f \in landed
      BY <1>1, <1>2, <1>5, <2>2, <2>3, <3>1, <3>2, CoveredAppended, BarForgotten DEF Active
    <3>3. CASE f \notin landed
      <4>1. f = cur /\ l
        BY <2>3, <3>3
      <4>2. QED
        BY <1>1, <2>2, <2>3, <3>1, <4>1, CoveredNow DEF Active
    <3>4. QED
      BY <3>2, <3>3
  <2>6. QED
    BY <2>3, <2>4, <2>5
<1>6. CASE (\E req \in (SUBSET Files) \ {{}} : Begin(req)) \/ Close \/ Crash \/ Boot
  <2>1. landed' = {}
    BY <1>6 DEF Begin, Close, Crash, Boot, Control, InBatch, Active
  <2>2. QED
    BY <2>1
<1>7. QED
  BY <1>3, <1>4, <1>5, <1>6, JournalSteps

\* Nobody but the batch in place knows more of a file at a destination.
LEMMA Reaches ==
  ASSUME NEW f, "dest" \in where[f] \/ \E h \in asked : h.leg.to = "dest" /\ h.file = f
  PROVE  Needs(f) \/ (InPlace /\ f = cur)
<1>1. CASE "dest" \in where[f]
  BY <1>1 DEF Needs
<1>2. ASSUME NEW h \in asked, h.leg.to = "dest", h.file = f PROVE Needs(f) \/ (InPlace /\ f = cur)
  <2>1. CASE pc = "wait" /\ h = Hop
    BY <1>2, <2>1 DEF Hop, InPlace
  <2>2. CASE ~(pc = "wait" /\ h = Hop)
    BY <1>2, <2>2 DEF Needs
  <2>3. QED
    BY <2>1, <2>2
<1>3. QED
  BY <1>1, <1>2

\* A file comes to need its line only when it leaves the hand of the batch: its
\* outcome says that it landed, or there is no batch any more.
LEMMA NeedsStep ==
  ASSUME Types, Control, [Next]_vars, NEW f \in Files, Needs(f)'
  PROVE  Needs(f) \/ (InPlace /\ f = cur /\ (f \in landed' \/ Crash))
<1>1. \/ "dest" \in where'[f] /\ ~(InPlace' /\ f = cur')
      \/ \E h \in asked' : h.leg.to = "dest" /\ h.file = f /\ ~(pc' = "wait" /\ h = Hop')
  BY DEF Needs
<1>2. CASE UNCHANGED <<where, asked, pc, cur, legs>>
  BY <1>1, <1>2 DEF Needs, InPlace, Hop
<1>3. CASE UNCHANGED tree /\ pc \notin {"wait", "landed", "placed"}
  BY <1>1, <1>3 DEF Needs, InPlace, tree
<1>4. CASE (\E req \in (SUBSET Files) \ {{}} : Begin(req)) \/ (\E g \in todo, route \in Routes : Start(g, route))
  BY <1>3, <1>4 DEF Begin, Start
<1>5. CASE GiveUp \/ Announce \/ AddRecords \/ Prune \/ SaveBatch \/ Report \/ Close
  BY <1>3, <1>5 DEF GiveUp, Announce, AddRecords, Prune, SaveBatch, Report, Close
<1>6. CASE Refuse
  <2>1. UNCHANGED tree /\ pc = "line"
    BY <1>6 DEF Refuse, Done, tree
  <2>2. QED
    BY <1>3, <2>1
<1>7. CASE Ask
  <2>1. pc = "ask" /\ pc' = "wait" /\ asked' = asked \cup {Hop} /\ UNCHANGED <<where, cur, legs>>
    BY <1>7 DEF Ask
  <2>2. Hop' = Hop /\ ~InPlace
    BY <2>1 DEF Hop, InPlace
  <2>3. CASE "dest" \in where'[f]
    BY <2>1, <2>2, <2>3 DEF Needs
  <2>4. CASE \E h \in asked' : h.leg.to = "dest" /\ h.file = f /\ ~(pc' = "wait" /\ h = Hop')
    BY <2>1, <2>2, <2>4 DEF Needs
  <2>5. QED
    BY <1>1, <2>3, <2>4
<1>8. CASE Arrive
  <2>1. /\ pc = "wait" /\ Hop \notin asked /\ UNCHANGED <<where, asked, cur>> /\ legs # <<>>
        /\ pc' = IF Tail(legs) = <<>> THEN "landed" ELSE "line"
    BY <1>8 DEF Arrive, Control, tree
  <2>2. InPlace => InPlace'
    BY <2>1, LegsSay DEF InPlace, Types
  <2>3. CASE "dest" \in where'[f] /\ ~(InPlace' /\ f = cur')
    BY <2>1, <2>2, <2>3 DEF Needs
  <2>4. CASE \E h \in asked' : h.leg.to = "dest" /\ h.file = f
    BY <2>1, <2>4 DEF Needs
  <2>5. QED
    BY <1>1, <2>3, <2>4
<1>9. CASE Fail
  <2>1. /\ \/ pc = "wait" /\ Hop \notin asked /\ Head(legs).to \notin where[cur]
           \/ pc = "line"
        /\ where' = [where EXCEPT ![cur] = IF "home" \in @ THEN @ \ {"stage"} ELSE @] /\ asked' = asked
    BY <1>9 DEF Fail, Done
  <2>2. "dest" \in where'[f] => "dest" \in where[f]
    BY <2>1 DEF Types
  <2>3. CASE "dest" \in where'[f]
    BY <2>1, <2>2, <2>3 DEF Needs, InPlace
  <2>4. CASE \E h \in asked' : h.leg.to = "dest" /\ h.file = f
    BY <2>1, <2>4 DEF Needs
  <2>5. QED
    BY <1>1, <2>3, <2>4
<1>10. CASE Unsettle \/ Land
  <2>1. PICK l \in BOOLEAN, g \in BOOLEAN, m \in BOOLEAN : Done(l, g, m) /\ l
    BY <1>10 DEF Unsettle, Land
  <2>2. /\ InPlace /\ asked' = asked /\ cur \in landed'
        /\ where' = where \/ where' = [where EXCEPT ![cur] = @ \ {"home"}]
    BY <1>10, <2>1 DEF Unsettle, Land, InPlace, Done
  <2>3. CASE f = cur
    BY <2>2, <2>3
  <2>4. CASE f # cur
    <3>1. where'[f] = where[f]
      BY <2>2, <2>4 DEF Types
    <3>2. \A h \in asked : h.file = f => h # Hop
      BY <2>4 DEF Hop
    <3>3. QED
      BY <1>1, <2>2, <2>4, <3>1, <3>2 DEF Needs
  <2>5. QED
    BY <2>3, <2>4
<1>11. CASE Placed
  <2>1. UNCHANGED <<where, asked, cur>> /\ pc = "landed" /\ pc' = "placed"
    BY <1>11 DEF Placed, tree
  <2>2. QED
    BY <1>1, <2>1 DEF Needs, InPlace
<1>12. CASE Saving
  BY <1>2, <1>12 DEF Saving, ChangeSetting, WritePrevious, WriteRecords, WriteResults, FailSave, batch, tree
<1>13. ASSUME NEW h \in asked, FinishHop(h) PROVE Needs(f)
  <2>1. /\ asked' = asked \ {h} /\ UNCHANGED <<pc, cur, legs>>
        /\ where' = [where EXCEPT ![h.file] =
                       (IF h.leg.keep THEN @ ELSE @ \ {h.leg.from}) \cup {h.leg.to}]
    BY <1>13 DEF FinishHop, batch
  <2>2. InPlace' = InPlace /\ Hop' = Hop
    BY <2>1 DEF InPlace, Hop
  <2>3. CASE "dest" \in where'[f] /\ ~(InPlace' /\ f = cur')
    <3>1. "dest" \in where[f] \/ (f = h.file /\ h.leg.to = "dest")
      BY <2>1, <2>3 DEF Types
    <3>2. CASE "dest" \in where[f]
      BY <2>1, <2>2, <2>3, <3>2 DEF Needs
    <3>3. CASE f = h.file /\ h.leg.to = "dest"
      <4>1. ~(pc = "wait" /\ h = Hop)
        BY <2>1, <2>2, <2>3, <3>3 DEF Hop, InPlace
      <4>2. QED
        BY <3>3, <4>1 DEF Needs
    <3>4. QED
      BY <3>1, <3>2, <3>3
  <2>4. CASE \E k \in asked' : k.leg.to = "dest" /\ k.file = f /\ ~(pc' = "wait" /\ k = Hop')
    BY <2>1, <2>2, <2>4 DEF Needs
  <2>5. QED
    BY <1>1, <2>3, <2>4
<1>14. ASSUME NEW h \in asked, FailHop(h) PROVE Needs(f)
  <2>1. asked' \subseteq asked /\ UNCHANGED <<where, pc, cur, legs>>
    BY <1>14 DEF FailHop, batch
  <2>2. InPlace' = InPlace /\ Hop' = Hop
    BY <2>1 DEF InPlace, Hop
  <2>3. QED
    BY <1>1, <2>1, <2>2 DEF Needs
<1>15. CASE Crash
  <2>1. UNCHANGED tree
    BY <1>15 DEF Crash
  <2>2. QED
    BY <1>1, <1>15, <2>1, Reaches DEF tree
<1>16. CASE Replay \/ Boot \/ \E damage \in Damages : Load(damage)
  <2>1. UNCHANGED tree /\ pc \in {"down", "load", "boot"}
    <3>1. CASE Replay \/ Boot
      BY <3>1 DEF Replay, Boot
    <3>2. CASE \E damage \in Damages : Load(damage)
      BY <3>2 DEF Load
    <3>3. QED
      BY <1>16, <3>1, <3>2
  <2>2. QED
    BY <1>3, <2>1
<1>17. CASE UNCHANGED vars
  BY <1>2, <1>17 DEF vars, tree, batch
<1>18. QED
  BY <1>4, <1>5, <1>6, <1>7, <1>8, <1>9, <1>10, <1>11, <1>12, <1>13, <1>14, <1>15, <1>16, <1>17
     DEF Next, Batch, World

\* What keeps a file that needs it goes on keeping it, through the end of its
\* batch, a crash, a start and the next batch's first line.
LEMMA SafeStep ==
  ASSUME Types, Control, Lines, Landings, Memory, Saved, [Next]_vars, lapses' = {},
         NEW f \in Files, Needs(f), Safe(f)
  PROVE  Safe(f)'
<1>1. journal \in Seq(LineType) /\ synced \in 0..Len(journal) /\ lapses = {}
  BY StoredSteps DEF Types
<1>2. DiskSafe(f) => DiskSafe(f)'
  BY DiskSafeKept
<1>3. f \in landed => Covered(journal, synced, f)
  BY DEF Landings, LandedLined
<1>4. pc \notin {"down", "load"} => f \in out \cup landed
  BY <1>1 DEF Landings, NeedsKnown
<1>5. SUFFICES ASSUME ~DiskSafe(f) PROVE Safe(f)'
  BY <1>2 DEF Safe
<1>6. /\ pc \in InBatch => CoveredFor(journal, synced, f, {"begin"}) \/ f \in landed
      /\ pc \notin InBatch => Covered(journal, synced, f)
  BY <1>5 DEF Safe
<1>7. Covered(journal, synced, f)
  BY <1>3, <1>6, BarForgotten
<1>8. CASE /\ UNCHANGED lines /\ landed' = landed /\ (pc' \in InBatch <=> pc \in InBatch)
           /\ pc' \in Active => pc \in Active
  BY <1>6, <1>8 DEF Safe, lines
<1>9. CASE \E req \in (SUBSET Files) \ {{}} : Begin(req)
  <2>1. PICK req \in (SUBSET Files) \ {{}} : Begin(req)
    BY <1>9
  <2>2. /\ BeginLine(req) \in LineType /\ BeginLine(req).kind = "begin"
        /\ Write(BeginLine(req), TRUE) /\ pc' = "next"
    BY <2>1, LineMade, LineSays DEF Begin
  <2>3. journal' = Append(journal, BeginLine(req)) /\ synced' \in {synced, Len(journal) + 1}
    BY <2>2, Wrote
  <2>4. CoveredFor(journal', synced', f, {"begin"})
    BY <1>1, <1>7, <2>2, <2>3, CoveredAppended
  <2>5. QED
    BY <2>2, <2>4 DEF Safe, InBatch
<1>10. ASSUME NEW x \in LineType, NEW d \in BOOLEAN, Write(x, d), landed \subseteq landed',
              pc \in InBatch, pc' \in InBatch
       PROVE  Safe(f)'
  <2>1. journal' = Append(journal, x) /\ synced' \in {synced, Len(journal) + 1}
    BY <1>10, Wrote
  <2>2. CoveredFor(journal, synced, f, {"begin"}) => CoveredFor(journal', synced', f, {"begin"})
    BY <1>1, <2>1, CoveredAppended
  <2>3. QED
    BY <1>6, <1>10, <2>2 DEF Safe
<1>11. CASE pc \in Active /\ \E l, g, m \in BOOLEAN : Done(l, g, m) /\ (l => InPlace)
  <2>1. PICK l \in BOOLEAN, g \in BOOLEAN, m \in BOOLEAN : Done(l, g, m)
    BY <1>11
  <2>2. DoneLine(cur, l, g, m) \in LineType /\ (l \/ g) \in BOOLEAN
    BY <1>11, DoneTyped
  <2>3. /\ Write(DoneLine(cur, l, g, m), l \/ g) \/ UNCHANGED lines
        /\ landed \subseteq landed' /\ pc' = "next"
    BY <2>1 DEF Done
  <2>4. pc \in InBatch /\ pc' \in InBatch
    BY <1>11, <2>3 DEF InBatch
  <2>5. CASE UNCHANGED lines
    BY <1>6, <2>3, <2>4, <2>5 DEF Safe, lines
  <2>6. CASE Write(DoneLine(cur, l, g, m), l \/ g)
    BY <1>10, <2>2, <2>3, <2>4, <2>6
  <2>7. QED
    BY <2>3, <2>5, <2>6
<1>12. CASE Close
  <2>1. pc = "close" /\ pc' = "idle" /\ landed \subseteq out
    BY <1>12 DEF Close, Memory
  <2>2. CASE sv["batch"].at = "failed"
    <3>1. UNCHANGED lines \/ Write(EndLine, TRUE)
      BY <1>12, <2>2 DEF Close
    <3>2. EndLine \in LineType /\ EndLine.kind # "done"
      BY LineMade, LineSays
    <3>3. Covered(journal', synced', f)
      BY <1>1, <1>7, <3>1, <3>2, Wrote, CoveredAppended DEF lines
    <3>4. QED
      BY <2>1, <3>3 DEF Safe, InBatch, Active
  <2>3. CASE sv["batch"].at = "saved"
    <3>1. f \in out
      BY <1>4, <2>1
    <3>2. DiskSafe(f)
      BY <1>1, <2>3, <3>1 DEF Saved
    <3>3. QED
      BY <1>5, <3>2
  <2>4. CASE sv["batch"].at = "idle"
    <3>1. landed = {} /\ pc \in InBatch /\ journal # <<>>
      BY <2>1, <2>4 DEF Control, Lines, InBatch
    <3>2. ~(Cardinality(Begins(journal)) > 1)
      BY <1>12, <2>4 DEF Close
    <3>3. ~CoveredFor(journal, synced, f, {"begin"})
      BY <1>1, <3>1, <3>2, OneBegin DEF Lines
    <3>4. QED
      BY <1>6, <3>1, <3>3
  <2>5. QED
    BY <2>1, <2>2, <2>3, <2>4 DEF Control
<1>13. CASE Crash
  <2>1. PICK n \in synced..Len(journal) : journal' = SubSeq(journal, 1, n) /\ synced' = n
    BY <1>13 DEF Crash
  <2>2. Covered(journal', synced', f)
    BY <1>1, <1>7, <2>1, CoveredKept
  <2>3. pc' = "down"
    BY <1>13 DEF Crash
  <2>4. QED
    BY <2>2, <2>3 DEF Safe, InBatch, Active
<1>14. CASE Boot
  <2>1. pc = "boot" /\ pc' = "idle"
    BY <1>14 DEF Boot
  <2>2. CASE sv["start"].at = "saved"
    <3>1. f \in out
      BY <1>4, <2>1 DEF Control, InBatch, Active
    <3>2. DiskSafe(f)
      BY <1>1, <2>2, <3>1 DEF Saved
    <3>3. QED
      BY <1>5, <3>2
  <2>3. CASE sv["start"].at # "saved"
    <3>1. UNCHANGED lines
      BY <1>14, <2>3 DEF Boot
    <3>2. QED
      BY <1>7, <2>1, <3>1 DEF Safe, lines, InBatch, Active
  <2>4. QED
    BY <2>2, <2>3
<1>15. CASE \E x \in LineType, d \in BOOLEAN :
              /\ Write(x, d) /\ x.kind # "done" /\ landed' = landed /\ pc \in InBatch /\ pc' \in InBatch
              /\ pc \in Active \/ x.kind \in Opens
  BY <1>10, <1>15
<1>16. QED
  BY <1>8, <1>9, <1>11, <1>12, <1>13, <1>14, <1>15, JournalSteps

\* So the files, or the lines, have every file at a destination but the one in hand.
LEMMA NeedsSafeStep ==
  Types /\ Control /\ Lines /\ Landings /\ Memory /\ Saved /\ [Next]_vars => NeedsSafe'
<1> SUFFICES ASSUME Types, Control, Lines, Landings, Memory, Saved, [Next]_vars, lapses' = {},
                    NEW f \in Files, Needs(f)'
             PROVE  Safe(f)'
  BY DEF NeedsSafe
<1>1. lapses = {} /\ (Needs(f) => Safe(f))
  BY StoredSteps DEF Landings, NeedsSafe
<1>2. CASE Needs(f)
  BY <1>1, <1>2, SafeStep
<1>3. CASE f \in landed'
  <2>1. Control'
    BY ControlStep
  <2>2. pc' \in InBatch
    BY <1>3, <2>1 DEF Control
  <2>3. QED
    BY <1>3, <2>2 DEF Safe
<1>4. CASE InPlace /\ f = cur /\ Crash
  <2>1. journal \in Seq(LineType) /\ synced \in 0..Len(journal) /\ Covered(journal, synced, f)
    BY <1>4, InPlaceLine DEF Types
  <2>2. PICK n \in synced..Len(journal) : journal' = SubSeq(journal, 1, n) /\ synced' = n
    BY <1>4 DEF Crash
  <2>3. Covered(journal', synced', f) /\ pc' = "down"
    BY <1>4, <2>1, <2>2, CoveredKept DEF Crash
  <2>4. QED
    BY <2>3 DEF Safe, InBatch, Active
<1>5. QED
  BY <1>2, <1>3, <1>4, NeedsStep

\* The memory forgets no moved copy, but in a crash.
LEMMA OutGrows ==
  ASSUME Types, Control, Memory, [Next]_vars, pc \notin {"down", "load"}, pc' \notin {"down", "load"}
  PROVE  out \cup landed \subseteq out' \cup landed'
<1>1. CASE UNCHANGED out /\ landed \subseteq landed'
  BY <1>1
<1>2. CASE \E req \in (SUBSET Files) \ {{}} : Begin(req)
  BY <1>1, <1>2 DEF Begin, memory
<1>3. CASE \E f \in todo, route \in Routes : Start(f, route)
  BY <1>1, <1>3 DEF Start, BatchOnly, memory
<1>4. CASE GiveUp \/ Announce \/ Ask \/ Arrive \/ Placed
  BY <1>1, <1>4 DEF GiveUp, Announce, Ask, Arrive, Placed, BatchOnly, memory
<1>5. CASE Refuse \/ Fail \/ Unsettle \/ Land
  BY <1>1, <1>5 DEF Refuse, Fail, Unsettle, Land, Done, BatchOnly, memory
<1>6. CASE AddRecords
  BY <1>6 DEF AddRecords
<1>7. CASE Prune \/ SaveBatch \/ Report
  BY <1>1, <1>7 DEF Prune, SaveBatch, Report, memory
<1>8. CASE Close
  BY <1>8 DEF Close, memory, Memory
<1>9. CASE Saving
  BY <1>1, <1>9 DEF Saving, ChangeSetting, WritePrevious, WriteRecords, WriteResults, FailSave, memory, batch
<1>10. CASE (\E h \in asked : FinishHop(h) \/ FailHop(h)) \/ UNCHANGED vars
  BY <1>1, <1>10 DEF FinishHop, FailHop, vars, memory, batch
<1>11. CASE Boot
  BY <1>1, <1>11 DEF Boot, memory
<1>12. CASE Crash \/ Replay \/ \E damage \in Damages : Load(damage)
  BY <1>12 DEF Crash, Replay, Load
<1>13. QED
  BY <1>2, <1>3, <1>4, <1>5, <1>6, <1>7, <1>8, <1>9, <1>10, <1>11, <1>12 DEF Next, Batch, World

\* Only the replay of the journal ends the loading of the files.
LEMMA AfterLoad ==
  /\ [Next]_vars /\ pc = "load" /\ pc' # "load" => Replay \/ Crash
  /\ [Next]_vars /\ pc = "down" => pc' \in {"down", "load"}
<1> SUFFICES ASSUME [Next]_vars, pc \in {"down", "load"}
             PROVE  Replay \/ Crash \/ pc' = pc \/ (pc = "down" /\ pc' = "load")
  BY DEF Replay, Crash, Up
<1>1. CASE Batch
  BY <1>1 DEF Batch, Begin, Start, GiveUp, Refuse, Announce, Ask, Arrive, Fail, Unsettle, Placed, Land,
     AddRecords, Prune, SaveBatch, Report, Close
<1>2. CASE Saving
  BY <1>2 DEF Saving, ChangeSetting, WritePrevious, WriteRecords, WriteResults, FailSave, batch
<1>3. CASE \E damage \in Damages : Load(damage)
  BY <1>3 DEF Load
<1>4. CASE Boot \/ (\E h \in asked : FinishHop(h) \/ FailHop(h)) \/ UNCHANGED vars
  BY <1>4 DEF Boot, FinishHop, FailHop, vars, batch
<1>5. QED
  BY <1>1, <1>2, <1>3, <1>4 DEF Next, World

\* A start counts what the files have and what the journal has.
LEMMA NeedsKnownStep ==
  Types /\ Control /\ Lines /\ Landings /\ Memory /\ [Next]_vars => NeedsKnown'
<1> SUFFICES ASSUME Types, Control, Lines, Landings, Memory, [Next]_vars, lapses' = {},
                    pc' \notin {"down", "load"}, NEW f \in Files, Needs(f)'
             PROVE  f \in out' \cup landed'
  BY DEF NeedsKnown
<1>1. lapses = {} /\ pc # "down"
  BY StoredSteps, AfterLoad
<1>2. Needs(f) \/ f \in landed'
  BY NeedsStep DEF Crash
<1>3. SUFFICES ASSUME Needs(f) PROVE f \in out' \cup landed'
  BY <1>2
<1>4. CASE pc # "load"
  <2>1. f \in out \cup landed
    BY <1>1, <1>3, <1>4 DEF Landings, NeedsKnown
  <2>2. QED
    BY <1>1, <1>4, <2>1, OutGrows
<1>5. CASE pc = "load"
  <2>1. out' = out \cup LandedBy(journal)
    BY <1>5, AfterLoad DEF Replay, Crash
  <2>2. Safe(f)
    BY <1>1, <1>3 DEF Landings, NeedsSafe
  <2>3. CASE DiskSafe(f)
    <3>1. CASE recs = {}
      BY <1>1, <2>1, <2>3, <3>1 DEF DiskSafe, Memory
    <3>2. CASE recs # {}
      BY <1>1, <2>1, <2>3, <3>2 DEF DiskSafe, Memory
    <3>3. QED
      BY <3>1, <3>2
  <2>4. CASE Covered(journal, synced, f)
    <3>1. f \in LandedBy(journal)
      BY <2>4, Replayed DEF Types
    <3>2. QED
      BY <2>1, <3>1
  <2>5. pc \notin InBatch
    BY <1>5 DEF InBatch, Active
  <2>6. QED
    BY <2>2, <2>3, <2>4, <2>5 DEF Safe
<1>6. QED
  BY <1>4, <1>5

LEMMA LandingsStep ==
  Types /\ Control /\ Lines /\ Landings /\ Memory /\ Saved /\ [Next]_vars => Landings'
<1> SUFFICES ASSUME Types, Control, Lines, Landings, Memory, Saved, [Next]_vars PROVE Landings'
  OBVIOUS
<1>1. LandedLined
  BY DEF Landings
<1>2. LandedLined' /\ NeedsSafe' /\ NeedsKnown'
  BY <1>1, LandedLinedStep, NeedsSafeStep, NeedsKnownStep
<1>3. QED
  BY <1>2 DEF Landings

-----------------------------------------------------------------------------
(* The invariant and what follows from it.                                 *)

LEMMA InitInv == Init => RecordsInv
<1> SUFFICES ASSUME Init PROVE RecordsInv
  OBVIOUS
<1>1. /\ journal = <<>> /\ synced = 0 /\ landed = {} /\ gone = {} /\ left = {} /\ tried = {} /\ todo = {}
      /\ pc = "idle" /\ cur = NoFile /\ legs = <<>> /\ out = {} /\ rows = Files /\ asked = {}
      /\ recs = {{}} /\ results = {[out |-> {}, rows |-> Files]} /\ persistMu = NoSaver
      /\ \A s \in Savers : sv[s] = IdleSaver
  BY DEF Init
<1>2. \A s \in Savers : sv[s].at = "idle" /\ sv[s].out = {} /\ sv[s].rows = {}
  BY <1>1 DEF IdleSaver
<1>3. Types
  <2>1. journal \in Seq(LineType) /\ synced \in 0..Len(journal)
    BY <1>1, EmptySeq
  <2>2. IdleSaver \in SnapType
    BY DEF IdleSaver, SnapType, Stands
  <2>3. sv \in [Savers -> SnapType]
    BY <2>2 DEF Init
  <2>4. \E r \in [out : SUBSET Files, rows : SUBSET Files] : results = {r}
    BY <1>1
  <2>5. \E q \in SUBSET Files : recs = {q}
    BY <1>1
  <2>6. where \in [Files -> SUBSET {"home", "stage", "dest"}]
    BY DEF Init
  <2>7. told \in [Files -> {"nothing", "still", "ahead", "staging", "placed", "moved", "failed"}]
    BY DEF Init
  <2>8. prev = {} /\ persistMu \in Savers \cup {NoSaver}
    BY DEF Init
  <2>9. QED
    BY <1>1, <2>1, <2>3, <2>4, <2>5, <2>6, <2>7, <2>8 DEF Types
<1>4. Control
  BY <1>1, <1>2, FilesAssumption DEF Control, Active, InBatch, Savers, NoSaver
<1>5. Lines
  BY <1>1 DEF Lines, InBatch, Active
<1>6. Landings
  <2>1. \A f \in Files : ~Needs(f)
    BY <1>1 DEF Init, Needs
  <2>2. QED
    BY <1>1, <2>1 DEF Landings, LandedLined, NeedsSafe, NeedsKnown
<1>7. Memory
  <2>1. /\ \A q \in recs : q \subseteq out
        /\ \A r \in results : r.out \subseteq out
        /\ recs # {} /\ results # {}
    BY <1>1
  <2>2. \A s \in Savers : sv[s].out \subseteq out /\ sv[s].at = "idle"
    BY <1>2
  <2>3. "batch" \in Savers /\ "start" \in Savers /\ pc = "idle"
    BY <1>1 DEF Savers
  <2>4. QED
    BY <2>1, <2>2, <2>3 DEF Memory, Written
<1>8. Saved
  BY <1>2 DEF Saved, Savers
<1>9. Rows /\ Tried
  BY <1>1 DEF Rows, Tried, InBatch, Active
<1>10. QED
  BY <1>3, <1>4, <1>5, <1>6, <1>7, <1>8, <1>9 DEF RecordsInv

LEMMA StepInv == RecordsInv /\ [Next]_vars => RecordsInv'
<1> SUFFICES ASSUME RecordsInv, [Next]_vars PROVE RecordsInv'
  OBVIOUS
<1>1. Types /\ Control /\ Lines /\ Landings /\ Memory /\ Saved /\ Rows /\ Tried
  BY DEF RecordsInv
<1>2. Types' /\ Control' /\ Lines'
  BY <1>1, TypesStep, ControlStep, LinesStep
<1>3. Landings' /\ Memory' /\ Saved'
  BY <1>1, LandingsStep, MemoryStep, SavedStep
<1>4. Rows' /\ Tried'
  BY <1>1, RowsStep, TriedStep
<1>5. QED
  BY <1>2, <1>3, <1>4 DEF RecordsInv

\* The journal, the files and the memory keep agreeing, through every crash,
\* failed write, overlapping save and start.
THEOREM RecordsInvariant == Spec => []RecordsInv
<1>1. QED
  BY InitInv, StepInv, PTL DEF Spec

\* Every variable keeps its type, there is never more than one of each file,
\* and persistMu is held by the saver at its second or third file.
THEOREM RecordsTyped == Spec => []TypeOK
<1>1. RecordsInv => TypeOK
  <2> SUFFICES ASSUME RecordsInv PROVE TypeOK
    OBVIOUS
  <2>1. Types /\ Control
    BY DEF RecordsInv
  <2>2. \A h \in asked : h.file \in Files
    BY <2>1 DEF Types
  <2>3. out \cup rows \cup todo \cup landed \cup gone \cup left \cup tried \subseteq Files
    BY <2>1 DEF Types
  <2>4. recs \cup prev \subseteq SUBSET Files
    BY <2>1 DEF Types
  <2>5. Cardinality({}) = 0 /\ \A x : Cardinality({x}) = 1
    BY FS_EmptySet, FS_Singleton
  <2>6. (recs = {} \/ \E x : recs = {x}) /\ (prev = {} \/ \E x : prev = {x})
        /\ (results = {} \/ \E x : results = {x})
    BY <2>1 DEF Types
  <2>7. Cardinality(recs) <= 1 /\ Cardinality(prev) <= 1 /\ Cardinality(results) <= 1
    <3>1. Cardinality(recs) \in {0, 1}
      BY <2>5, <2>6, Zenon
    <3>2. Cardinality(prev) \in {0, 1}
      BY <2>5, <2>6, Zenon
    <3>3. Cardinality(results) \in {0, 1}
      BY <2>5, <2>6, Zenon
    <3>4. QED
      BY <3>1, <3>2, <3>3
  <2>8. synced <= Len(journal)
    BY <2>1 DEF Types
  <2>9. pc \in {"idle", "next", "line", "ask", "wait", "landed", "placed", "prune", "save",
                "report", "close", "down", "load", "boot"}
    BY <2>1 DEF Types, InBatch, Active
  <2>10. cur \in Files \cup {NoFile} /\ (cur = NoFile <=> legs = <<>> /\ pc \notin {"landed", "placed"})
    BY <2>1, FilesAssumption DEF Types, Control, Active
  <2>11. \A s \in Savers : sv[s].at \in {"records", "results"} <=> persistMu = s
    BY <2>1 DEF Control
  <2>12. /\ where \in [Files -> SUBSET {"home", "stage", "dest"}]
         /\ told \in [Files -> {"nothing", "still", "ahead", "staging", "placed", "moved", "failed"}]
    BY <2>1 DEF Types
  <2>13. QED
    BY <2>2, <2>3, <2>4, <2>7, <2>8, <2>9, <2>10, <2>11, <2>12 DEF TypeOK
<1>2. QED
  BY <1>1, RecordsInvariant, PTL

\* A file at a destination is recovered as a moved copy by a restart at any
\* moment, whichever one of the two files is damaged: by the files the other
\* one was saved with, or by a flushed line of a journal that is still there
\* (saveRecords, moveJournal.write, moveJournal.finish, replayMoveJournal).
THEOREM LandedAlwaysRecovered == Spec => []LandedRecovered
<1>1. RecordsInv => LandedRecovered
  <2> SUFFICES ASSUME RecordsInv, lapses = {}, NEW f \in Files, NEW damage \in Damages, "dest" \in where[f]
               PROVE  f \in Recovered(damage)
    BY DEF LandedRecovered
  <2>1. Types /\ Control /\ Lines /\ LandedLined /\ NeedsSafe /\ journal \in Seq(LineType)
        /\ synced \in 0..Len(journal)
    BY DEF RecordsInv, Landings, Types
  <2>2. Covered(journal, synced, f) \/ DiskSafe(f)
    <3>1. CASE InPlace /\ f = cur
      BY <2>1, <3>1, InPlaceLine
    <3>2. CASE Needs(f)
      <4>1. Safe(f)
        BY <2>1, <3>2 DEF NeedsSafe
      <4>2. QED
        BY <2>1, <4>1, BarForgotten DEF Safe, LandedLined
    <3>3. QED
      BY <3>1, <3>2, Reaches
  <2>3. CASE Covered(journal, synced, f)
    BY <2>1, <2>3, Replayed DEF Recovered
  <2>4. CASE DiskSafe(f)
    <3>1. /\ damage \in {"neither", "records", "results"}
          /\ damage \in {"records", "results"} => recs # {} /\ results # {}
      BY DEF Damages
    <3>2. f \in LoadedOut(damage)
      <4>1. CASE damage = "results"
        BY <2>4, <3>1, <4>1 DEF LoadedOut, DiskSafe
      <4>2. CASE damage = "records"
        BY <2>4, <3>1, <4>2 DEF LoadedOut, DiskSafe
      <4>3. CASE damage = "neither" /\ recs = {}
        BY <2>4, <4>3 DEF LoadedOut, DiskSafe
      <4>4. CASE damage = "neither" /\ recs # {}
        BY <2>4, <4>4 DEF LoadedOut, DiskSafe
      <4>5. QED
        BY <3>1, <4>1, <4>2, <4>3, <4>4
    <3>3. QED
      BY <3>2 DEF Recovered
  <2>5. QED
    BY <2>2, <2>3, <2>4
<1>2. QED
  BY <1>1, RecordsInvariant, PTL

\* Between batches the daemon counts every file at a destination as a moved
\* copy, also the one File Station put there when nobody waited any more
\* (inflight.settle, Store.AddRecords).
THEOREM LandedAlwaysKnown == Spec => []LandedKnown
<1>1. RecordsInv => LandedKnown
  <2> SUFFICES ASSUME RecordsInv, pc = "idle", lapses = {}, NEW f \in Files, "dest" \in where[f]
               PROVE  f \in out
    BY DEF LandedKnown
  <2>1. Control /\ NeedsKnown
    BY DEF RecordsInv, Landings
  <2>2. Needs(f)
    BY Reaches DEF InPlace
  <2>3. f \in out \cup landed
    BY <2>1, <2>2 DEF NeedsKnown
  <2>4. landed = {}
    BY <2>1 DEF Control, InBatch, Active
  <2>5. QED
    BY <2>3, <2>4
<1>2. QED
  BY <1>1, RecordsInvariant, PTL

\* No restart brings back a row of a file whose outcome said that it left: the
\* results file has lost it, or a line of the journal prunes it again.
THEOREM RowsNeverReturn == Spec => []NoRowReturns
<1>1. RecordsInv => NoRowReturns
  BY DEF RecordsInv, Rows, RowGone, Active, NoRowReturns
<1>2. QED
  BY <1>1, RecordsInvariant, PTL

\* A file that interruptedReport says is still where it was is one that the
\* batch cut short never asked File Station for.
THEOREM StillIsStill == Spec => []StillMeansStill
<1>1. RecordsInv => StillMeansStill
  BY DEF RecordsInv, Tried, StillMeansStill
<1>2. QED
  BY <1>1, RecordsInvariant, PTL
=============================================================================
