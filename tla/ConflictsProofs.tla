--------------------------- MODULE ConflictsProofs ---------------------------
(***************************************************************************)
(* Proofs about Conflicts for any number of files, scans, deaths of the     *)
(* daemon and events on the files: what the store of hashes, its evidence   *)
(* set and its generations say of the files a scan judges.                  *)
(***************************************************************************)
EXTENDS Conflicts, FiniteSetTheorems, SequenceTheorems, WellFoundedInduction, TLAPS

Content  == [1..2 -> Cell]
Hash     == Content \cup {NoHash}
Prefix   == {<<x>> : x \in Cell} \cup {NoHash}
Errors   == {"ok", "eio", "denied"}
Entry    == [mod : Nat, pfx : Prefix, full : Hash, gen : Nat, scan : Nat]
Marker   == [gen : Nat, runs : SUBSET Nat]
DiskType == [gen : Nat, ents : [Paths -> Entry]]
StoreType == [gen : Nat, ents : [Paths -> Entry], changed : [Paths -> Hash]]
InfoType == [hash : [Paths -> Hash], err : [Paths -> Errors],
             flag : [Paths -> BOOLEAN], prior : [Paths -> Hash]]
Phases ==
  {"idle", "walked", "open", "prefixes", "grouped", "windowed", "hashed", "judged", "saved"}

FilesTyped ==
  /\ checks \in BOOLEAN /\ content \in [Paths -> Content] /\ mod \in [Paths -> Nat]
  /\ broken \in [Paths -> Errors] /\ saving \subseteq Paths /\ quiet \subseteq Paths
  /\ last \in [Paths -> Nat]
StoreTyped == disk \in DiskType /\ store \in StoreType
ScanTyped ==
  /\ marker \in Marker /\ notice \in Marker
  /\ phase \in Phases /\ adopt \in Nat /\ seen \in [Paths -> Nat]
  /\ pfx \in [Paths -> Prefix] /\ info \in InfoType
  /\ runs \in Nat /\ line \subseteq Nat
  /\ used \in [events : Nat, crashes : Nat, failures : Nat]
Types == FilesTyped /\ StoreTyped /\ ScanTyped

\* Which phase has a store, prefixes and findings in hand.
Control ==
  /\ phase # "idle" => runs \in line /\ notice = NoMarker
  /\ line \cup marker.runs \cup notice.runs \subseteq 1..runs
  /\ phase \in {"idle", "walked"} => store = Closed
  /\ phase \in {"idle", "walked", "open", "grouped"} => pfx = Blanks
  /\ phase \in {"idle", "walked", "open", "prefixes", "grouped"} => info = NoInfo
  /\ phase = "windowed" => \A f \in Family : info.err[f] = "ok" => pfx[f] # NoHash
  /\ \A f \in Paths : last[f] <= runs

\* The file f no longer shows the time m, or has changed under it, and it
\* changed under the scan s or later.
Aged(f, m) == m < mod[f] \/ f \in quiet
Moved(f, m, s) == Aged(f, m) /\ s <= last[f]

\* What was read of f is what f holds.
Told(e, f) == e = NoEntry \/ (e.full = content[f] /\ e.pfx = <<content[f][1]>>)

\* All that was ever read of a file is still so, or the file moved on since.
EntryTrue(e, f) ==
  e.mod <= mod[f] /\ e.scan <= runs /\ (Told(e, f) \/ Moved(f, e.mod, e.scan))
EntriesTrue == \A f \in Paths : EntryTrue(disk.ents[f], f) /\ EntryTrue(store.ents[f], f)
WalkTrue == \A f \in Paths : seen[f] <= mod[f]
PrefixesTrue ==
  \A f \in Paths : pfx[f] # NoHash => pfx[f] = <<content[f][1]>> \/ Moved(f, seen[f], runs)
EvidenceTrue == \A f \in Paths : store.changed[f] # NoHash \/ info.flag[f] => Aged(f, seen[f])
ErrorsTrue == \A f \in Paths : broken[f] = "ok" => info.err[f] = "ok"
EvidenceFits == Cardinality({f \in Paths : store.changed[f] # NoHash}) <= ChangedMax
Reads == EntriesTrue /\ WalkTrue /\ PrefixesTrue /\ EvidenceTrue /\ ErrorsTrue /\ EvidenceFits

\* The disk has nothing of a later generation than g, and of g itself nothing
\* but what the scans of R have read.
Owned(g, R) ==
  /\ disk.gen <= g
  /\ \A f \in Paths : disk.ents[f].gen = g => disk.ents[f].scan \in R

\* No entry is of a later generation than its store.
Ordered == \A f \in Paths : disk.ents[f].gen <= disk.gen /\ store.ents[f].gen <= store.gen

\* With one failed write at most, a generation belongs to one scan and to the
\* runs it continues: in the markers, on disk and in the store.
OneFailure == used.failures <= 1
MarkersOwn == \A m \in {marker, notice} : m.gen # 0 => Owned(m.gen, m.runs)
WalkOwns == phase = "walked" => /\ adopt # 0 => Owned(adopt, line)
                                /\ marker # NoMarker => used.failures > 0
ScanOwns ==
  phase \notin {"idle", "walked"} =>
    /\ store.gen # 0 /\ Owned(store.gen, line)
    /\ \A f \in Paths : store.ents[f].gen = store.gen => store.ents[f].scan \in line
    /\ marker \in {NoMarker, [gen |-> store.gen, runs |-> line]}
Gens == Ordered /\ MarkersOwn /\ WalkOwns /\ ScanOwns

\* What the conflicts pass has in hand of a file nobody touched is what it holds.
Hashed ==
  phase \in {"hashed", "judged", "saved"} =>
    \A f \in Family : broken[f] = "ok" /\ ~Touched(f) => info.hash[f] = content[f]

ConflictsInv == Types /\ Control /\ Reads /\ (OneFailure => Gens /\ Hashed)

-----------------------------------------------------------------------------
(* Contents and entries.                                                   *)

\* A content has two cells; it and its prefix are hashes.
LEMMA ContentSays ==
  ASSUME NEW c \in Content
  PROVE  /\ Len(c) = 2 /\ c # NoHash
         /\ c \in Hash /\ <<c[1]>> \in Prefix /\ <<c[1]>> # NoHash
<1>1. c \in Seq(Cell) /\ Len(c) = 2
  <2>1. 2 \in Nat /\ c \in [1..2 -> Cell]
    BY DEF Content
  <2>2. c \in Seq(Cell)
    BY <2>1, SeqDef
  <2>3. QED
    BY <2>1, <2>2
<1>2. c[1] \in Cell
  BY DEF Content
<1>3. QED
  BY <1>1, <1>2 DEF Hash, Prefix, NoHash

\* An empty store, a blank hash and a marker that is not there.
LEMMA Empties ==
  /\ NoEntry \in Entry /\ NoEntry.mod = 0 /\ NoEntry.gen = 0 /\ NoEntry.scan = 0 /\ NoEntry.full = NoHash
  /\ EmptyDisk \in DiskType /\ EmptyDisk.gen = 0 /\ \A f \in Paths : EmptyDisk.ents[f] = NoEntry
  /\ Closed \in StoreType /\ Closed.gen = 0
  /\ \A f \in Paths : Closed.ents[f] = NoEntry /\ Closed.changed[f] = NoHash
  /\ Blanks \in [Paths -> Hash] /\ Blanks \in [Paths -> Prefix] /\ \A f \in Paths : Blanks[f] = NoHash
  /\ NoInfo \in InfoType /\ \A f \in Paths : NoInfo.err[f] = "ok" /\ ~NoInfo.flag[f]
  /\ NoMarker \in Marker /\ NoMarker.gen = 0 /\ NoMarker.runs = {}
<1>1. NoEntry \in Entry /\ NoEntry.mod = 0 /\ NoEntry.gen = 0 /\ NoEntry.scan = 0 /\ NoEntry.full = NoHash
  BY DEF NoEntry, Entry, Prefix, Hash
<1>2. /\ EmptyDisk \in DiskType /\ EmptyDisk.gen = 0 /\ \A f \in Paths : EmptyDisk.ents[f] = NoEntry
  BY <1>1 DEF EmptyDisk, DiskType
<1>3. NoHash \in Hash /\ NoHash \in Prefix
  BY DEF Hash, Prefix
<1>4. /\ Closed \in StoreType /\ Closed.gen = 0
      /\ \A f \in Paths : Closed.ents[f] = NoEntry /\ Closed.changed[f] = NoHash
  BY <1>1, <1>3 DEF Closed, StoreType
<1>5. Blanks \in [Paths -> Hash] /\ Blanks \in [Paths -> Prefix] /\ \A f \in Paths : Blanks[f] = NoHash
  BY <1>3 DEF Blanks
<1>6. NoInfo \in InfoType /\ \A f \in Paths : NoInfo.err[f] = "ok" /\ ~NoInfo.flag[f]
  BY <1>5 DEF NoInfo, InfoType, Errors
<1>7. NoMarker \in Marker /\ NoMarker.gen = 0 /\ NoMarker.runs = {}
  BY DEF NoMarker, Marker
<1>8. QED
  BY <1>1, <1>2, <1>4, <1>5, <1>6, <1>7

\* PrefixesOf reads the first cell of what can be read.
LEMMA PrefixesRead ==
  ASSUME FilesTyped, NEW S
  PROVE  /\ PrefixesOf(S) \in [Paths -> Prefix]
         /\ \A f \in Paths : IF f \in S /\ broken[f] = "ok" THEN PrefixesOf(S)[f] = <<content[f][1]>>
                                                              /\ PrefixesOf(S)[f] # NoHash
                             ELSE PrefixesOf(S)[f] = NoHash
<1>1. \A f \in Paths : <<content[f][1]>> \in Prefix /\ <<content[f][1]>> # NoHash
  BY ContentSays DEF FilesTyped
<1>2. NoHash \in Prefix
  BY DEF Prefix
<1>3. QED
  BY <1>1, <1>2 DEF PrefixesOf

\* The next generation's store, and a resumed one's, start from the disk.
LEMMA Opened ==
  ASSUME StoreTyped, NEW g \in Nat
  PROVE  /\ LoadResume(disk, g) \in StoreType
         /\ LoadResume(disk, g).gen = IF g = 0 THEN disk.gen + 1 ELSE g
         /\ LoadResume(disk, g).ents = disk.ents
         /\ \A f \in Paths : LoadResume(disk, g).changed[f] = NoHash
<1>1. disk.gen \in Nat /\ disk.ents \in [Paths -> Entry] /\ NoHash \in Hash
  BY DEF StoreTyped, DiskType, Hash
<1>2. /\ Load(disk) \in StoreType /\ Load(disk).gen = disk.gen + 1 /\ Load(disk).ents = disk.ents
      /\ \A f \in Paths : Load(disk).changed[f] = NoHash
  BY <1>1 DEF Load, StoreType
<1>3. CASE g = 0
  BY <1>2, <1>3 DEF LoadResume
<1>4. CASE g # 0
  <2> DEFINE c == Load(disk)
  <2>1. c \in StoreType /\ c.ents = disk.ents /\ (\A f \in Paths : c.changed[f] = NoHash)
        /\ LoadResume(disk, g) = [c EXCEPT !.gen = g]
    BY <1>2, <1>4 DEF LoadResume
  <2> HIDE DEF c
  <2>2. QED
    BY <1>4, <2>1 DEF StoreType
<1>5. QED
  BY <1>3, <1>4

-----------------------------------------------------------------------------
(* What happens to the files.                                              *)

\* An event changes one file: its content only with its time, or quietly.
LEMMA Disturbed ==
  ASSUME FilesTyped, runs \in Nat, Disturb
  PROVE  /\ UNCHANGED <<checks, state, scan>> /\ phase \notin {"judged", "saved"}
         /\ \E f \in Paths, c \in Content, e \in Errors :
              /\ content' = [content EXCEPT ![f] = c]
              /\ broken' = [broken EXCEPT ![f] = e] /\ (e # broken[f] => broken[f] = "ok")
              /\ last' = [last EXCEPT ![f] = runs]
              /\ saving' \subseteq saving \cup {f} /\ quiet' \subseteq quiet \cup {f}
              /\ quiet \subseteq quiet' \cup {f}
              /\ \/ mod' = mod /\ quiet \subseteq quiet' /\ (c # content[f] => f \in quiet')
                 \/ mod' = [mod EXCEPT ![f] = @ + 1]
<1> DEFINE Result(f, c, e) ==
             /\ content' = [content EXCEPT ![f] = c]
             /\ broken' = [broken EXCEPT ![f] = e] /\ (e # broken[f] => broken[f] = "ok")
             /\ last' = [last EXCEPT ![f] = runs]
             /\ saving' \subseteq saving \cup {f} /\ quiet' \subseteq quiet \cup {f}
             /\ quiet \subseteq quiet' \cup {f}
             /\ \/ mod' = mod /\ quiet \subseteq quiet' /\ (c # content[f] => f \in quiet')
                \/ mod' = [mod EXCEPT ![f] = @ + 1]
<1>1. /\ content \in [Paths -> Content] /\ broken \in [Paths -> Errors] /\ saving \subseteq Paths
      /\ \A f \in Paths : broken[f] \in Errors /\ content[f] \in Content
      /\ broken = [f \in Paths |-> broken[f]] /\ content = [f \in Paths |-> content[f]]
  BY DEF FilesTyped
<1>2. \A f \in Paths : broken = [broken EXCEPT ![f] = broken[f]] /\ content = [content EXCEPT ![f] = content[f]]
  BY <1>1
<1>3. ASSUME NEW f \in Paths, NEW c \in Content, NEW what, Quietly(f, c, what)
      PROVE  /\ UNCHANGED <<checks, state, scan>> /\ phase \notin {"judged", "saved"}
             /\ Result(f, c, broken[f])
  BY <1>1, <1>2, <1>3 DEF Quietly, Happens
<1>4. \A x \in {"flip", "zero", "edit"}, y \in {0} \cup Paths : [kind |-> x, of |-> y] \in Cell
  BY DEF Cell
<1>5. CASE Rot
  <2>1. PICK f \in Paths, i \in 1..2, kind \in {"flip", "zero"} :
          Quietly(f, [content[f] EXCEPT ![i] = [kind |-> kind, of |-> IF kind = "flip" THEN f ELSE 0]], kind)
    BY <1>5 DEF Rot
  <2> DEFINE x == [kind |-> kind, of |-> IF kind = "flip" THEN f ELSE 0]
             c == [content[f] EXCEPT ![i] = x]
  <2>2. x \in Cell
    BY <1>4
  <2>3. content[f] \in [1..2 -> Cell]
    BY <1>1 DEF Content
  <2>4. c \in Content
    <3> HIDE DEF x
    <3> QED BY <2>2, <2>3 DEF Content
  <2>5. Quietly(f, c, kind)
    BY <2>1
  <2> HIDE DEF c, x
  <2>6. QED
    BY <1>1, <1>3, <2>4, <2>5
<1>6. CASE QuietEdit
  <2>1. PICK f \in Paths : Quietly(f, [i \in 1..2 |-> [kind |-> "edit", of |-> f]], "edit")
    BY <1>6 DEF QuietEdit
  <2> DEFINE c == [i \in 1..2 |-> [kind |-> "edit", of |-> f]]
  <2>2. c \in Content
    BY <1>4 DEF Content
  <2>3. Quietly(f, c, "edit")
    BY <2>1
  <2> HIDE DEF c
  <2>4. QED
    BY <1>1, <1>3, <2>2, <2>3
<1>7. CASE Restore
  <2>1. PICK f \in Paths, g \in Paths : Quietly(f, content[g], "restore")
    BY <1>7 DEF Restore
  <2>2. QED
    BY <1>1, <1>3, <2>1
<1>8. CASE Save
  <2>1. PICK f \in Paths :
          /\ Happens(f, "save")
          /\ content' = [content EXCEPT ![f] = <<[kind |-> "edit", of |-> f], [kind |-> "zero", of |-> 0]>>]
          /\ mod' = [mod EXCEPT ![f] = @ + 1] /\ saving' = saving \cup {f}
          /\ quiet' = quiet \ {f} /\ UNCHANGED broken
    BY <1>8 DEF Save
  <2> DEFINE x == [kind |-> "edit", of |-> f]  y == [kind |-> "zero", of |-> 0]  c == <<x, y>>
  <2>2. x \in Cell /\ y \in Cell
    BY <1>4
  <2>3. c \in Content
    <3> HIDE DEF x, y
    <3> QED BY <2>2 DEF Content
  <2>4. content' = [content EXCEPT ![f] = c]
    BY <2>1
  <2> HIDE DEF c, x, y
  <2>5. /\ UNCHANGED <<checks, state, scan>> /\ phase \notin {"judged", "saved"}
        /\ last' = [last EXCEPT ![f] = runs]
    BY <2>1 DEF Happens
  <2>6. Result(f, c, broken[f])
    BY <1>1, <1>2, <2>1, <2>4, <2>5
  <2>7. QED
    BY <1>1, <2>3, <2>5, <2>6
<1>9. CASE SaveEnds
  <2>1. PICK f \in saving :
          /\ content' = [content EXCEPT ![f] = [i \in 1..2 |-> [kind |-> "edit", of |-> f]]]
          /\ mod' = [mod EXCEPT ![f] = @ + 1] /\ saving' = saving \ {f}
          /\ quiet' = quiet \ {f} /\ last' = [last EXCEPT ![f] = runs] /\ UNCHANGED broken
    BY <1>9 DEF SaveEnds
  <2> DEFINE c == [i \in 1..2 |-> [kind |-> "edit", of |-> f]]
  <2>2. c \in Content /\ f \in Paths
    BY <1>1, <1>4 DEF Content
  <2>3. content' = [content EXCEPT ![f] = c]
    BY <2>1
  <2> HIDE DEF c
  <2>4. UNCHANGED <<checks, state, scan>> /\ phase \notin {"judged", "saved"}
    BY <1>9 DEF SaveEnds
  <2>5. Result(f, c, broken[f])
    BY <1>1, <1>2, <2>1, <2>2, <2>3
  <2>6. QED
    BY <1>1, <2>2, <2>4, <2>5
<1>10. CASE Break
  <2>1. PICK f \in Paths, e \in {"eio", "denied"} :
          /\ Happens(f, "break") /\ broken[f] = "ok" /\ broken' = [broken EXCEPT ![f] = e]
          /\ UNCHANGED <<content, mod, saving, quiet>>
    BY <1>10 DEF Break
  <2>2. /\ UNCHANGED <<checks, state, scan>> /\ phase \notin {"judged", "saved"}
        /\ last' = [last EXCEPT ![f] = runs]
    BY <2>1 DEF Happens
  <2>3. Result(f, content[f], e) /\ e \in Errors
    BY <1>2, <2>1, <2>2 DEF Errors
  <2>4. QED
    BY <1>1, <2>2, <2>3
<1>11. QED
  BY <1>5, <1>6, <1>7, <1>8, <1>9, <1>10 DEF Disturb

\* No step makes a file look again as it did before.
LEMMA FilesStep ==
  Types /\ Control /\ [Next]_vars =>
    /\ FilesTyped'
    /\ Disturb \/ UNCHANGED <<content, mod, broken, last, quiet>>
    /\ Disturb => UNCHANGED scan /\ UNCHANGED state /\ phase \notin {"judged", "saved"}
    /\ \A f \in Paths :
         /\ mod[f] <= mod'[f] /\ last[f] <= last'[f] /\ last'[f] <= runs
         /\ \A m \in Nat : m <= mod[f] /\ Aged(f, m) => Aged(f, m)'
         /\ content'[f] # content[f] \/ broken'[f] # broken[f] => last'[f] = runs
         /\ content'[f] # content[f] => \A m \in Nat : m <= mod[f] => Aged(f, m)'
         /\ broken[f] # "ok" => broken'[f] # "ok"
<1> SUFFICES ASSUME Types, Control, [Next]_vars
             PROVE  /\ FilesTyped'
                    /\ Disturb \/ UNCHANGED <<content, mod, broken, last, quiet>>
                    /\ Disturb => UNCHANGED scan /\ UNCHANGED state /\ phase \notin {"judged", "saved"}
                    /\ \A f \in Paths :
                         /\ mod[f] <= mod'[f] /\ last[f] <= last'[f] /\ last'[f] <= runs
                         /\ \A m \in Nat : m <= mod[f] /\ Aged(f, m) => Aged(f, m)'
                         /\ content'[f] # content[f] \/ broken'[f] # broken[f] => last'[f] = runs
                         /\ content'[f] # content[f] => \A m \in Nat : m <= mod[f] => Aged(f, m)'
                         /\ broken[f] # "ok" => broken'[f] # "ok"
  OBVIOUS
<1>1. FilesTyped /\ runs \in Nat /\ \A f \in Paths : last[f] \in Nat /\ mod[f] \in Nat /\ last[f] <= runs
  BY DEF Types, FilesTyped, ScanTyped, Control
<1>2. CASE UNCHANGED <<checks, content, mod, broken, saving, last, quiet>> /\ ~Disturb
  <2>1. FilesTyped'
    BY <1>1, <1>2 DEF FilesTyped
  <2>2. QED
    BY <1>1, <1>2, <2>1 DEF Aged
<1>3. CASE Disturb
  <2>1. PICK f \in Paths, c \in Content, e \in Errors :
              /\ content' = [content EXCEPT ![f] = c]
              /\ broken' = [broken EXCEPT ![f] = e] /\ (e # broken[f] => broken[f] = "ok")
              /\ last' = [last EXCEPT ![f] = runs]
              /\ saving' \subseteq saving \cup {f} /\ quiet' \subseteq quiet \cup {f}
              /\ quiet \subseteq quiet' \cup {f}
              /\ \/ mod' = mod /\ quiet \subseteq quiet' /\ (c # content[f] => f \in quiet')
                 \/ mod' = [mod EXCEPT ![f] = @ + 1]
    BY <1>1, <1>3, Disturbed
  <2>2. UNCHANGED checks /\ UNCHANGED scan /\ UNCHANGED state /\ phase \notin {"judged", "saved"}
    BY <1>1, <1>3, Disturbed
  <2>3. FilesTyped'
    <3>1. mod' \in [Paths -> Nat] /\ last' \in [Paths -> Nat]
      BY <1>1, <2>1 DEF FilesTyped
    <3>2. content' \in [Paths -> Content] /\ broken' \in [Paths -> Errors]
      BY <1>1, <2>1 DEF FilesTyped
    <3>3. saving' \subseteq Paths /\ quiet' \subseteq Paths /\ checks' \in BOOLEAN
      BY <1>1, <2>1, <2>2 DEF FilesTyped
    <3>4. QED
      BY <3>1, <3>2, <3>3 DEF FilesTyped
  <2>4. ASSUME NEW g \in Paths, g # f
        PROVE  /\ content'[g] = content[g] /\ broken'[g] = broken[g] /\ last'[g] = last[g]
               /\ mod'[g] = mod[g] /\ (g \in quiet <=> g \in quiet')
    BY <1>1, <2>1, <2>4 DEF FilesTyped
  <2>5. /\ content'[f] = c /\ broken'[f] = e /\ last'[f] = runs
        /\ \/ mod'[f] = mod[f] /\ (f \in quiet => f \in quiet') /\ (c # content[f] => f \in quiet')
           \/ mod'[f] = mod[f] + 1
    BY <1>1, <2>1 DEF FilesTyped
  <2>6. ASSUME NEW g \in Paths
        PROVE  /\ mod[g] <= mod'[g] /\ last[g] <= last'[g] /\ last'[g] <= runs
               /\ \A m \in Nat : m <= mod[g] /\ Aged(g, m) => Aged(g, m)'
               /\ content'[g] # content[g] \/ broken'[g] # broken[g] => last'[g] = runs
               /\ content'[g] # content[g] => \A m \in Nat : m <= mod[g] => Aged(g, m)'
               /\ broken[g] # "ok" => broken'[g] # "ok"
    <3>1. CASE g # f
      BY <1>1, <2>4, <3>1 DEF Aged
    <3>2. CASE g = f
      BY <1>1, <2>1, <2>5, <3>2 DEF Aged
    <3>3. QED
      BY <3>1, <3>2
  <2>7. QED
    BY <1>3, <2>2, <2>3, <2>6
<1>4. CASE Pass \/ Stop \/ Crash
  BY <1>2, <1>3, <1>4 DEF Pass, Start, Open, DupPrefix, DupHash, CorrPrefix, CorrHash, Judge, SaveStore,
     Publish, Stop, Crash, files
<1>5. CASE UNCHANGED vars
  BY <1>2, <1>3, <1>5 DEF vars, files
<1>6. QED
  BY <1>3, <1>4, <1>5 DEF Next

-----------------------------------------------------------------------------
(* Types and control.                                                      *)

\* A bounded mishap is counted.
LEMMA Spent ==
  ASSUME used \in [events : Nat, crashes : Nat, failures : Nat],
         NEW what \in {"events", "crashes", "failures"}, NEW max, Spend(what, max)
  PROVE  /\ used' \in [events : Nat, crashes : Nat, failures : Nat]
         /\ used'.failures = IF what = "failures" THEN used.failures + 1 ELSE used.failures
<1>1. used' = [used EXCEPT ![what] = used[what] + 1]
  BY DEF Spend
<1>2. used[what] \in Nat
  OBVIOUS
<1>3. CASE what = "events"
  BY <1>1, <1>2, <1>3
<1>4. CASE what = "crashes"
  BY <1>1, <1>2, <1>4
<1>5. CASE what = "failures"
  BY <1>1, <1>2, <1>5
<1>6. QED
  BY <1>3, <1>4, <1>5

\* What each step can do to the count: a failed write is counted and no
\* count goes down.
LEMMA Counted ==
  Types /\ [Next]_vars =>
    /\ used' \in [events : Nat, crashes : Nat, failures : Nat]
    /\ used.failures <= used'.failures
    /\ Fails => used'.failures = used.failures + 1
<1> SUFFICES ASSUME Types, [Next]_vars
             PROVE  /\ used' \in [events : Nat, crashes : Nat, failures : Nat]
                    /\ used.failures <= used'.failures
                    /\ Fails => used'.failures = used.failures + 1
  OBVIOUS
<1>1. used \in [events : Nat, crashes : Nat, failures : Nat] /\ used.failures \in Nat
  BY DEF Types, ScanTyped
<1>2. CASE Fails
  BY <1>1, <1>2, Spent DEF Fails
<1>3. CASE UNCHANGED used /\ ~Fails
  BY <1>1, <1>3
<1>4. CASE Spend("events", MaxEvents) \/ Spend("crashes", MaxCrashes)
  <2>1. /\ used' \in [events : Nat, crashes : Nat, failures : Nat]
        /\ used'.failures = used.failures
    BY <1>1, <1>4, Spent
  <2>2. ~Fails
    BY <1>1, <1>2, <2>1
  <2>3. QED
    BY <1>1, <2>1, <2>2
<1>5. CASE Pass
  BY <1>2, <1>3, <1>5 DEF Pass, Start, WriteMarker, Open, DupPrefix, DupHash, Persist, CorrPrefix, CorrHash,
     Judge, SaveStore, Publish
<1>6. CASE Stop
  BY <1>2, <1>3, <1>6 DEF Stop
<1>7. CASE Crash
  BY <1>4, <1>7 DEF Crash
<1>8. CASE Disturb
  BY <1>2, <1>3, <1>4, <1>8 DEF Disturb, Rot, QuietEdit, Restore, Quietly, Save, SaveEnds, Break, Happens
<1>9. CASE UNCHANGED vars
  BY <1>2, <1>3, <1>9 DEF vars
<1>10. QED
  BY <1>5, <1>6, <1>7, <1>8, <1>9 DEF Next

\* A pass that reads the files of S in full and records them: the entries it
\* was not asked for stay, and the rest say who read them.
LEMMA Hashing ==
  ASSUME Types, NEW S \in SUBSET Paths,
         NEW K \in Fitting(store, Displaced(store, S, seen, pfx, content)),
         store' = Record(store, S, seen, pfx, content, runs, K)
  PROVE  /\ store' \in StoreType /\ store'.gen = store.gen
         /\ K \subseteq Displaced(store, S, seen, pfx, content)
         /\ K \subseteq Paths
         /\ \A f \in Paths :
              /\ store'.ents[f] =
                   IF f \notin S THEN store.ents[f]
                   ELSE [mod |-> seen[f], pfx |-> pfx[f], full |-> content[f],
                         gen |-> store.gen, scan |-> runs]
              /\ store'.changed[f] = IF f \in K THEN store.ents[f].full ELSE store.changed[f]
<1> DEFINE R(f) == [mod |-> seen[f], pfx |-> pfx[f], full |-> content[f],
                    gen |-> store.gen, scan |-> runs]
           E == [f \in Paths |-> IF f \notin S THEN store.ents[f] ELSE R(f)]
           C == [f \in Paths |-> IF f \in K THEN store.ents[f].full ELSE store.changed[f]]
<1>1. /\ store \in StoreType /\ seen \in [Paths -> Nat] /\ pfx \in [Paths -> Prefix] /\ runs \in Nat
      /\ \A f \in Paths : content[f] \in Hash
  BY DEF Types, FilesTyped, StoreTyped, ScanTyped, Hash
<1>2. store.gen \in Nat /\ store.ents \in [Paths -> Entry] /\ store.changed \in [Paths -> Hash]
  BY <1>1 DEF StoreType
<1>3. K \subseteq Displaced(store, S, seen, pfx, content) /\ K \subseteq Paths
  BY DEF Fitting, Displaced
<1>4. \A f \in Paths : R(f) \in Entry
  BY <1>1, <1>2 DEF Entry
<1>5. store' = [store EXCEPT !.ents = E, !.changed = C]
  BY DEF Record
<1> HIDE DEF R
<1>6. /\ E \in [Paths -> Entry]
      /\ \A f \in Paths : E[f] = IF f \notin S THEN store.ents[f] ELSE R(f)
  BY <1>2, <1>4
<1>7. /\ C \in [Paths -> Hash]
      /\ \A f \in Paths : C[f] = IF f \in K THEN store.ents[f].full ELSE store.changed[f]
  BY <1>2 DEF Entry
<1> HIDE DEF E, C
<1>8. /\ store' \in StoreType /\ store'.gen = store.gen /\ store'.ents = E /\ store'.changed = C
  BY <1>1, <1>5, <1>6, <1>7 DEF StoreType
<1>9. QED
  BY <1>3, <1>6, <1>7, <1>8 DEF R

\* A write of the store c leaves it on disk, or what was there.
LEMMA Persisted ==
  ASSUME NEW c, Persist(c)
  PROVE  disk' = disk \/ disk' = [gen |-> c.gen, ents |-> c.ents]
BY DEF Persist, Saved

\* What the conflicts pass knows of the past of a file is a hash.
LEMMA PriorTyped ==
  ASSUME NEW c \in StoreType, NEW f \in Paths, NEW m, NEW p
  PROVE  Prior(c, f, m, p) \in Hash
<1>1. c.ents \in [Paths -> Entry] /\ c.changed \in [Paths -> Hash] /\ NoHash \in Hash
  BY DEF StoreType, Hash
<1>2. c.ents[f].full \in Hash
  BY <1>1 DEF Entry
<1>3. QED
  BY <1>1, <1>2 DEF Prior, PriorInEntry

\* The two stores keep their types.
LEMMA StoresTyped ==
  Types /\ [Next]_vars => StoreTyped'
<1> SUFFICES ASSUME Types, [Next]_vars PROVE StoreTyped'
  OBVIOUS
<1>1. disk \in DiskType /\ store \in StoreType
  BY DEF Types, StoreTyped
<1>2. ASSUME store' \in StoreType, disk' = disk \/ disk' = [gen |-> store'.gen, ents |-> store'.ents]
      PROVE  StoreTyped'
  BY <1>1, <1>2 DEF StoreTyped, StoreType, DiskType
<1>3. CASE Open
  <2>1. adopt \in Nat /\ StoreTyped
    BY DEF Types, ScanTyped
  <2>2. store' = LoadResume(disk, adopt) /\ disk' = disk
    BY <1>3 DEF Open
  <2>3. QED
    BY <1>2, <2>1, <2>2, Opened
<1>4. CASE DupHash
  <2> DEFINE S == FullReads({f \in Paths : pfx[f] # NoHash /\ \E g \in Paths \ {f} : pfx[g] = pfx[f]})
  <2>1. PICK K \in Fitting(store, Displaced(store, S, seen, pfx, content)) :
          store' = Record(store, S, seen, pfx, content, runs, K) /\ Persist(store')
    BY <1>4 DEF DupHash
  <2>2. S \in SUBSET Paths
    BY DEF FullReads
  <2> HIDE DEF S
  <2>3. store' \in StoreType
    BY <2>1, <2>2, Hashing
  <2>4. disk' = disk \/ disk' = [gen |-> store'.gen, ents |-> store'.ents]
    BY <2>1, Persisted
  <2>5. QED
    BY <1>2, <2>3, <2>4
<1>5. CASE CorrHash
  <2> DEFINE S == FullReads({f \in Family : info.err[f] = "ok"})
  <2>1. PICK K \in Fitting(store, Displaced(store, S, seen, pfx, content)) :
          store' = Record(store, S, seen, pfx, content, runs, K)
    BY <1>5 DEF CorrHash
  <2>2. S \in SUBSET Paths
    BY DEF FullReads, Family
  <2> HIDE DEF S
  <2>3. store' \in StoreType
    BY <2>1, <2>2, Hashing
  <2>4. disk' = disk
    BY <1>5 DEF CorrHash, state
  <2>5. QED
    BY <1>2, <2>3, <2>4
<1>6. CASE SaveStore
  <2>1. store' = store /\ Persist(store)
    BY <1>6 DEF SaveStore
  <2>2. disk' = disk \/ disk' = [gen |-> store.gen, ents |-> store.ents]
    BY <2>1, Persisted
  <2>3. QED
    BY <1>1, <1>2, <2>1, <2>2
<1>7. CASE Publish \/ Stop \/ Crash
  <2>1. store' = Closed /\ disk' = disk
    BY <1>7 DEF Publish, Stop, Crash, Ended
  <2>2. QED
    BY <1>2, <2>1, Empties
<1>8. CASE UNCHANGED <<disk, store>>
  BY <1>1, <1>8 DEF StoreTyped
<1>9. CASE Start \/ DupPrefix \/ CorrPrefix \/ Judge \/ Disturb \/ UNCHANGED vars
  <2>1. Disturb => UNCHANGED <<disk, store>>
    BY DEF Disturb, Rot, QuietEdit, Restore, Quietly, Save, SaveEnds, Break, Happens, state, scan
  <2>2. QED
    BY <1>8, <1>9, <2>1 DEF Start, DupPrefix, CorrPrefix, Judge, vars, state, scan
<1>10. QED
  BY <1>3, <1>4, <1>5, <1>6, <1>7, <1>9 DEF Next, Pass

\* The findings of the conflicts pass, and the prefixes, keep their types.
LEMMA FindingsTyped ==
  Types /\ [Next]_vars => pfx' \in [Paths -> Prefix] /\ info' \in InfoType
<1> SUFFICES ASSUME Types, [Next]_vars
             PROVE  pfx' \in [Paths -> Prefix] /\ info' \in InfoType
  OBVIOUS
<1>1. /\ pfx \in [Paths -> Prefix] /\ info \in InfoType /\ store \in StoreType
      /\ broken \in [Paths -> Errors] /\ FilesTyped
  BY DEF Types, FilesTyped, StoreTyped, ScanTyped
<1>2. CASE UNCHANGED <<pfx, info>>
  BY <1>1, <1>2
<1>3. CASE DupPrefix
  BY <1>1, <1>3, PrefixesRead DEF DupPrefix
<1>4. CASE DupHash
  BY <1>1, <1>4, Empties DEF DupHash
<1>5. CASE CorrPrefix
  <2> DEFINE P == [f \in Paths |-> IF pfx'[f] = NoHash THEN NoHash ELSE Prior(store, f, seen[f], pfx'[f])]
             X == [f \in Paths |-> IF f \in Family THEN broken[f] ELSE "ok"]
             F == [f \in Paths |-> P[f] # NoHash]
  <2>1. pfx' \in [Paths -> Prefix]
    BY <1>1, <1>5, PrefixesRead DEF CorrPrefix
  <2>2. P \in [Paths -> Hash]
    <3>1. NoHash \in Hash
      BY DEF Hash
    <3>2. \A f \in Paths : Prior(store, f, seen[f], pfx'[f]) \in Hash
      BY <1>1, PriorTyped
    <3>3. QED
      BY <3>1, <3>2
  <2>3. X \in [Paths -> Errors]
    BY <1>1 DEF Errors
  <2>4. info' = [hash |-> Blanks, err |-> X, flag |-> F, prior |-> P]
    BY <1>5 DEF CorrPrefix
  <2>5. F \in [Paths -> BOOLEAN]
    OBVIOUS
  <2> HIDE DEF X, F, P
  <2>6. QED
    BY <2>1, <2>2, <2>3, <2>4, <2>5, Empties DEF InfoType
<1>6. CASE CorrHash
  <2> DEFINE asked == {f \in Family : info.err[f] = "ok"}
             hits == Hits(asked)
             read == FullReads(asked)
             moved == Displaced(store, read, seen, pfx, content)
             H == [f \in Paths |-> CASE f \in hits -> store.ents[f].full
                                     [] f \in read -> content[f]
                                     [] OTHER -> NoHash]
             X == [f \in Paths |-> IF f \in asked \ hits THEN broken[f] ELSE info.err[f]]
             F == [f \in Paths |-> f \in moved \/ info.flag[f]]
             P == [f \in Paths |-> IF f \in moved THEN store.ents[f].full ELSE info.prior[f]]
  <2>1. pfx' = Blanks /\ info' = [hash |-> H, err |-> X, flag |-> F, prior |-> P]
    BY <1>6 DEF CorrHash
  <2>2. \A f \in Paths : /\ store.ents[f].full \in Hash /\ content[f] \in Hash /\ info.prior[f] \in Hash
                         /\ NoHash \in Hash /\ info.err[f] \in Errors /\ info.flag[f] \in BOOLEAN
                         /\ broken[f] \in Errors
    BY <1>1 DEF StoreType, Entry, FilesTyped, Hash, InfoType
  <2> HIDE DEF asked, hits, read, moved
  <2>3. H \in [Paths -> Hash]
    BY <2>2
  <2>4. X \in [Paths -> Errors] /\ P \in [Paths -> Hash]
    BY <2>2
  <2>5. F \in [Paths -> BOOLEAN]
    BY <2>2
  <2> HIDE DEF H, X, F, P
  <2>6. QED
    BY <2>1, <2>3, <2>4, <2>5, Empties DEF InfoType
<1>7. CASE Publish \/ Stop \/ Crash
  BY <1>7, Empties DEF Publish, Stop, Crash, Ended, Nothing
<1>8. CASE Start \/ Open \/ Judge \/ SaveStore \/ Disturb \/ UNCHANGED vars
  <2>1. Disturb => UNCHANGED <<pfx, info>>
    BY DEF Disturb, Rot, QuietEdit, Restore, Quietly, Save, SaveEnds, Break, Happens, scan
  <2>2. QED
    BY <1>2, <1>8, <2>1 DEF Start, Open, Judge, SaveStore, vars, scan
<1>9. QED
  BY <1>3, <1>4, <1>5, <1>6, <1>7, <1>8 DEF Next, Pass

\* Where the scan is, its markers and its runs keep their types.
LEMMA ScansTyped ==
  Types /\ [Next]_vars => ScanTyped'
<1> SUFFICES ASSUME Types, [Next]_vars PROVE ScanTyped'
  OBVIOUS
<1>1. /\ marker \in Marker /\ notice \in Marker /\ phase \in Phases /\ adopt \in Nat
      /\ seen \in [Paths -> Nat] /\ runs \in Nat /\ line \subseteq Nat /\ mod \in [Paths -> Nat]
  BY DEF Types, FilesTyped, ScanTyped
<1>2. /\ pfx' \in [Paths -> Prefix] /\ info' \in InfoType
      /\ used' \in [events : Nat, crashes : Nat, failures : Nat]
  BY FindingsTyped, Counted
<1>3. ASSUME marker' \in Marker, notice' \in Marker, phase' \in Phases, adopt' \in Nat,
             seen' \in [Paths -> Nat], runs' \in Nat, line' \subseteq Nat
      PROVE  ScanTyped'
  BY <1>2, <1>3 DEF ScanTyped
<1>4. NoMarker \in Marker
  BY Empties
<1>5. \A m : WriteMarker(m) => marker' = m \/ marker' = marker
  BY DEF WriteMarker
<1>6. CASE Start
  <2>1. notice.gen \in Nat /\ notice.runs \subseteq Nat
    BY <1>1 DEF Marker
  <2>2. adopt' \in Nat /\ line' \subseteq Nat /\ runs' \in Nat
    BY <1>1, <1>6, <2>1 DEF Start
  <2>3. marker' \in Marker /\ notice' \in Marker /\ phase' \in Phases /\ seen' \in [Paths -> Nat]
    BY <1>1, <1>4, <1>5, <1>6 DEF Start, Phases
  <2>4. QED
    BY <1>3, <2>2, <2>3
<1>7. CASE Open
  <2>1. store'.gen \in Nat
    BY StoresTyped DEF StoreTyped, StoreType
  <2>2. [gen |-> store'.gen, runs |-> line] \in Marker
    BY <1>1, <2>1 DEF Marker
  <2>3. marker' \in Marker /\ UNCHANGED <<notice, adopt, seen, runs, line>> /\ phase' \in Phases
    BY <1>1, <1>5, <1>7, <2>2 DEF Open, Phases
  <2>4. QED
    BY <1>1, <1>3, <2>3
<1>8. CASE DupPrefix \/ DupHash \/ CorrPrefix \/ CorrHash \/ Judge \/ SaveStore
  <2>1. phase' \in Phases /\ UNCHANGED <<marker, notice, adopt, seen, runs, line>>
    BY <1>8 DEF DupPrefix, DupHash, CorrPrefix, CorrHash, Judge, SaveStore, Phases, state
  <2>2. QED
    BY <1>1, <1>3, <2>1
<1>9. CASE Publish \/ Stop \/ Crash
  <2>1. phase' \in Phases /\ UNCHANGED <<adopt, seen, runs, line>>
        /\ marker' \in {marker, NoMarker} /\ notice' \in {notice, marker}
    BY <1>9 DEF Publish, Stop, Crash, Ended, Phases
  <2>2. QED
    BY <1>1, <1>3, <1>4, <2>1
<1>10. CASE Disturb \/ UNCHANGED vars
  <2>1. Disturb => UNCHANGED <<marker, notice, phase, adopt, seen, runs, line>>
    BY DEF Disturb, Rot, QuietEdit, Restore, Quietly, Save, SaveEnds, Break, Happens, scan, state
  <2>2. UNCHANGED <<marker, notice, phase, adopt, seen, runs, line>>
    BY <1>10, <2>1 DEF vars, scan, state
  <2>3. QED
    BY <1>1, <1>3, <2>2
<1>11. QED
  BY <1>6, <1>7, <1>8, <1>9, <1>10 DEF Next, Pass

\* Every step keeps the order of the passes.
LEMMA ControlStep ==
  Types /\ Control /\ [Next]_vars => Control'
<1> SUFFICES ASSUME Types, Control, [Next]_vars PROVE Control'
  OBVIOUS
<1>1. runs \in Nat /\ line \subseteq 1..runs /\ marker.runs \subseteq 1..runs /\ notice.runs \subseteq 1..runs
  BY DEF Types, ScanTyped, Control
<1>2. \A f \in Paths : last'[f] <= runs /\ last'[f] \in Nat
  BY FilesStep DEF FilesTyped
<1>3. \A m : WriteMarker(m) => marker' = m \/ marker' = marker
  BY DEF WriteMarker
<1>4. ASSUME runs' = runs,
             line' \cup marker'.runs \cup notice'.runs \subseteq line \cup marker.runs \cup notice.runs,
             phase' # "idle" => runs \in line' /\ notice' = NoMarker,
             phase' \in {"idle", "walked"} => store' = Closed,
             phase' \in {"idle", "walked", "open", "grouped"} => pfx' = Blanks,
             phase' \in {"idle", "walked", "open", "prefixes", "grouped"} => info' = NoInfo,
             phase' = "windowed" => \A f \in Family' : info'.err[f] = "ok" => pfx'[f] # NoHash
      PROVE  Control'
  <2>1. line' \cup marker'.runs \cup notice'.runs \subseteq 1..runs'
    BY <1>1, <1>4
  <2>2. QED
    BY <1>2, <1>4, <2>1 DEF Control
<1>5. NoMarker.runs = {}
  BY Empties
<1>6. CASE Start
  <2>1. /\ runs' = runs + 1 /\ line' \subseteq {runs + 1} \cup notice.runs /\ runs + 1 \in line'
        /\ notice' = NoMarker /\ marker' \in {marker, NoMarker} /\ phase' = "walked" /\ phase = "idle"
        /\ UNCHANGED <<store, pfx, info>>
    BY <1>3, <1>6 DEF Start
  <2>2. line' \cup marker'.runs \cup notice'.runs \subseteq 1..runs'
    <3>1. 1..runs \subseteq 1..(runs + 1) /\ runs + 1 \in 1..(runs + 1)
      BY <1>1
    <3>2. /\ notice'.runs = {} /\ marker'.runs \in {marker.runs, {}}
          /\ line' \subseteq {runs + 1} \cup notice.runs
      BY <1>5, <2>1
    <3>3. line' \subseteq 1..(runs + 1)
      BY <1>1, <3>1, <3>2
    <3>4. marker'.runs \subseteq 1..(runs + 1) /\ notice'.runs \subseteq 1..(runs + 1)
      BY <1>1, <3>1, <3>2
    <3>5. runs' = runs + 1
      BY <2>1
    <3>6. QED
      BY <3>3, <3>4, <3>5
  <2>3. \A f \in Paths : last'[f] <= runs'
    BY <1>1, <1>2, <2>1
  <2>4. QED
    BY <2>1, <2>2, <2>3 DEF Control
<1>7. CASE Open
  <2>1. /\ phase = "walked" /\ phase' = "open" /\ UNCHANGED <<notice, pfx, info, runs, line>>
        /\ marker' = [gen |-> store'.gen, runs |-> line] \/ marker' = marker
    BY <1>3, <1>7 DEF Open
  <2>2. marker'.runs \subseteq line \cup marker.runs
    BY <2>1
  <2> HIDE <1>7
  <2>3. QED
    BY <1>4, <2>1, <2>2 DEF Control
<1>8. CASE CorrPrefix
  <2>1. /\ phase = "grouped" /\ phase' = "windowed" /\ UNCHANGED <<marker, notice, seen, runs, line>>
        /\ pfx' = PrefixesOf(Family) /\ info'.err = [f \in Paths |-> IF f \in Family THEN broken[f] ELSE "ok"]
    BY <1>8 DEF CorrPrefix, state
  <2>2. \A f \in Family' : info'.err[f] = "ok" => pfx'[f] # NoHash
    BY <2>1, PrefixesRead DEF Family, Types
  <2> HIDE <1>8
  <2>3. QED
    BY <1>4, <2>1, <2>2 DEF Control
<1>9. CASE DupPrefix \/ DupHash \/ CorrHash \/ Judge \/ SaveStore
  <2>1. /\ UNCHANGED <<marker, notice, runs, line>> /\ phase # "idle"
        /\ phase' \in {"prefixes", "grouped", "hashed", "judged", "saved"}
    BY <1>9 DEF DupPrefix, DupHash, CorrHash, Judge, SaveStore, state
  <2>2. /\ phase' = "grouped" => pfx' = Blanks
        /\ phase' \in {"prefixes", "grouped"} => info' = info /\ phase \in {"open", "prefixes"}
    BY <1>9 DEF DupPrefix, DupHash, CorrHash, Judge, SaveStore
  <2> HIDE <1>9
  <2>3. QED
    BY <1>4, <2>1, <2>2 DEF Control
<1>10. CASE Publish \/ Stop \/ Crash
  <2>1. /\ phase' = "idle" /\ UNCHANGED <<runs, line>> /\ store' = Closed /\ pfx' = Blanks /\ info' = NoInfo
        /\ marker' \in {marker, NoMarker} /\ notice' \in {notice, marker}
    BY <1>10 DEF Publish, Stop, Crash, Ended, Nothing
  <2>2. line' \cup marker'.runs \cup notice'.runs \subseteq line \cup marker.runs \cup notice.runs
    BY <1>5, <2>1
  <2> HIDE <1>10
  <2>3. QED
    BY <1>4, <2>1, <2>2
<1>11. CASE Disturb \/ UNCHANGED vars
  <2>1. Disturb => UNCHANGED <<marker, notice, phase, seen, store, pfx, info, runs, line>>
    BY DEF Disturb, Rot, QuietEdit, Restore, Quietly, Save, SaveEnds, Break, Happens, scan, state
  <2>2. UNCHANGED <<marker, notice, phase, seen, store, pfx, info, runs, line>>
    BY <1>11, <2>1 DEF vars, scan, state
  <2>3. Family' = Family
    BY <2>2 DEF Family
  <2>4. /\ phase # "idle" => runs \in line /\ notice = NoMarker
        /\ phase \in {"idle", "walked"} => store = Closed
        /\ phase \in {"idle", "walked", "open", "grouped"} => pfx = Blanks
        /\ phase \in {"idle", "walked", "open", "prefixes", "grouped"} => info = NoInfo
        /\ phase = "windowed" => \A f \in Family : info.err[f] = "ok" => pfx[f] # NoHash
    BY DEF Control
  <2> HIDE <1>11
  <2>5. QED
    BY <1>4, <2>2, <2>3, <2>4
<1>12. QED
  BY <1>6, <1>7, <1>8, <1>9, <1>10, <1>11 DEF Next, Pass

LEMMA TypesStep ==
  Types /\ Control /\ [Next]_vars => Types'
BY FilesStep, StoresTyped, ScansTyped DEF Types

-----------------------------------------------------------------------------
(* What was read of the files.                                             *)

LEMMA RunsStep ==
  Types /\ [Next]_vars => runs' = runs \/ (Start /\ runs' = runs + 1)
<1> SUFFICES ASSUME Types, [Next]_vars PROVE runs' = runs \/ (Start /\ runs' = runs + 1)
  OBVIOUS
<1>1. CASE Pass \/ Stop \/ Crash
  BY <1>1 DEF Pass, Start, Open, DupPrefix, DupHash, CorrPrefix, CorrHash, Judge, SaveStore, Publish,
     Stop, Crash
<1>2. CASE Disturb
  BY <1>2 DEF Disturb, Rot, QuietEdit, Restore, Quietly, Save, SaveEnds, Break, Happens, scan
<1>3. CASE UNCHANGED vars
  BY <1>3 DEF vars, scan
<1>4. QED
  BY <1>1, <1>2, <1>3 DEF Next

\* The two passes that read files in full: whose prefix is known and who can
\* be read.
LEMMA HashPass ==
  ASSUME Types, Control, DupHash \/ CorrHash
  PROVE  \E S \in SUBSET Paths :
           /\ \E K \in Fitting(store, Displaced(store, S, seen, pfx, content)) :
                store' = Record(store, S, seen, pfx, content, runs, K)
           /\ \A f \in S : pfx[f] # NoHash
           /\ disk' = disk \/ disk' = [gen |-> store'.gen, ents |-> store'.ents]
           /\ UNCHANGED <<content, mod, broken, last, quiet, seen, runs, line, marker, notice>>
           /\ pfx' = Blanks
<1>1. CASE DupHash
  <2> DEFINE S == FullReads({f \in Paths : pfx[f] # NoHash /\ \E g \in Paths \ {f} : pfx[g] = pfx[f]})
  <2>1. PICK K \in Fitting(store, Displaced(store, S, seen, pfx, content)) :
          store' = Record(store, S, seen, pfx, content, runs, K) /\ Persist(store')
    BY <1>1 DEF DupHash
  <2>2. S \in SUBSET Paths /\ \A f \in S : pfx[f] # NoHash
    BY DEF FullReads
  <2> HIDE DEF S
  <2>3. disk' = disk \/ disk' = [gen |-> store'.gen, ents |-> store'.ents]
    BY <2>1, Persisted
  <2>4. UNCHANGED <<content, mod, broken, last, quiet, seen, runs, line, marker, notice>> /\ pfx' = Blanks
    BY <1>1 DEF DupHash, files
  <2>5. QED
    BY <2>1, <2>2, <2>3, <2>4
<1>2. CASE CorrHash
  <2> DEFINE S == FullReads({f \in Family : info.err[f] = "ok"})
  <2>1. PICK K \in Fitting(store, Displaced(store, S, seen, pfx, content)) :
          store' = Record(store, S, seen, pfx, content, runs, K)
    BY <1>2 DEF CorrHash
  <2>2. S \in SUBSET Paths /\ \A f \in S : pfx[f] # NoHash
    <3>1. S \subseteq {f \in Family : info.err[f] = "ok"} /\ Family \subseteq Paths
      BY DEF FullReads, Family
    <3>2. phase = "windowed"
      BY <1>2 DEF CorrHash
    <3>3. QED
      BY <3>1, <3>2 DEF Control
  <2> HIDE DEF S
  <2>3. /\ UNCHANGED <<content, mod, broken, last, quiet, seen, runs, line, marker, notice>>
        /\ pfx' = Blanks /\ disk' = disk
    BY <1>2 DEF CorrHash, files, state
  <2>4. QED
    BY <2>1, <2>2, <2>3
<1>3. QED
  BY <1>1, <1>2

\* What an entry says of its file stays true of it.
LEMMA EntryStays ==
  ASSUME Types, Control, [Next]_vars, NEW f \in Paths, NEW e \in Entry, EntryTrue(e, f)
  PROVE  EntryTrue(e, f)'
<1>1. /\ mod[f] \in Nat /\ mod'[f] \in Nat /\ last[f] \in Nat /\ last'[f] \in Nat /\ runs \in Nat
      /\ runs' \in Nat
  BY FilesStep, ScansTyped DEF Types, FilesTyped, ScanTyped
<1>2. e.mod \in Nat /\ e.scan \in Nat
  BY DEF Entry
<1>3. mod[f] <= mod'[f] /\ last[f] <= last'[f] /\ runs <= runs'
  BY <1>1, FilesStep, RunsStep
<1>4. e.mod <= mod[f] /\ e.scan <= runs
  BY DEF EntryTrue
<1>5. e.mod <= mod'[f] /\ e.scan <= runs'
  BY <1>1, <1>2, <1>3, <1>4
<1>6. CASE Moved(f, e.mod, e.scan)
  <2>1. Aged(f, e.mod) /\ e.scan <= last[f]
    BY <1>6 DEF Moved
  <2>2. Aged(f, e.mod)'
    BY <1>2, <1>4, <2>1, FilesStep
  <2>3. e.scan <= last'[f]
    BY <1>1, <1>2, <1>3, <2>1
  <2>4. Moved(f, e.mod, e.scan)'
    BY <2>2, <2>3 DEF Moved
  <2>5. QED
    BY <1>5, <2>4 DEF EntryTrue
<1>7. CASE Told(e, f) /\ content'[f] = content[f]
  <2>1. Told(e, f)'
    BY <1>7 DEF Told
  <2>2. QED
    BY <1>5, <2>1 DEF EntryTrue
<1>8. CASE content'[f] # content[f]
  <2>1. Aged(f, e.mod)' /\ last'[f] = runs
    BY <1>2, <1>4, <1>8, FilesStep
  <2>2. Moved(f, e.mod, e.scan)'
    BY <1>4, <2>1 DEF Moved
  <2>3. QED
    BY <1>5, <2>2 DEF EntryTrue
<1>9. QED
  BY <1>6, <1>7, <1>8 DEF EntryTrue

\* The entries on disk and in memory are the old ones, none, or what a pass
\* has just read.
LEMMA EntriesStep ==
  Types /\ Control /\ Reads /\ [Next]_vars => EntriesTrue'
<1> SUFFICES ASSUME Types, Control, Reads, [Next]_vars PROVE EntriesTrue'
  OBVIOUS
<1>1. /\ \A f \in Paths : /\ disk.ents[f] \in Entry /\ EntryTrue(disk.ents[f], f)
                          /\ store.ents[f] \in Entry /\ EntryTrue(store.ents[f], f)
                          /\ mod[f] \in Nat /\ seen[f] \in Nat
      /\ StoreTyped /\ adopt \in Nat /\ runs \in Nat
  BY DEF Types, FilesTyped, StoreTyped, ScanTyped, DiskType, StoreType, Reads, EntriesTrue
<1>2. ASSUME NEW f \in Paths PROVE NoEntry \in Entry /\ EntryTrue(NoEntry, f)
  BY <1>1, Empties DEF EntryTrue, Told
<1>3. ASSUME \A f \in Paths : \A e \in {disk'.ents[f], store'.ents[f]} : e \in Entry /\ EntryTrue(e, f)
      PROVE  EntriesTrue'
  <2>1. \A f \in Paths : \A e \in {disk'.ents[f], store'.ents[f]} : EntryTrue(e, f)'
    BY <1>3, EntryStays
  <2>2. QED
    BY <2>1 DEF EntriesTrue, EntryTrue, Told, Moved, Aged
<1>4. CASE DupHash \/ CorrHash
  <2>1. PICK S \in SUBSET Paths :
           /\ \E K \in Fitting(store, Displaced(store, S, seen, pfx, content)) :
                store' = Record(store, S, seen, pfx, content, runs, K)
           /\ \A f \in S : pfx[f] # NoHash
           /\ disk' = disk \/ disk' = [gen |-> store'.gen, ents |-> store'.ents]
    BY <1>4, HashPass
  <2>2. /\ store' \in StoreType
        /\ \A f \in Paths :
             store'.ents[f] =
               IF f \notin S THEN store.ents[f]
               ELSE [mod |-> seen[f], pfx |-> pfx[f], full |-> content[f],
                     gen |-> store.gen, scan |-> runs]
    BY <2>1, Hashing
  <2>3. ASSUME NEW f \in Paths PROVE store'.ents[f] \in Entry /\ \A e : e = store'.ents[f] => EntryTrue(e, f)
    <3>1. store'.ents[f] \in Entry
      BY <2>2 DEF StoreType
    <3>2. CASE f \notin S
      BY <1>1, <2>2, <3>1, <3>2
    <3>3. CASE f \in S
      <4>1. pfx[f] = <<content[f][1]>> \/ Moved(f, seen[f], runs)
        BY <2>1, <3>3 DEF Reads, PrefixesTrue
      <4>2. seen[f] <= mod[f]
        BY DEF Reads, WalkTrue
      <4>3. ASSUME NEW e, e = store'.ents[f]
            PROVE  /\ e.mod = seen[f] /\ e.pfx = pfx[f] /\ e.full = content[f] /\ e.scan = runs
        <5>1. store'.ents[f] = [mod |-> seen[f], pfx |-> pfx[f], full |-> content[f],
                                gen |-> store.gen, scan |-> runs]
          BY <2>2, <3>3
        <5>2. QED
          BY <4>3, <5>1
      <4>4. ASSUME NEW e, e = store'.ents[f] PROVE EntryTrue(e, f)
        <5>1. Told(e, f) \/ Moved(f, e.mod, e.scan)
          <6>1. e.mod = seen[f] /\ e.pfx = pfx[f] /\ e.full = content[f] /\ e.scan = runs
            BY <4>3, <4>4
          <6>2. CASE Moved(f, seen[f], runs)
            BY <6>1, <6>2
          <6>3. CASE pfx[f] = <<content[f][1]>>
            BY <6>1, <6>3 DEF Told
          <6>4. QED
            BY <4>1, <6>2, <6>3
        <5>2. e.mod <= mod[f] /\ e.scan <= runs
          BY <1>1, <4>2, <4>3, <4>4
        <5>3. QED
          BY <5>1, <5>2 DEF EntryTrue
      <4>5. QED
        BY <3>1, <4>4
    <3>4. QED
      BY <3>2, <3>3
  <2>4. ASSUME NEW f \in Paths PROVE disk'.ents[f] \in {disk.ents[f], store'.ents[f]}
    BY <2>1
  <2>5. QED
    BY <1>1, <1>3, <2>3, <2>4
<1>5. CASE Open
  <2>1. store' = LoadResume(disk, adopt) /\ disk' = disk
    BY <1>5 DEF Open
  <2>2. store'.ents = disk.ents
    BY <1>1, <2>1, Opened
  <2>3. QED
    BY <1>1, <1>3, <2>1, <2>2
<1>6. CASE Publish \/ Stop \/ Crash
  <2>1. store' = Closed /\ disk' = disk
    BY <1>6 DEF Publish, Stop, Crash, Ended
  <2>2. \A f \in Paths : store'.ents[f] = NoEntry
    BY <2>1, Empties
  <2>3. QED
    BY <1>1, <1>2, <1>3, <2>1, <2>2
<1>7. CASE SaveStore
  <2>1. store' = store /\ Persist(store)
    BY <1>7 DEF SaveStore
  <2>2. disk' = disk \/ disk' = [gen |-> store.gen, ents |-> store.ents]
    BY <2>1, Persisted
  <2>3. ASSUME NEW f \in Paths PROVE disk'.ents[f] \in {disk.ents[f], store.ents[f]}
    BY <2>2
  <2>4. QED
    BY <1>1, <1>3, <2>1, <2>3
<1>8. CASE UNCHANGED <<disk, store>>
  BY <1>1, <1>3, <1>8
<1>9. CASE Start \/ DupPrefix \/ CorrPrefix \/ Judge \/ Disturb \/ UNCHANGED vars
  <2>1. Disturb => UNCHANGED <<disk, store>>
    BY DEF Disturb, Rot, QuietEdit, Restore, Quietly, Save, SaveEnds, Break, Happens, state, scan
  <2>2. QED
    BY <1>8, <1>9, <2>1 DEF Start, DupPrefix, CorrPrefix, Judge, vars, state, scan
<1>10. QED
  BY <1>4, <1>5, <1>6, <1>7, <1>9 DEF Next, Pass

\* The walk sees the times the files have.
LEMMA WalkStep ==
  Types /\ Control /\ Reads /\ [Next]_vars => WalkTrue' /\ (Start \/ UNCHANGED seen)
<1> SUFFICES ASSUME Types, Control, Reads, [Next]_vars PROVE WalkTrue' /\ (Start \/ UNCHANGED seen)
  OBVIOUS
<1>1. \A f \in Paths : /\ mod[f] \in Nat /\ mod'[f] \in Nat /\ seen[f] \in Nat
                       /\ seen[f] <= mod[f] /\ mod[f] <= mod'[f]
  BY FilesStep DEF Types, FilesTyped, ScanTyped, Reads, WalkTrue
<1>2. Start => seen' = mod /\ mod' = mod
  BY DEF Start, files
<1>3. Disturb => UNCHANGED seen
  BY DEF Disturb, Rot, QuietEdit, Restore, Quietly, Save, SaveEnds, Break, Happens, scan
<1>4. Start \/ UNCHANGED seen
  BY <1>3 DEF Next, Pass, Open, DupPrefix, DupHash, CorrPrefix, CorrHash, Judge, SaveStore, Publish,
     Stop, Crash, vars, scan
<1>5. QED
  BY <1>1, <1>2, <1>4 DEF WalkTrue

\* A file that was walked at its time and moved on is still seen to have.
LEMMA AgedStays ==
  ASSUME Types, Control, Reads, [Next]_vars, UNCHANGED seen, NEW f \in Paths, Aged(f, seen[f])
  PROVE  Aged(f, seen[f])'
<1>1. seen[f] \in Nat /\ seen[f] <= mod[f]
  BY DEF Types, ScanTyped, Reads, WalkTrue
<1>2. \A m \in Nat : m <= mod[f] /\ Aged(f, m) => Aged(f, m)'
  BY FilesStep
<1>3. QED
  BY <1>1, <1>2 DEF Aged

\* The prefixes in hand are what the files hold, or the files moved on under
\* this scan.
LEMMA PrefixesStep ==
  Types /\ Control /\ Reads /\ [Next]_vars => PrefixesTrue'
<1> SUFFICES ASSUME Types, Control, Reads, [Next]_vars PROVE PrefixesTrue'
  OBVIOUS
<1>1. CASE pfx' = Blanks
  BY <1>1, Empties DEF PrefixesTrue
<1>2. ASSUME NEW S, pfx' = PrefixesOf(S), content' = content PROVE PrefixesTrue'
  <2>1. \A f \in Paths : pfx'[f] # NoHash => pfx'[f] = <<content[f][1]>>
    BY <1>2, PrefixesRead DEF Types
  <2>2. QED
    BY <1>2, <2>1 DEF PrefixesTrue
<1>3. CASE pfx' = pfx /\ ~Start
  <2>1. runs' = runs /\ seen' = seen
    BY <1>3, RunsStep, WalkStep
  <2>2. ASSUME NEW f \in Paths, pfx[f] # NoHash
        PROVE  (pfx[f] = <<content[f][1]>> \/ Moved(f, seen[f], runs))'
    <3>1. /\ seen[f] \in Nat /\ seen[f] <= mod[f] /\ runs \in Nat /\ last[f] \in Nat /\ last'[f] \in Nat
          /\ last[f] <= last'[f]
      BY FilesStep DEF Types, FilesTyped, ScanTyped, Reads, WalkTrue
    <3>2. CASE Moved(f, seen[f], runs)
      <4>1. Aged(f, seen[f])' /\ runs <= last[f]
        BY <2>1, <3>2, AgedStays DEF Moved
      <4>2. QED
        BY <2>1, <3>1, <4>1 DEF Moved
    <3>3. CASE content'[f] # content[f]
      <4>1. last'[f] = runs /\ \A m \in Nat : m <= mod[f] => Aged(f, m)'
        BY <3>3, FilesStep
      <4>2. Aged(f, seen[f])'
        BY <2>1, <3>1, <4>1 DEF Aged
      <4>3. QED
        BY <2>1, <3>1, <4>1, <4>2 DEF Moved
    <3>4. CASE content'[f] = content[f] /\ pfx[f] = <<content[f][1]>>
      BY <1>3, <3>4
    <3>5. QED
      BY <2>2, <3>2, <3>3, <3>4 DEF Reads, PrefixesTrue
  <2>3. QED
    BY <1>3, <2>2 DEF PrefixesTrue
<1>4. CASE Start
  <2>1. pfx' = pfx /\ pfx = Blanks
    BY <1>4 DEF Start, Control
  <2>2. QED
    BY <1>1, <2>1
<1>5. CASE DupPrefix \/ CorrPrefix
  BY <1>2, <1>5 DEF DupPrefix, CorrPrefix, files
<1>6. CASE DupHash \/ CorrHash \/ Publish \/ Stop \/ Crash
  BY <1>1, <1>6 DEF DupHash, CorrHash, Publish, Stop, Crash, Ended, Nothing
<1>7. CASE Open \/ Judge \/ SaveStore \/ Disturb \/ UNCHANGED vars
  <2>1. Disturb => UNCHANGED pfx
    BY DEF Disturb, Rot, QuietEdit, Restore, Quietly, Save, SaveEnds, Break, Happens, scan
  <2>2. pfx' = pfx
    BY <1>7, <2>1 DEF Open, Judge, SaveStore, vars, scan
  <2>3. QED
    BY <1>3, <1>4, <2>2
<1>8. QED
  BY <1>4, <1>5, <1>6, <1>7 DEF Next, Pass

\* A file that can be read has no error among the findings.
LEMMA ErrorsStep ==
  Types /\ Control /\ Reads /\ [Next]_vars => ErrorsTrue'
<1> SUFFICES ASSUME Types, Control, Reads, [Next]_vars PROVE ErrorsTrue'
  OBVIOUS
<1>1. \A f \in Paths : (broken[f] = "ok" => info.err[f] = "ok") /\ (broken'[f] = "ok" => broken[f] = "ok")
  BY FilesStep DEF Reads, ErrorsTrue
<1>2. CASE info' = info
  BY <1>1, <1>2 DEF ErrorsTrue
<1>3. CASE info' = NoInfo
  BY <1>3, Empties DEF ErrorsTrue
<1>4. CASE CorrPrefix
  <2>1. info'.err = [f \in Paths |-> IF f \in Family THEN broken[f] ELSE "ok"] /\ broken' = broken
    BY <1>4 DEF CorrPrefix, files
  <2>2. QED
    BY <2>1 DEF ErrorsTrue
<1>5. CASE CorrHash
  <2> DEFINE A == {f \in Family : info.err[f] = "ok"} \ Hits({f \in Family : info.err[f] = "ok"})
  <2>1. info'.err = [f \in Paths |-> IF f \in A THEN broken[f] ELSE info.err[f]] /\ broken' = broken
    BY <1>5 DEF CorrHash, files
  <2> HIDE DEF A
  <2>2. QED
    BY <1>1, <2>1 DEF ErrorsTrue
<1>6. CASE Start \/ Open \/ DupPrefix \/ DupHash \/ Judge \/ SaveStore \/ Disturb \/ UNCHANGED vars
  <2>1. Disturb => UNCHANGED info
    BY DEF Disturb, Rot, QuietEdit, Restore, Quietly, Save, SaveEnds, Break, Happens, scan
  <2>2. QED
    BY <1>2, <1>6, <2>1 DEF Start, Open, DupPrefix, DupHash, Judge, SaveStore, vars, scan
<1>7. CASE Publish \/ Stop \/ Crash
  BY <1>3, <1>7 DEF Publish, Stop, Crash, Ended, Nothing
<1>8. QED
  BY <1>4, <1>5, <1>6, <1>7 DEF Next, Pass

\* Evidence that a pass is about to overwrite is true.
LEMMA DisplacedTells ==
  ASSUME Types, Reads, NEW S \in SUBSET Paths, \A f \in S : pfx[f] # NoHash,
         NEW f \in Displaced(store, S, seen, pfx, content)
  PROVE  f \in Paths /\ Aged(f, seen[f])
<1>1. /\ f \in S /\ f \in Paths /\ History(store.ents[f], store.gen, seen[f])
      /\ <<store.ents[f].pfx, store.ents[f].full>> # <<pfx[f], content[f]>>
  BY DEF Displaced
<1>2. store.ents[f] # NoEntry /\ store.ents[f].mod = seen[f]
  BY <1>1 DEF History, SameTime
<1>3. Told(store.ents[f], f) \/ Moved(f, store.ents[f].mod, store.ents[f].scan)
  BY <1>1 DEF Reads, EntriesTrue, EntryTrue
<1>4. pfx[f] = <<content[f][1]>> \/ Moved(f, seen[f], runs)
  BY <1>1 DEF Reads, PrefixesTrue
<1>5. QED
  BY <1>1, <1>2, <1>3, <1>4 DEF Told, Moved

\* What is known of a file's past, held against the prefix it has, is true.
LEMMA PriorTells ==
  ASSUME Types, Reads, NEW f \in Paths, Prior(store, f, seen[f], <<content[f][1]>>) # NoHash
  PROVE  Aged(f, seen[f])
<1>1. CASE store.changed[f] # NoHash
  BY <1>1 DEF Reads, EvidenceTrue
<1>2. CASE store.changed[f] = NoHash
  <2>1. /\ History(store.ents[f], store.gen, seen[f]) /\ store.ents[f].pfx # <<content[f][1]>>
    BY <1>2 DEF Prior, PriorInEntry
  <2>2. store.ents[f] # NoEntry /\ store.ents[f].mod = seen[f]
    BY <2>1 DEF History, SameTime
  <2>3. Told(store.ents[f], f) \/ Moved(f, store.ents[f].mod, store.ents[f].scan)
    BY DEF Reads, EntriesTrue, EntryTrue
  <2>4. QED
    BY <2>1, <2>2, <2>3 DEF Told, Moved
<1>3. QED
  BY <1>1, <1>2

\* The evidence set and the findings say only of files that moved on that
\* they did.
LEMMA EvidenceStep ==
  Types /\ Control /\ Reads /\ [Next]_vars => EvidenceTrue'
<1> SUFFICES ASSUME Types, Control, Reads, [Next]_vars PROVE EvidenceTrue'
  OBVIOUS
<1>1. \A f \in Paths : store.changed[f] # NoHash \/ info.flag[f] => Aged(f, seen[f])
  BY DEF Reads, EvidenceTrue
<1>2. ASSUME UNCHANGED seen,
             \A f \in Paths : store'.changed[f] # NoHash \/ info'.flag[f] => Aged(f, seen[f])
      PROVE  EvidenceTrue'
  BY <1>2, AgedStays DEF EvidenceTrue
<1>3. CASE DupHash \/ CorrHash
  <2>1. PICK S \in SUBSET Paths :
           /\ \E K \in Fitting(store, Displaced(store, S, seen, pfx, content)) :
                store' = Record(store, S, seen, pfx, content, runs, K)
           /\ \A f \in S : pfx[f] # NoHash
           /\ UNCHANGED seen
    BY <1>3, HashPass
  <2>2. PICK K \in Fitting(store, Displaced(store, S, seen, pfx, content)) :
          store' = Record(store, S, seen, pfx, content, runs, K)
    BY <2>1
  <2>3. /\ store' \in StoreType /\ store'.gen = store.gen
        /\ K \subseteq Displaced(store, S, seen, pfx, content)
        /\ K \subseteq Paths
        /\ \A f \in Paths :
             /\ store'.ents[f] =
                  IF f \notin S THEN store.ents[f]
                  ELSE [mod |-> seen[f], pfx |-> pfx[f], full |-> content[f],
                        gen |-> store.gen, scan |-> runs]
             /\ store'.changed[f] = IF f \in K THEN store.ents[f].full ELSE store.changed[f]
    BY <2>2, Hashing
  <2>4. \A f \in Paths : store'.changed[f] # NoHash => Aged(f, seen[f])
    BY <1>1, <2>1, <2>3, DisplacedTells
  <2>5. CASE DupHash
    BY <1>1, <1>2, <2>1, <2>4, <2>5 DEF DupHash
  <2>6. CASE CorrHash
    <3> DEFINE R == FullReads({f \in Family : info.err[f] = "ok"})
               M == Displaced(store, R, seen, pfx, content)
    <3>1. info'.flag = [f \in Paths |-> f \in M \/ info.flag[f]]
      BY <2>6 DEF CorrHash
    <3>2. R \in SUBSET Paths /\ \A f \in R : pfx[f] # NoHash
      <4>1. R \subseteq {f \in Family : info.err[f] = "ok"} /\ Family \subseteq Paths
        BY DEF FullReads, Family
      <4>2. phase = "windowed"
        BY <2>6 DEF CorrHash
      <4>3. QED
        BY <4>1, <4>2 DEF Control
    <3> HIDE DEF R
    <3>3. \A f \in M : Aged(f, seen[f])
      BY <3>2, DisplacedTells
    <3> HIDE DEF M
    <3>4. \A f \in Paths : info'.flag[f] => Aged(f, seen[f])
      BY <1>1, <3>1, <3>3
    <3>5. QED
      BY <1>2, <2>1, <2>4, <3>4
  <2>7. QED
    BY <1>3, <2>5, <2>6
<1>4. CASE CorrPrefix
  <2> DEFINE P == [f \in Paths |-> IF pfx'[f] = NoHash THEN NoHash ELSE Prior(store, f, seen[f], pfx'[f])]
  <2>1. /\ pfx' = PrefixesOf(Family) /\ UNCHANGED <<store, seen>>
        /\ info'.flag = [f \in Paths |-> P[f] # NoHash]
    BY <1>4 DEF CorrPrefix
  <2>2. \A f \in Paths : pfx'[f] # NoHash => pfx'[f] = <<content[f][1]>>
    BY <2>1, PrefixesRead DEF Types
  <2>3. ASSUME NEW f \in Paths, P[f] # NoHash PROVE Aged(f, seen[f])
    <3>1. P[f] = Prior(store, f, seen[f], <<content[f][1]>>)
      BY <2>2, <2>3
    <3>2. QED
      BY <2>3, <3>1, PriorTells
  <2> HIDE DEF P
  <2>4. \A f \in Paths : info'.flag[f] => Aged(f, seen[f])
    BY <2>1, <2>3
  <2>5. QED
    BY <1>1, <1>2, <2>1, <2>4
<1>5. ASSUME \A f \in Paths : store'.changed[f] = NoHash, info' = NoInfo PROVE EvidenceTrue'
  BY <1>5, Empties DEF EvidenceTrue
<1>6. CASE Open
  <2>1. store' = LoadResume(disk, adopt) /\ info' = info /\ phase = "walked"
    BY <1>6 DEF Open
  <2>2. info' = NoInfo
    BY <2>1 DEF Control
  <2>3. \A f \in Paths : store'.changed[f] = NoHash
    BY <2>1, Opened DEF Types, ScanTyped
  <2>4. QED
    BY <1>5, <2>2, <2>3
<1>7. CASE Publish \/ Stop \/ Crash
  <2>1. store' = Closed /\ info' = NoInfo
    BY <1>7 DEF Publish, Stop, Crash, Ended, Nothing
  <2>2. QED
    BY <1>5, <2>1, Empties
<1>8. CASE Start
  <2>1. store' = Closed /\ info' = NoInfo
    BY <1>8 DEF Start, Control
  <2>2. QED
    BY <1>5, <2>1, Empties
<1>9. CASE DupPrefix \/ Judge \/ SaveStore \/ Disturb \/ UNCHANGED vars
  <2>1. Disturb => UNCHANGED <<seen, store, info>>
    BY DEF Disturb, Rot, QuietEdit, Restore, Quietly, Save, SaveEnds, Break, Happens, scan
  <2>2. UNCHANGED <<seen, store, info>>
    BY <1>9, <2>1 DEF DupPrefix, Judge, SaveStore, vars, scan
  <2>3. QED
    BY <1>1, <1>2, <2>2
<1>10. QED
  BY <1>3, <1>4, <1>6, <1>7, <1>8, <1>9 DEF Next, Pass

\* The evidence set takes no more than it has room for.
LEMMA FitsStep ==
  Types /\ Control /\ Reads /\ [Next]_vars => EvidenceFits'
<1> SUFFICES ASSUME Types, Control, Reads, [Next]_vars PROVE EvidenceFits'
  OBVIOUS
<1> DEFINE Full == {f \in Paths : store.changed[f] # NoHash}
<1>1. IsFiniteSet(Paths) /\ ChangedMax \in Nat
  BY StoreAssumption
<1>2. IsFiniteSet(Full) /\ Cardinality(Full) \in Nat /\ Cardinality(Full) <= ChangedMax
  BY <1>1, FS_Subset, FS_CardinalityType DEF Reads, EvidenceFits
<1>3. CASE DupHash \/ CorrHash
  <2>1. PICK S \in SUBSET Paths :
          \E K \in Fitting(store, Displaced(store, S, seen, pfx, content)) :
            store' = Record(store, S, seen, pfx, content, runs, K)
    BY <1>3, HashPass
  <2>2. PICK K \in Fitting(store, Displaced(store, S, seen, pfx, content)) :
          store' = Record(store, S, seen, pfx, content, runs, K)
    BY <2>1
  <2>3. /\ store' \in StoreType /\ store'.gen = store.gen
        /\ K \subseteq Displaced(store, S, seen, pfx, content)
        /\ K \subseteq Paths
        /\ \A f \in Paths :
             /\ store'.ents[f] =
                  IF f \notin S THEN store.ents[f]
                  ELSE [mod |-> seen[f], pfx |-> pfx[f], full |-> content[f],
                        gen |-> store.gen, scan |-> runs]
             /\ store'.changed[f] = IF f \in K THEN store.ents[f].full ELSE store.changed[f]
    BY <2>2, Hashing
  <2>4. IsFiniteSet(K) /\ Cardinality(K) \in Nat
    BY <1>1, <2>3, FS_Subset, FS_CardinalityType
  <2>5. Cardinality(K) <= ChangedMax - Cardinality(Full)
    <3> DEFINE D == Displaced(store, S, seen, pfx, content)
    <3>1. IsFiniteSet(D) /\ Cardinality(D) \in Nat
      <4>1. D \subseteq Paths
        BY DEF Displaced
      <4>2. QED
        BY <1>1, <4>1, FS_Subset, FS_CardinalityType
    <3>2. Cardinality(K) = IF Cardinality(D) > Room(store) THEN Room(store) ELSE Cardinality(D)
      BY DEF Fitting
    <3>3. Room(store) = ChangedMax - Cardinality(Full)
      BY DEF Room
    <3> HIDE DEF D, Full
    <3>4. QED
      BY <1>1, <1>2, <3>1, <3>2, <3>3
  <2>6. {f \in Paths : store'.changed[f] # NoHash} \subseteq Full \cup K
    BY <2>3
  <2> HIDE DEF Full
  <2>7. Cardinality(Full \cup K) <= ChangedMax /\ IsFiniteSet(Full \cup K)
    <3>1. /\ IsFiniteSet(Full \cup K)
          /\ Cardinality(Full \cup K) = Cardinality(Full) + Cardinality(K) - Cardinality(Full \cap K)
      BY <1>2, <2>4, FS_Union
    <3>2. Cardinality(Full \cap K) \in Nat
      <4>1. IsFiniteSet(Full \cap K)
        BY <1>2, FS_Subset
      <4>2. QED
        BY <4>1, FS_CardinalityType
    <3>3. QED
      BY <1>1, <1>2, <2>4, <2>5, <3>1, <3>2
  <2>8. Cardinality({f \in Paths : store'.changed[f] # NoHash}) <= Cardinality(Full \cup K)
        /\ Cardinality({f \in Paths : store'.changed[f] # NoHash}) \in Nat /\ Cardinality(Full \cup K) \in Nat
    BY <2>6, <2>7, FS_Subset, FS_CardinalityType
  <2>9. QED
    BY <1>1, <2>7, <2>8 DEF EvidenceFits
<1>4. ASSUME \A f \in Paths : store'.changed[f] = NoHash PROVE EvidenceFits'
  <2>1. {f \in Paths : store'.changed[f] # NoHash} = {}
    BY <1>4
  <2>2. QED
    BY <1>1, <2>1, FS_EmptySet DEF EvidenceFits
<1>5. CASE Open
  BY <1>4, <1>5, Opened DEF Open, Types, ScanTyped
<1>6. CASE Publish \/ Stop \/ Crash
  <2>1. store' = Closed
    BY <1>6 DEF Publish, Stop, Crash, Ended
  <2>2. QED
    BY <1>4, <2>1, Empties
<1>7. CASE Start \/ DupPrefix \/ CorrPrefix \/ Judge \/ SaveStore \/ Disturb \/ UNCHANGED vars
  <2>1. Disturb => UNCHANGED store
    BY DEF Disturb, Rot, QuietEdit, Restore, Quietly, Save, SaveEnds, Break, Happens, scan
  <2>2. UNCHANGED store
    BY <1>7, <2>1 DEF Start, DupPrefix, CorrPrefix, Judge, SaveStore, vars, scan
  <2>3. QED
    BY <2>2 DEF Reads, EvidenceFits
<1>8. QED
  BY <1>3, <1>5, <1>6, <1>7 DEF Next, Pass

LEMMA ReadsStep ==
  Types /\ Control /\ Reads /\ [Next]_vars => Reads'
BY EntriesStep, WalkStep, PrefixesStep, EvidenceStep, ErrorsStep, FitsStep DEF Reads

-----------------------------------------------------------------------------
(* Generations, with one failed write at most.                             *)

\* A set of numbers that is not empty has a least one.
LEMMA Least ==
  ASSUME NEW S \in SUBSET Nat, S # {}
  PROVE  Min(S) \in S /\ \A y \in S : Min(S) <= y
<1>1. \E x \in S : \A y \in S : ~(<<y, x>> \in OpToRel(<, Nat))
  BY WFMin, NatLessThanWellFounded, Zenon
<1>2. PICK x \in S : \A y \in S : ~(<<y, x>> \in OpToRel(<, Nat))
  BY <1>1, Zenon
<1>3. \A y \in S : ~(y < x)
  BY <1>2, Zenon DEF OpToRel
<1>4. \A y \in S : x <= y
  BY <1>3
<1>5. QED
  BY <1>4 DEF Min

\* The scan that runs is one of its line, and no earlier than the least.
LEMMA LineHolds ==
  ASSUME Types, Control, phase # "idle"
  PROVE  /\ Min(line) \in Nat /\ Min(line) <= runs /\ runs \in line
         /\ \A r \in line : r \in Nat /\ Min(line) <= r
<1>1. runs \in line /\ line \in SUBSET Nat /\ line # {}
  BY DEF Types, ScanTyped, Control
<1>2. QED
  BY <1>1, Least

\* What a scan writes to its store and to the disk is its own.
LEMMA ScanWrites ==
  ASSUME Types, Control, Gens, DupHash \/ CorrHash \/ SaveStore
  PROVE  /\ store'.gen = store.gen /\ UNCHANGED <<line, marker, notice>>
         /\ phase \notin {"idle", "walked"} /\ phase' \notin {"idle", "walked"}
         /\ disk'.gen <= store.gen
         /\ \A f \in Paths :
              /\ store'.ents[f].gen <= store.gen
              /\ store'.ents[f].gen = store.gen => store'.ents[f].scan \in line
              /\ disk'.ents[f].gen <= disk'.gen
              /\ disk'.ents[f].gen = store.gen => disk'.ents[f].scan \in line
<1>1. phase \notin {"idle", "walked"} /\ phase' \notin {"idle", "walked"}
  BY DEF DupHash, CorrHash, SaveStore
<1>2. /\ disk.gen \in Nat /\ store.gen \in Nat /\ disk.gen <= store.gen /\ runs \in line
      /\ \A f \in Paths :
           /\ disk.ents[f].gen <= disk.gen /\ store.ents[f].gen <= store.gen
           /\ disk.ents[f].gen = store.gen => disk.ents[f].scan \in line
           /\ store.ents[f].gen = store.gen => store.ents[f].scan \in line
  BY <1>1 DEF Types, StoreTyped, DiskType, StoreType, Control, Gens, Ordered, ScanOwns, Owned
<1>3. CASE DupHash \/ CorrHash
  <2>1. PICK S \in SUBSET Paths :
           /\ \E K \in Fitting(store, Displaced(store, S, seen, pfx, content)) :
                store' = Record(store, S, seen, pfx, content, runs, K)
           /\ disk' = disk \/ disk' = [gen |-> store'.gen, ents |-> store'.ents]
           /\ UNCHANGED <<line, marker, notice>>
    BY <1>3, HashPass
  <2>2. /\ store'.gen = store.gen
        /\ \A f \in Paths :
             store'.ents[f] =
               IF f \notin S THEN store.ents[f]
               ELSE [mod |-> seen[f], pfx |-> pfx[f], full |-> content[f],
                     gen |-> store.gen, scan |-> runs]
    BY <2>1, Hashing
  <2>3. ASSUME NEW f \in Paths
        PROVE  /\ store'.ents[f].gen <= store.gen
               /\ store'.ents[f].gen = store.gen => store'.ents[f].scan \in line
    <3>1. CASE f \notin S
      <4>1. store'.ents[f] = store.ents[f]
        BY <2>2, <3>1
      <4>2. QED
        BY <1>2, <4>1
    <3>2. CASE f \in S
      <4>1. store'.ents[f] = [mod |-> seen[f], pfx |-> pfx[f], full |-> content[f],
                              gen |-> store.gen, scan |-> runs]
        BY <2>2, <3>2
      <4>2. QED
        BY <1>2, <4>1
    <3>3. QED
      BY <3>1, <3>2
  <2>4. CASE disk' = disk
    BY <1>1, <1>2, <2>1, <2>2, <2>3, <2>4
  <2>5. CASE disk' = [gen |-> store'.gen, ents |-> store'.ents]
    <3>1. disk'.gen = store.gen /\ disk'.ents = store'.ents
      BY <2>2, <2>5
    <3>2. QED
      BY <1>1, <1>2, <2>1, <2>2, <2>3, <3>1
  <2>6. QED
    BY <2>1, <2>4, <2>5
<1>4. CASE SaveStore
  <2>1. store' = store /\ Persist(store) /\ UNCHANGED <<line, marker, notice>>
    BY <1>4 DEF SaveStore
  <2>2. disk' = disk \/ disk' = [gen |-> store.gen, ents |-> store.ents]
    BY <2>1, Persisted
  <2>3. CASE disk' = disk
    BY <1>1, <1>2, <2>1, <2>3
  <2>4. CASE disk' = [gen |-> store.gen, ents |-> store.ents]
    <3>1. disk'.gen = store.gen /\ disk'.ents = store.ents
      BY <2>4
    <3>2. QED
      BY <1>1, <1>2, <2>1, <3>1
  <2>5. QED
    BY <2>2, <2>3, <2>4
<1>5. QED
  BY <1>3, <1>4

\* The store a scan opens is of a generation that no other scan has.
LEMMA OpensOwn ==
  ASSUME Types, Control, Gens, Open
  PROVE  /\ store'.gen \in Nat \ {0} /\ disk' = disk /\ disk.gen <= store'.gen
         /\ \A f \in Paths :
              /\ store'.ents[f] = disk.ents[f] /\ disk.ents[f].gen <= disk.gen
              /\ disk.ents[f].gen = store'.gen => disk.ents[f].scan \in line
<1>1. phase = "walked" /\ store' = LoadResume(disk, adopt) /\ disk' = disk
  BY DEF Open
<1>2. /\ StoreTyped /\ adopt \in Nat /\ disk.gen \in Nat
      /\ \A f \in Paths : disk.ents[f].gen \in Nat /\ disk.ents[f].gen <= disk.gen
  BY DEF Types, ScanTyped, StoreTyped, DiskType, Entry, Gens, Ordered
<1>3. store'.gen = (IF adopt = 0 THEN disk.gen + 1 ELSE adopt) /\ store'.ents = disk.ents
  BY <1>1, <1>2, Opened
<1>4. CASE adopt = 0
  BY <1>1, <1>2, <1>3, <1>4
<1>5. CASE adopt # 0
  <2>1. Owned(adopt, line)
    BY <1>1, <1>5 DEF Gens, WalkOwns
  <2>2. QED
    BY <1>1, <1>2, <1>3, <1>5, <2>1 DEF Owned
<1>6. QED
  BY <1>4, <1>5

\* One failed write at most, and a generation keeps its scan.
LEMMA GensStep ==
  Types /\ Control /\ Gens /\ [Next]_vars /\ OneFailure' => Gens'
<1> SUFFICES ASSUME Types, Control, Gens, [Next]_vars, OneFailure' PROVE Gens'
  OBVIOUS
<1>1. Ordered /\ MarkersOwn /\ WalkOwns /\ ScanOwns
  BY DEF Gens
<1>2. /\ used.failures \in Nat /\ used'.failures \in Nat /\ used'.failures <= 1
      /\ used.failures <= used'.failures /\ (Fails => used'.failures = used.failures + 1)
  BY Counted DEF Types, ScanTyped, OneFailure
<1>3. ASSUME NEW m, WriteMarker(m) PROVE marker' = m \/ (marker' = marker /\ Fails)
  BY <1>3 DEF WriteMarker
<1>4. NoMarker.gen = 0
  BY Empties
<1>5. CASE Start
  <2>1. /\ phase' = "walked" /\ UNCHANGED <<disk, store>> /\ notice' = NoMarker
        /\ adopt' \in {0, notice.gen}
        /\ adopt' # 0 => adopt' = notice.gen /\ notice.runs \subseteq line'
    BY <1>5 DEF Start
  <2>2. marker' = NoMarker \/ (marker' = marker /\ Fails)
    BY <1>3, <1>5 DEF Start
  <2>3. Ordered'
    BY <1>1, <2>1 DEF Ordered
  <2>4. MarkersOwn'
    BY <1>1, <1>4, <2>1, <2>2 DEF MarkersOwn, Owned
  <2>5. WalkOwns'
    <3>1. marker' # NoMarker => used'.failures > 0
      BY <1>2, <2>2
    <3>2. adopt' # 0 => Owned(notice.gen, notice.runs)
      BY <1>1, <2>1 DEF MarkersOwn
    <3>3. adopt' # 0 => disk'.gen <= adopt' /\ \A f \in Paths : disk'.ents[f].gen = adopt' => disk'.ents[f].scan \in line'
      BY <2>1, <3>2 DEF Owned
    <3>4. QED
      BY <3>1, <3>3 DEF WalkOwns, Owned
  <2>6. ScanOwns'
    BY <2>1 DEF ScanOwns
  <2>7. QED
    BY <2>3, <2>4, <2>5, <2>6 DEF Gens
<1>6. CASE Open
  <2>1. /\ store'.gen \in Nat \ {0} /\ disk' = disk /\ disk.gen <= store'.gen
        /\ \A f \in Paths :
             /\ store'.ents[f] = disk.ents[f] /\ disk.ents[f].gen <= disk.gen
             /\ disk.ents[f].gen = store'.gen => disk.ents[f].scan \in line
    BY <1>6, OpensOwn
  <2>2. /\ phase = "walked" /\ phase' = "open" /\ UNCHANGED <<notice, line>>
        /\ WriteMarker([gen |-> store'.gen, runs |-> line])
    BY <1>6 DEF Open
  <2>3. marker' \in {NoMarker, [gen |-> store'.gen, runs |-> line]}
    <3>1. CASE marker' = marker /\ Fails
      <4>1. used.failures = 0
        BY <1>2, <3>1
      <4>2. marker = NoMarker
        BY <1>1, <2>2, <4>1 DEF WalkOwns
      <4>3. QED
        BY <3>1, <4>2
    <3>2. QED
      BY <1>3, <2>2, <3>1
  <2>4. Ordered'
    <3>1. \A f \in Paths : disk.ents[f].gen \in Nat /\ disk.gen \in Nat
      BY DEF Types, StoreTyped, DiskType, Entry
    <3>2. QED
      BY <2>1, <3>1 DEF Ordered
  <2>5. /\ disk'.gen <= store'.gen
        /\ \A f \in Paths : disk'.ents[f].gen = store'.gen => disk'.ents[f].scan \in line'
    BY <2>1, <2>2
  <2>6. MarkersOwn'
    <3>1. notice' = NoMarker
      BY <2>2 DEF Control
    <3>2. \A m \in {marker', notice'} : m.gen # 0 => m.gen = store'.gen /\ m.runs = line'
      BY <1>4, <2>2, <2>3, <3>1
    <3>3. QED
      BY <2>5, <3>2 DEF MarkersOwn, Owned
  <2>7. WalkOwns'
    BY <2>2 DEF WalkOwns
  <2>8. ScanOwns'
    <3>1. \A f \in Paths : store'.ents[f].gen = store'.gen => store'.ents[f].scan \in line'
      BY <2>1, <2>2
    <3>2. store'.gen # 0 /\ line' = line
      BY <2>1, <2>2
    <3> HIDE <2>1, <1>6
    <3>3. QED
      BY <2>3, <2>5, <3>1, <3>2 DEF ScanOwns, Owned
  <2>9. QED
    BY <2>4, <2>6, <2>7, <2>8 DEF Gens
<1>7. CASE DupHash \/ CorrHash \/ SaveStore
  <2>1. /\ store'.gen = store.gen /\ UNCHANGED <<line, marker, notice>>
        /\ phase \notin {"idle", "walked"} /\ phase' \notin {"idle", "walked"}
        /\ disk'.gen <= store.gen
        /\ \A f \in Paths :
             /\ store'.ents[f].gen <= store.gen
             /\ store'.ents[f].gen = store.gen => store'.ents[f].scan \in line
             /\ disk'.ents[f].gen <= disk'.gen
             /\ disk'.ents[f].gen = store.gen => disk'.ents[f].scan \in line
    BY <1>7, ScanWrites
  <2>2. /\ store.gen # 0 /\ marker \in {NoMarker, [gen |-> store.gen, runs |-> line]}
        /\ notice = NoMarker
    BY <1>1, <2>1 DEF ScanOwns, Control
  <2>3. Ordered'
    BY <2>1 DEF Ordered
  <2>4. \A m \in {marker', notice'} : m.gen # 0 => m.gen = store.gen /\ m.runs = line
    BY <1>4, <2>1, <2>2
  <2>5. MarkersOwn'
    BY <2>1, <2>4 DEF MarkersOwn, Owned
  <2>6. WalkOwns'
    BY <2>1 DEF WalkOwns
  <2>7. ScanOwns'
    BY <2>1, <2>2 DEF ScanOwns, Owned
  <2>8. QED
    BY <2>3, <2>5, <2>6, <2>7 DEF Gens
<1>8. CASE Publish \/ Stop \/ Crash
  <2>1. /\ phase' = "idle" /\ disk' = disk /\ store' = Closed
        /\ marker' \in {marker, NoMarker} /\ notice' \in {marker, notice}
    BY <1>8 DEF Publish, Stop, Crash, Ended
  <2>2. Ordered'
    <3>1. Closed.gen = 0 /\ \A f \in Paths : Closed.ents[f].gen = 0
      BY Empties
    <3>2. QED
      BY <1>1, <2>1, <3>1 DEF Ordered
  <2>3. MarkersOwn'
    BY <1>1, <1>4, <2>1 DEF MarkersOwn, Owned
  <2>4. WalkOwns' /\ ScanOwns'
    BY <2>1 DEF WalkOwns, ScanOwns
  <2>5. QED
    BY <2>2, <2>3, <2>4 DEF Gens
<1>9. ASSUME UNCHANGED <<disk, store, marker, notice, adopt, line>>,
             phase' = phase \/ (phase \notin {"idle", "walked"} /\ phase' \notin {"idle", "walked"})
      PROVE  Gens'
  <2>1. Ordered' /\ MarkersOwn'
    BY <1>1, <1>9 DEF Ordered, MarkersOwn, Owned
  <2>2. WalkOwns'
    BY <1>1, <1>2, <1>9 DEF WalkOwns, Owned
  <2>3. ScanOwns'
    BY <1>1, <1>9 DEF ScanOwns, Owned
  <2>4. QED
    BY <2>1, <2>2, <2>3 DEF Gens
<1>10. CASE DupPrefix \/ CorrPrefix \/ Judge
  BY <1>9, <1>10 DEF DupPrefix, CorrPrefix, Judge, state
<1>11. CASE Disturb \/ UNCHANGED vars
  <2>1. Disturb => UNCHANGED <<disk, store, marker, notice, adopt, line, phase>>
    BY DEF Disturb, Rot, QuietEdit, Restore, Quietly, Save, SaveEnds, Break, Happens, scan, state
  <2>2. UNCHANGED <<disk, store, marker, notice, adopt, line, phase>>
    BY <1>11, <2>1 DEF vars, scan, state
  <2>3. QED
    BY <1>9, <2>2
<1>12. QED
  BY <1>5, <1>6, <1>7, <1>8, <1>10, <1>11 DEF Next, Pass

\* The hashes of the files nobody touched are read by this scan or its line.
LEMMA HashedStep ==
  Types /\ Control /\ Reads /\ Gens /\ Hashed /\ [Next]_vars => Hashed'
<1> SUFFICES ASSUME Types, Control, Reads, Gens, Hashed, [Next]_vars PROVE Hashed'
  OBVIOUS
<1>1. CASE CorrHash
  <2> DEFINE asked == {f \in Family : info.err[f] = "ok"}
             hits == Hits(asked)
             read == FullReads(asked)
  <2>1. /\ UNCHANGED <<content, broken, last, line, seen>> /\ phase = "windowed"
        /\ info'.hash = [f \in Paths |-> CASE f \in hits -> store.ents[f].full
                                           [] f \in read -> content[f]
                                           [] OTHER -> NoHash]
    BY <1>1 DEF CorrHash, files
  <2>2. /\ Min(line) \in Nat /\ \A r \in line : r \in Nat /\ Min(line) <= r
    BY <2>1, LineHolds
  <2>3. ASSUME NEW f \in Family, broken[f] = "ok", ~Touched(f) PROVE info'.hash[f] = content[f]
    <3>1. f \in Paths /\ f \in asked /\ last[f] \in Nat /\ last[f] < Min(line)
      <4>1. f \in Paths
        BY DEF Family
      <4>2. info.err[f] = "ok"
        BY <2>3, <4>1 DEF Reads, ErrorsTrue
      <4>3. last[f] \in Nat
        BY <4>1 DEF Types, FilesTyped
      <4>4. QED
        BY <2>2, <2>3, <4>1, <4>2, <4>3 DEF Touched
    <3>2. CASE f \in hits
      <4>1. Hit(store, f, seen[f], pfx[f])
        BY <3>2 DEF Hits
      <4>2. store.ents[f] # NoEntry /\ store.ents[f].gen = store.gen
        BY <4>1 DEF Hit, SameTime
      <4>3. store.ents[f].scan \in line
        BY <2>1, <3>1, <4>2 DEF Gens, ScanOwns
      <4>4. store.ents[f].scan \in Nat /\ Min(line) <= store.ents[f].scan
        BY <2>2, <4>3
      <4>5. ~(store.ents[f].scan <= last[f])
        BY <2>2, <3>1, <4>4
      <4>6. Told(store.ents[f], f) \/ Moved(f, store.ents[f].mod, store.ents[f].scan)
        BY <3>1 DEF Reads, EntriesTrue, EntryTrue
      <4>7. store.ents[f].full = content[f]
        BY <4>2, <4>5, <4>6 DEF Told, Moved
      <4> HIDE DEF hits, read
      <4>8. QED
        BY <2>1, <3>1, <3>2, <4>7
    <3>3. CASE f \notin hits
      <4>1. f \in read
        BY <2>3, <3>1, <3>3 DEF FullReads
      <4> HIDE DEF hits, read
      <4>2. QED
        BY <2>1, <3>1, <3>3, <4>1
    <3>4. QED
      BY <3>2, <3>3
  <2>4. \A f \in Family : broken'[f] = "ok" /\ ~Touched(f)' => info'.hash[f] = content'[f]
    BY <2>1, <2>3 DEF Touched
  <2>5. Family' = Family
    BY <2>1 DEF Family
  <2>6. QED
    BY <2>4, <2>5 DEF Hashed
<1>2. CASE UNCHANGED <<content, broken, last, line, seen, info>>
           /\ (phase' \in {"hashed", "judged", "saved"} => phase \in {"hashed", "judged", "saved"})
  <2>1. Family' = Family /\ \A f \in Family : Touched(f)' = Touched(f)
    BY <1>2 DEF Family, Touched
  <2>2. QED
    BY <1>2, <2>1 DEF Hashed
<1>3. CASE Judge \/ SaveStore \/ UNCHANGED vars
  BY <1>2, <1>3 DEF Judge, SaveStore, files, scan, vars
<1>4. CASE Disturb /\ phase \in {"hashed", "judged", "saved"}
  <2>1. UNCHANGED <<phase, line, seen, info>>
    BY <1>4 DEF Disturb, Rot, QuietEdit, Restore, Quietly, Save, SaveEnds, Break, Happens, scan
  <2>2. Min(line) \in Nat /\ Min(line) <= runs /\ runs \in Nat
    BY <1>4, LineHolds DEF Types, ScanTyped
  <2>3. ASSUME NEW f \in Family, broken'[f] = "ok", ~(last'[f] >= Min(line))
        PROVE  info.hash[f] = content'[f]
    <3>1. f \in Paths /\ last[f] \in Nat /\ last'[f] \in Nat /\ last[f] <= last'[f]
      BY FilesStep DEF Family, Types, FilesTyped
    <3>2. last'[f] # runs
      BY <2>2, <2>3
    <3>3. content'[f] = content[f] /\ broken[f] = "ok"
      BY <2>3, <3>1, <3>2, FilesStep
    <3>4. ~Touched(f)
      BY <2>2, <2>3, <3>1 DEF Touched
    <3>5. QED
      BY <1>4, <3>3, <3>4 DEF Hashed
  <2>4. Family' = Family
    BY <2>1 DEF Family
  <2>5. QED
    BY <2>1, <2>3, <2>4 DEF Hashed, Touched
<1>5. CASE phase' \notin {"hashed", "judged", "saved"}
  BY <1>5 DEF Hashed
<1>6. CASE Start \/ Open \/ DupPrefix \/ DupHash \/ CorrPrefix \/ Publish \/ Stop \/ Crash
  BY <1>5, <1>6 DEF Start, Open, DupPrefix, DupHash, CorrPrefix, Publish, Stop, Crash, Ended
<1>7. CASE Disturb /\ phase \notin {"hashed", "judged", "saved"}
  <2>1. phase' = phase
    BY <1>7 DEF Disturb, Rot, QuietEdit, Restore, Quietly, Save, SaveEnds, Break, Happens, scan
  <2>2. QED
    BY <1>5, <1>7, <2>1
<1>8. QED
  BY <1>1, <1>3, <1>4, <1>6, <1>7 DEF Next, Pass

-----------------------------------------------------------------------------
(* The invariant.                                                          *)

LEMMA InitInv == Init => ConflictsInv
<1> SUFFICES ASSUME Init PROVE ConflictsInv
  OBVIOUS
<1>1. PICK t \in Trees : checks = t.checks /\ content = t.cells
  BY DEF Init
<1>2. checks \in BOOLEAN /\ content \in [Paths -> Content]
  BY <1>1, ConflictsAssumption DEF Content
<1>3. /\ mod = [f \in Paths |-> 1] /\ broken = [f \in Paths |-> "ok"] /\ saving = {}
      /\ disk = EmptyDisk /\ marker = NoMarker /\ notice = NoMarker
      /\ phase = "idle" /\ adopt = 0 /\ seen = mod /\ store = Closed
      /\ pfx = Blanks /\ info = NoInfo
      /\ runs = 0 /\ line = {} /\ last = [f \in Paths |-> 0] /\ quiet = {}
      /\ used = [events |-> 0, crashes |-> 0, failures |-> 0]
  BY DEF Init
<1>4. Types
  <2>1. FilesTyped
    BY <1>2, <1>3 DEF FilesTyped, Errors
  <2>2. StoreTyped
    BY <1>3, Empties DEF StoreTyped
  <2>3. seen \in [Paths -> Nat] /\ used \in [events : Nat, crashes : Nat, failures : Nat]
    BY <1>3
  <2>4. ScanTyped
    BY <1>3, <2>3, Empties DEF ScanTyped, Phases
  <2>5. QED
    BY <2>1, <2>2, <2>4 DEF Types
<1>5. Control
  BY <1>3, Empties DEF Control
<1>6. Reads
  <2>1. EntriesTrue
    <3>1. \A f \in Paths : disk.ents[f] = NoEntry /\ store.ents[f] = NoEntry
      BY <1>3, Empties
    <3>2. \A f \in Paths : EntryTrue(NoEntry, f)
      BY <1>3, Empties DEF EntryTrue, Told
    <3>3. QED
      BY <3>1, <3>2 DEF EntriesTrue
  <2>2. WalkTrue
    BY <1>3 DEF WalkTrue
  <2>3. PrefixesTrue /\ ErrorsTrue
    BY <1>3, Empties DEF PrefixesTrue, ErrorsTrue
  <2>4. EvidenceTrue
    BY <1>3, Empties DEF EvidenceTrue
  <2>5. EvidenceFits
    <3>1. {f \in Paths : store.changed[f] # NoHash} = {}
      BY <1>3, Empties
    <3>2. QED
      BY <3>1, FS_EmptySet, StoreAssumption DEF EvidenceFits
  <2>6. QED
    BY <2>1, <2>2, <2>3, <2>4, <2>5 DEF Reads
<1>7. Gens
  <2>1. Ordered
    BY <1>3, Empties DEF Ordered
  <2>2. MarkersOwn
    BY <1>3, Empties DEF MarkersOwn
  <2>3. WalkOwns /\ ScanOwns
    BY <1>3 DEF WalkOwns, ScanOwns
  <2>4. QED
    BY <2>1, <2>2, <2>3 DEF Gens
<1>8. Hashed
  BY <1>3 DEF Hashed
<1>9. QED
  BY <1>4, <1>5, <1>6, <1>7, <1>8 DEF ConflictsInv

LEMMA StepInv == ConflictsInv /\ [Next]_vars => ConflictsInv'
<1> SUFFICES ASSUME ConflictsInv, [Next]_vars PROVE ConflictsInv'
  OBVIOUS
<1>1. Types /\ Control /\ Reads /\ (OneFailure => Gens /\ Hashed)
  BY DEF ConflictsInv
<1>2. Types' /\ Control' /\ Reads'
  BY <1>1, TypesStep, ControlStep, ReadsStep
<1>3. OneFailure' => OneFailure
  BY <1>1, <1>2, Counted DEF OneFailure, Types, ScanTyped
<1>4. OneFailure' => Gens' /\ Hashed'
  BY <1>1, <1>3, GensStep, HashedStep
<1>5. QED
  BY <1>2, <1>4 DEF ConflictsInv

\* What the store, the disk, the evidence and the findings say of the files
\* is so in every state a sequence of scans, events and deaths can reach; and
\* with one failed write at most, each generation belongs to one line of scans.
THEOREM ConflictsInvariant == Spec => []ConflictsInv
<1>1. QED
  BY InitInv, StepInv, PTL DEF Spec

-----------------------------------------------------------------------------
(* What the runs check, for every number of files, scans and events.       *)

LEMMA HistoryHolds == ConflictsInv => HistoryTrue
<1> SUFFICES ASSUME ConflictsInv, NEW g \in Family, NEW f \in Changed(Conflict(Kin(g))) PROVE f \in quiet
  BY DEF HistoryTrue
<1>1. DOMAIN Conflict(Kin(g)).hash = Kin(g)
  BY DEF Conflict
<1>2. f \in Kin(g) /\ f \in Paths /\ Conflict(Kin(g)).flag[f] /\ Conflict(Kin(g)).stands[f]
  BY <1>1 DEF Changed, Kin
<1>3. info.flag[f] /\ mod[f] = seen[f]
  BY <1>2 DEF Conflict
<1>4. Aged(f, seen[f]) /\ mod[f] \in Nat
  BY <1>2, <1>3 DEF ConflictsInv, Types, FilesTyped, Reads, EvidenceTrue
<1>5. QED
  BY <1>3, <1>4 DEF Aged

\* Evidence that counts is true, however many writes fail and wherever the
\* daemon dies: a file whose history is held against it has changed under the
\* size and time it has on disk (corrupt.go, buildSet and unchangedOnDisk).
THEOREM EvidenceIsTrue == Spec => []HistoryTrue
<1>1. ConflictsInv => HistoryTrue
  BY HistoryHolds
<1>2. QED
  BY <1>1, ConflictsInvariant, PTL

\* With one failed write at most: the types, the order of the generations, the
\* entries that are what their files held when they last changed, and the bound
\* of the evidence set (hashcache.go, record).
THEOREM ConflictsTyped == Spec => [](OneFailure => TypeOK)
<1>1. ConflictsInv => (OneFailure => TypeOK)
  <2> SUFFICES ASSUME ConflictsInv, OneFailure PROVE TypeOK
    OBVIOUS
  <2>1. Types /\ Reads /\ Gens
    BY DEF ConflictsInv
  <2>2. \A f \in Paths : Len(content[f]) = 2 /\ mod[f] \in Nat /\ broken[f] \in {"ok", "eio", "denied"}
    BY <2>1, ContentSays DEF Types, FilesTyped, Errors
  <2>3. saving \subseteq Paths /\ quiet \subseteq Paths /\ phase \in Phases
    BY <2>1 DEF Types, FilesTyped, ScanTyped
  <2>4. ASSUME NEW f \in Paths
        PROVE  \/ disk.ents[f].full = NoHash \/ <<disk.ents[f].full[1]>> = disk.ents[f].pfx
               \/ last[f] >= disk.ents[f].scan
    <3>1. Told(disk.ents[f], f) \/ Moved(f, disk.ents[f].mod, disk.ents[f].scan)
      BY <2>1 DEF Reads, EntriesTrue, EntryTrue
    <3>2. CASE disk.ents[f] = NoEntry
      BY <3>2, Empties
    <3>3. CASE disk.ents[f].full = content[f] /\ disk.ents[f].pfx = <<content[f][1]>>
      BY <3>3
    <3>4. CASE disk.ents[f].scan <= last[f]
      <4>1. disk.ents[f].scan \in Nat /\ last[f] \in Nat
        BY <2>1 DEF Types, FilesTyped, StoreTyped, DiskType, Entry
      <4>2. QED
        BY <3>4, <4>1
    <3>5. QED
      BY <3>1, <3>2, <3>3, <3>4 DEF Told, Moved
  <2>5. Cardinality({f \in Paths : store.changed[f] # NoHash}) <= ChangedMax
    BY <2>1 DEF Reads, EvidenceFits
  <2>6. \A f \in Paths : disk.ents[f].gen <= disk.gen /\ store.ents[f].gen <= store.gen
    BY <2>1 DEF Gens, Ordered
  <2>7. QED
    BY <2>2, <2>3, <2>4, <2>5, <2>6 DEF TypeOK, Phases
<1>2. QED
  BY <1>1, ConflictsInvariant, PTL

\* With one failed write at most: what the store serves this scan has read, or
\* a run it resumes, whatever was resumed, stopped or killed in between
\* (hashcache.go, loadHashCache, loadHashCacheResume and lookup).
THEOREM ServedIsOwn == Spec => [](OneFailure => LiveEntriesAreOwn)
<1>1. ConflictsInv => (OneFailure => LiveEntriesAreOwn)
  <2> SUFFICES ASSUME ConflictsInv, OneFailure, NEW f \in Paths, store.gen # 0,
                      store.ents[f].gen = store.gen
               PROVE  store.ents[f].scan \in line
    BY DEF LiveEntriesAreOwn
  <2>1. phase \notin {"idle", "walked"}
    BY Empties DEF ConflictsInv, Control
  <2>2. QED
    BY <2>1 DEF ConflictsInv, Gens, ScanOwns
<1>2. QED
  BY <1>1, ConflictsInvariant, PTL

\* Two files that are read and differ are two variants.
LEMMA TwoVariants ==
  ASSUME NEW F \in SUBSET Paths, NEW f \in F, NEW g \in F,
         info.err[f] = "ok", info.err[g] = "ok",
         info.hash[f] # NoHash, info.hash[g] # NoHash, info.hash[f] # info.hash[g]
  PROVE  Variants(Conflict(F)) >= 2
<1> DEFINE R == Read(Conflict(F))
           h == Conflict(F).hash
           H == {h[x] : x \in R}
           E == {x \in DOMAIN h : Conflict(F).err[x] # "ok"}
<1>1. /\ DOMAIN h = F /\ F \subseteq Paths /\ IsFiniteSet(Paths)
      /\ \A x \in F : h[x] = info.hash[x] /\ Conflict(F).err[x] = info.err[x]
  BY StoreAssumption DEF Conflict
<1>2. R \subseteq F /\ E \subseteq F /\ f \in R /\ g \in R
  BY <1>1 DEF Read
<1>3. IsFiniteSet(R) /\ IsFiniteSet(E) /\ Cardinality(E) \in Nat
  <2>1. IsFiniteSet(F)
    BY <1>1, FS_Subset
  <2>2. IsFiniteSet(R) /\ IsFiniteSet(E)
    BY <1>2, <2>1, FS_Subset
  <2>3. QED
    BY <2>2, FS_CardinalityType
<1>4. Variants(Conflict(F)) = Cardinality(H) + Cardinality(E)
  BY DEF Variants
<1>5. h[f] \in H /\ h[g] \in H /\ h[f] # h[g]
  BY <1>1, <1>2
<1> HIDE DEF R, E, h
<1>6. IsFiniteSet(H)
  <2> DEFINE r == [x \in R |-> h[x]]
  <2>1. r \in Surjection(R, H)
    BY DEF Surjection
  <2> HIDE DEF r, H
  <2>2. QED
    BY <1>3, <2>1, FS_Surjection
<1> HIDE DEF H
<1>7. Cardinality({h[f], h[g]}) = 2
  <2>1. IsFiniteSet({h[f]}) /\ Cardinality({h[f]}) = 1
    BY FS_Singleton
  <2>2. Cardinality({h[f]} \cup {h[g]}) = Cardinality({h[f]}) + 1
    BY <1>5, <2>1, FS_AddElement
  <2>3. {h[f]} \cup {h[g]} = {h[f], h[g]}
    OBVIOUS
  <2>4. QED
    BY <2>1, <2>2, <2>3
<1>8. Cardinality({h[f], h[g]}) <= Cardinality(H) /\ Cardinality(H) \in Nat
  <2>1. {h[f], h[g]} \in SUBSET H
    BY <1>5
  <2>2. QED
    BY <1>6, <2>1, FS_Subset, FS_CardinalityType
<1>9. QED
  BY <1>3, <1>4, <1>7, <1>8

\* With one failed write at most: two files of one size and time whose bytes
\* differ, and that nobody touched under the scan, are both in the set that is
\* judged (corrupt.go, corruptWindow).
THEOREM ConflictsAreShown == Spec => [](OneFailure => NoConflictHidden)
<1>1. Init => (OneFailure => NoConflictHidden)
  BY DEF Init, NoConflictHidden, Judged
<1>2. ConflictsInv /\ (OneFailure => NoConflictHidden) /\ [Next]_vars
        => (OneFailure => NoConflictHidden)'
  <2> SUFFICES ASSUME ConflictsInv, OneFailure => NoConflictHidden, [Next]_vars, OneFailure', phase' = "judged"
               PROVE  NoConflictHidden'
    BY DEF NoConflictHidden, Judged
  <2>1. Types /\ Control /\ Reads /\ OneFailure /\ Hashed
    <3>1. Types /\ Control /\ Reads
      BY DEF ConflictsInv
    <3>2. OneFailure
      BY <3>1, TypesStep, Counted DEF OneFailure, Types, ScanTyped
    <3>3. QED
      BY <3>1, <3>2 DEF ConflictsInv
  <2>2. CASE Judge
    <3>1. /\ phase = "hashed" /\ UNCHANGED <<content, broken, last, line, seen>>
          /\ DOMAIN rows' = {f \in Family : Variants(Conflict(Kin(f))) >= 2}
      BY <2>2 DEF Judge, files
    <3>2. ASSUME NEW f \in Family, NEW g \in Kin(f), broken[f] = "ok", broken[g] = "ok",
                 ~Touched(f), ~Touched(g), content[f] # content[g]
          PROVE  f \in DOMAIN rows' /\ g \in DOMAIN rows'
      <4>1. f \in Paths /\ g \in Paths /\ seen[g] = seen[f] /\ g # f
        BY <3>2 DEF Family, Kin
      <4>2. g \in Family /\ Kin(g) = Kin(f) /\ f \in Kin(f)
        BY <4>1 DEF Family, Kin
      <4>3. info.hash[f] = content[f] /\ info.hash[g] = content[g]
        BY <2>1, <3>1, <3>2, <4>2 DEF Hashed
      <4>4. info.err[f] = "ok" /\ info.err[g] = "ok"
        BY <2>1, <3>2, <4>1 DEF Reads, ErrorsTrue
      <4>5. content[f] # NoHash /\ content[g] # NoHash
        BY <2>1, <4>1, ContentSays DEF Types, FilesTyped
      <4>6. Kin(f) \in SUBSET Paths
        BY DEF Kin
      <4>7. Variants(Conflict(Kin(f))) >= 2
        BY <3>2, <4>2, <4>3, <4>4, <4>5, <4>6, TwoVariants
      <4>8. QED
        BY <3>1, <4>2, <4>7
    <3>3. Family' = Family /\ \A f \in Family : Touched(f)' = Touched(f) /\ Kin(f)' = Kin(f)
      BY <3>1 DEF Family, Touched, Kin
    <3>4. ASSUME NEW f \in Family, NEW g \in Kin(f) PROVE Touched(g)' = Touched(g)
      BY <3>1 DEF Touched
    <3>5. QED
      BY <3>1, <3>2, <3>3, <3>4 DEF NoConflictHidden
  <2>3. CASE UNCHANGED vars
    BY <2>1, <2>3 DEF NoConflictHidden, Judged, Family, Kin, Touched, vars, files, scan
  <2>4. Judge \/ UNCHANGED vars
    <3>1. ~Disturb
      <4>1. Disturb => phase' = phase /\ phase \notin {"judged", "saved"}
        BY DEF Disturb, Rot, QuietEdit, Restore, Quietly, Save, SaveEnds, Break, Happens, scan
      <4>2. QED
        BY <4>1
    <3>2. QED
      BY <3>1 DEF Next, Pass, Start, Open, DupPrefix, DupHash, CorrPrefix, CorrHash, SaveStore, Publish,
         Stop, Crash, Ended
  <2>5. QED
    BY <2>2, <2>3, <2>4
<1>3. QED
  BY <1>1, <1>2, ConflictsInvariant, PTL DEF Spec

-----------------------------------------------------------------------------
(* The ladder that judges one family.                                      *)

Row  == [v : {"none", "corrupt", "intact", "unknown"},
         by : {"none", "read", "checks", "past", "shape", "history"},
         note : BOOLEAN, hist : BOOLEAN]
Rows(D) == [D -> Row]

\* A family: finitely many files, a content for each.
Judgeable(c) ==
  /\ DOMAIN c.hash \subseteq Nat /\ IsFiniteSet(DOMAIN c.hash)
  /\ \A x \in DOMAIN c.hash : c.now[x] \in Content

Edited(a) == \A i \in DOMAIN a : a[i].kind = "edit"

LEMMA RowsTyped ==
  /\ Blank \in Row /\ Blank.v = "none"
  /\ \A v \in {"none", "corrupt", "intact", "unknown"},
        by \in {"none", "read", "checks", "past", "shape", "history"}, h \in BOOLEAN :
       Finding(v, by, h) \in Row /\ Finding(v, by, h).v = v /\ Finding(v, by, h).by = by
<1>1. QED
  BY DEF Row, Blank, Finding

\* What the shape of a difference says of the two contents.
LEMMA ShapesTell ==
  ASSUME NEW a \in Content, NEW b \in Content
  PROVE  /\ Compare(a, b) = "lost" => Damage(a)
         /\ Compare(a, b) = "kept" => Damage(b)
         /\ Compare(a, b) = "bitflip" => ~Edited(a) /\ ~Edited(b)
<1> DEFINE D == Differing(a, b)
<1>1. D \subseteq 1..2 /\ DOMAIN a = 1..2 /\ DOMAIN b = 1..2
  BY DEF Differing, Content
<1>2. Compare(a, b) \in {"lost", "kept", "bitflip"} => D # {}
  BY DEF Compare
<1>3. Zeroed(a, D) /\ D # {} => Damage(a)
  BY <1>1 DEF Zeroed, Damage
<1>4. Zeroed(b, D) /\ D # {} => Damage(b)
  BY <1>1 DEF Zeroed, Damage
<1>5. FewBits(a, b, D) /\ D # {} => ~Edited(a) /\ ~Edited(b)
  <2> SUFFICES ASSUME FewBits(a, b, D), NEW i \in D PROVE ~Edited(a) /\ ~Edited(b)
    OBVIOUS
  <2>1. {a[i].kind, b[i].kind} \in {{"data", "flip"}, {"flip"}}
    BY DEF FewBits
  <2>2. a[i].kind # "edit" /\ b[i].kind # "edit"
    BY <2>1
  <2>3. QED
    BY <1>1, <2>2 DEF Edited
<1>6. /\ Compare(a, b) = "lost" => Zeroed(a, D)
      /\ Compare(a, b) = "kept" => Zeroed(b, D)
      /\ Compare(a, b) = "bitflip" => FewBits(a, b, D)
  BY DEF Compare
<1>7. QED
  BY <1>2, <1>3, <1>4, <1>5, <1>6

\* A verdict on i is of i and the files of its bytes, and of none that has one.
Spread(c, D, w, i, row) ==
  /\ WithTwins(c, w, i, row) \in Rows(D)
  /\ \A x \in D :
       WithTwins(c, w, i, row)[x] =
         IF w[x].v = "none" /\ (x = i \/ (c.err[x] = "ok" /\ c.hash[x] = c.hash[i]))
         THEN row ELSE w[x]

LEMMA TwinRows ==
  ASSUME NEW c, NEW D, NEW w \in Rows(D), NEW i, NEW row \in Row
  PROVE  Spread(c, D, w, i, row)
<1>1. QED
  BY DEF WithTwins, Rows, Spread

\* The greatest of finitely many numbers.
LEMMA Greatest ==
  ASSUME NEW S \in SUBSET Nat, IsFiniteSet(S), S # {}
  PROVE  Max(S) \in S /\ \A y \in S : y <= Max(S)
<1> DEFINE Above(x) == {y \in S : x < y}
           N == {Cardinality(Above(x)) : x \in S}
<1>1. \A x \in S : IsFiniteSet(Above(x)) /\ Cardinality(Above(x)) \in Nat
  BY FS_Subset, FS_CardinalityType
<1>2. N \in SUBSET Nat /\ N # {}
  BY <1>1
<1>3. PICK x \in S : \A y \in S : Cardinality(Above(x)) <= Cardinality(Above(y))
  <2>1. Min(N) \in N /\ \A y \in N : Min(N) <= y
    <3> HIDE DEF N
    <3>1. QED
      BY <1>2, Least
  <2>2. QED
    BY <2>1
<1>4. ASSUME NEW y \in S, x < y PROVE FALSE
  <2>1. Above(y) \in SUBSET (Above(x) \ {y}) /\ y \in Above(x)
    <3>1. x \in Nat /\ y \in Nat /\ S \subseteq Nat
      OBVIOUS
    <3>2. \A z \in S : y < z => x < z /\ z # y
      BY <1>4, <3>1
    <3>3. QED
      BY <1>4, <3>2
  <2>2. /\ IsFiniteSet(Above(x) \ {y}) /\ Cardinality(Above(x) \ {y}) = Cardinality(Above(x)) - 1
    BY <1>1, <2>1, FS_RemoveElement
  <2>3. Cardinality(Above(y)) <= Cardinality(Above(x) \ {y})
    BY <2>1, <2>2, FS_Subset
  <2> HIDE DEF Above
  <2>4. QED
    BY <1>1, <1>3, <2>2, <2>3
<1>5. \A y \in S : x >= y
  BY <1>4
<1>6. QED
  BY <1>5 DEF Max

\* Of the sets that have a property one has no smaller one that does.
LEMMA Smallest ==
  ASSUME NEW S, IsFiniteSet(S), NEW B \in SUBSET SUBSET S, B # {}
  PROVE  \E s \in B : IsFiniteSet(s) /\ \A x \in s : s \ {x} \notin B
<1> DEFINE Sizes == {Cardinality(s) : s \in B}
<1>1. \A s \in SUBSET S : IsFiniteSet(s) /\ Cardinality(s) \in Nat
  BY FS_Subset, FS_CardinalityType
<1>2. Sizes \in SUBSET Nat /\ Sizes # {}
  BY <1>1
<1>3. PICK s \in B : \A t \in B : Cardinality(s) <= Cardinality(t)
  <2>1. Min(Sizes) \in Sizes /\ \A m \in Sizes : Min(Sizes) <= m
    <3> HIDE DEF Sizes
    <3>1. QED
      BY <1>2, Least
  <2>2. QED
    BY <2>1
<1>4. ASSUME NEW x \in s PROVE s \ {x} \notin B
  <2>1. Cardinality(s \ {x}) = Cardinality(s) - 1
    BY <1>1, FS_RemoveElement
  <2>2. QED
    BY <1>1, <1>3, <2>1
<1>5. QED
  BY <1>1, <1>3, <1>4

-----------------------------------------------------------------------------
(* The past: the changed files are judged one after another.               *)

\* r is what judging the files of each set of T, the greatest last, makes of w.
Judging(c, w, T, r) ==
  r = [S \in SUBSET T |-> IF S = {} THEN w ELSE PastStep(c, r[S \ {Max(S)}], Max(S))]

LEMMA JudgingExists ==
  ASSUME NEW c, NEW w, NEW ch \in SUBSET Nat, IsFiniteSet(ch)
  PROVE  \E r : Judging(c, w, ch, r)
<1> DEFINE B == {T \in SUBSET ch : ~\E r : Judging(c, w, T, r)}
<1> SUFFICES ASSUME B # {} PROVE FALSE
  OBVIOUS
<1>1. PICK T \in B : IsFiniteSet(T) /\ \A x \in T : T \ {x} \notin B
  <2> HIDE DEF B
  <2>1. B \in SUBSET SUBSET ch
    BY DEF B
  <2>2. QED
    BY <2>1, Smallest
<1>2. T \in SUBSET ch /\ T \in SUBSET Nat /\ ~\E r : Judging(c, w, T, r)
  OBVIOUS
<1>3. CASE T = {}
  <2> DEFINE r == [S \in SUBSET T |-> w]
  <2>1. r = [S \in SUBSET T |-> IF S = {} THEN w ELSE PastStep(c, r[S \ {Max(S)}], Max(S))]
    BY <1>3
  <2>2. Judging(c, w, T, r)
    BY <2>1 DEF Judging
  <2>3. QED
    BY <1>2, <2>2
<1>4. CASE T # {}
  <2> DEFINE m == Max(T)
             R == T \ {m}
  <2>1. m \in T /\ \A y \in T : y <= m
    BY <1>1, <1>2, <1>4, Greatest
  <2>2. \E r : Judging(c, w, R, r)
    BY <1>1, <1>2, <2>1
  <2>3. PICK r : Judging(c, w, R, r)
    BY <2>2
  <2>4. \A S \in SUBSET R : r[S] = IF S = {} THEN w ELSE PastStep(c, r[S \ {Max(S)}], Max(S))
    BY <2>3 DEF Judging
  <2>5. \A S \in SUBSET T : S # {} => Max(S) \in S /\ (m \in S => Max(S) = m)
    <3> SUFFICES ASSUME NEW S \in SUBSET T, S # {} PROVE Max(S) \in S /\ (m \in S => Max(S) = m)
      OBVIOUS
    <3>1. IsFiniteSet(S) /\ S \in SUBSET Nat
      BY <1>1, <1>2, FS_Subset
    <3>2. Max(S) \in S /\ \A y \in S : y <= Max(S)
      BY <3>1, Greatest
    <3> DEFINE k == Max(S)
    <3>3. k \in Nat /\ m \in Nat /\ k <= m /\ (m \in S => m <= k)
      BY <1>2, <2>1, <3>1, <3>2
    <3> HIDE DEF k, m
    <3>4. m \in S => k = m
      BY <3>3
    <3>5. QED
      BY <3>2, <3>4 DEF k
  <2> DEFINE q == [S \in SUBSET T |-> IF m \in S THEN PastStep(c, r[S \ {m}], m) ELSE r[S]]
  <2>6. ASSUME NEW S \in SUBSET T
        PROVE  q[S] = IF S = {} THEN w ELSE PastStep(c, q[S \ {Max(S)}], Max(S))
    <3>1. CASE m \in S
      <4>1. Max(S) = m /\ S # {}
        BY <2>5, <3>1
      <4>2. S \ {m} \in SUBSET T /\ m \notin S \ {m}
        OBVIOUS
      <4>3. q[S \ {m}] = r[S \ {m}]
        <5> HIDE DEF m
        <5> QED BY <4>2
      <4>4. q[S] = PastStep(c, r[S \ {m}], m)
        <5> HIDE DEF m
        <5> QED BY <3>1
      <4> HIDE DEF q, m
      <4>5. QED
        BY <4>1, <4>3, <4>4
    <3>2. CASE m \notin S
      <4>1. S \in SUBSET R /\ q[S] = r[S]
        <5> HIDE DEF m
        <5> QED BY <3>2
      <4>2. S # {} => S \ {Max(S)} \in SUBSET T /\ m \notin S \ {Max(S)}
        <5> HIDE DEF m
        <5> QED BY <3>2
      <4>3. S # {} => q[S \ {Max(S)}] = r[S \ {Max(S)}]
        <5> HIDE DEF m
        <5> QED BY <4>2
      <4>4. r[S] = IF S = {} THEN w ELSE PastStep(c, r[S \ {Max(S)}], Max(S))
        BY <2>4, <4>1
      <4> HIDE DEF q, m
      <4>5. QED
        BY <4>1, <4>3, <4>4
    <3>3. QED
      BY <3>1, <3>2
  <2>7. q = [S \in SUBSET T |-> q[S]]
    OBVIOUS
  <2> HIDE DEF q
  <2>8. q = [S \in SUBSET T |-> IF S = {} THEN w ELSE PastStep(c, q[S \ {Max(S)}], Max(S))]
    BY <2>6, <2>7
  <2>9. Judging(c, w, T, q)
    BY <2>8 DEF Judging
  <2>10. QED
    BY <1>2, <2>9
<1>5. QED
  BY <1>3, <1>4

\* The past, unfolded.
LEMMA PastUnfolds ==
  ASSUME NEW c, NEW w, NEW ch \in SUBSET Nat, IsFiniteSet(ch)
  PROVE  \E r : /\ Judging(c, w, ch, r)
                /\ Past(c, w, ch) = IF AnyCorrupt(w) THEN w ELSE r[ch]
<1> DEFINE f == CHOOSE r : r = [S \in SUBSET ch |-> IF S = {} THEN w ELSE PastStep(c, r[S \ {Max(S)}], Max(S))]
<1>1. \E r : r = [S \in SUBSET ch |-> IF S = {} THEN w ELSE PastStep(c, r[S \ {Max(S)}], Max(S))]
  <2>1. PICK r : Judging(c, w, ch, r)
    BY JudgingExists
  <2>2. QED
    BY <2>1, Zenon DEF Judging
<1>2. f = [S \in SUBSET ch |-> IF S = {} THEN w ELSE PastStep(c, f[S \ {Max(S)}], Max(S))]
  BY <1>1
<1>3. Past(c, w, ch) = IF AnyCorrupt(w) THEN w ELSE f[ch]
  BY Zenon DEF Past
<1> HIDE DEF f
<1>4. QED
  BY <1>2, <1>3 DEF Judging

\* What each step keeps, the past keeps.
LEMMA PastKeeps ==
  ASSUME NEW c, NEW U, NEW w \in U, NEW ch \in SUBSET Nat, IsFiniteSet(ch),
         \A u \in U, i \in ch : PastStep(c, u, i) \in U
  PROVE  Past(c, w, ch) \in U
<1>1. PICK r : /\ Judging(c, w, ch, r)
               /\ Past(c, w, ch) = IF AnyCorrupt(w) THEN w ELSE r[ch]
  BY PastUnfolds
<1>2. \A S \in SUBSET ch : r[S] = IF S = {} THEN w ELSE PastStep(c, r[S \ {Max(S)}], Max(S))
  BY <1>1 DEF Judging
<1> DEFINE B == {S \in SUBSET ch : r[S] \notin U}
<1>3. B = {}
  <2> SUFFICES ASSUME B # {} PROVE FALSE
    OBVIOUS
  <2>1. PICK S \in B : IsFiniteSet(S) /\ \A x \in S : S \ {x} \notin B
    <3> HIDE DEF B
    <3>1. B \in SUBSET SUBSET ch
      BY DEF B
    <3>2. QED
      BY <3>1, Smallest
  <2>2. S \in SUBSET ch /\ S \in SUBSET Nat /\ r[S] \notin U
    OBVIOUS
  <2>3. S # {}
    BY <1>2, <2>2
  <2>4. Max(S) \in S
    BY <2>1, <2>2, <2>3, Greatest
  <2>5. r[S \ {Max(S)}] \in U
    BY <2>1, <2>2, <2>4
  <2>6. r[S] = PastStep(c, r[S \ {Max(S)}], Max(S))
    BY <1>2, <2>2, <2>3
  <2>7. QED
    BY <2>2, <2>4, <2>5, <2>6
<1>4. r[ch] \in U
  BY <1>3
<1>5. QED
  BY <1>1, <1>4

-----------------------------------------------------------------------------
(* The rungs.                                                              *)

\* What every rung keeps, the rows have before the last.
LEMMA RungsKeep ==
  ASSUME NEW c, Judgeable(c), NEW U,
         OwnChecks(c, Unread(c), Changed(c)) \in U,
         \A u \in U, i \in Changed(c) : PastStep(c, u, i) \in U,
         \A u \in U, a \in Read(c), b \in Read(c) : JudgeShape(c, u, a, b, Changed(c)) \in U
  PROVE  \E u \in U : JudgeSet(c) = Rest(c, u, Changed(c))
<1> DEFINE D == DOMAIN c.hash
           ch == Changed(c)
           w == OwnChecks(c, Unread(c), ch)
           p == Past(c, w, ch)
           q == Present(c, p, ch)
<1>1. ch \in SUBSET Nat /\ IsFiniteSet(ch)
  <2>1. ch \subseteq D
    BY DEF Changed
  <2>2. QED
    BY <2>1, FS_Subset DEF Judgeable
<1>2. w \in U /\ \A u \in U, i \in ch : PastStep(c, u, i) \in U
  OBVIOUS
<1>3. p \in U
  <2> HIDE DEF ch, w
  <2>1. QED
    BY <1>1, <1>2, PastKeeps
<1>4. q \in U
  <2> DEFINE a == Min(Read(c))
             others == {f \in Read(c) : c.hash[f] # c.hash[a]}
             b == Min(others)
  <2>1. Read(c) \in SUBSET Nat
    BY DEF Read, Judgeable
  <2>2. CASE Read(c) # {} /\ others # {}
    <3>1. a \in Read(c)
      BY <2>1, <2>2, Least
    <3>2. b \in others
      <4>1. others \in SUBSET Nat
        BY <2>1
      <4> HIDE DEF others
      <4>2. QED
        BY <2>2, <4>1, Least
    <3>3. b \in Read(c)
      BY <3>2
    <3>4. JudgeShape(c, p, a, b, ch) \in U
      <4> HIDE DEF a, b, p
      <4>1. QED
        BY <1>3, <3>1, <3>3
    <3>5. q = p \/ q = JudgeShape(c, p, a, b, ch)
      <4> HIDE DEF p, ch
      <4>1. QED
        BY DEF Present
    <3> HIDE DEF a, b, p, q, ch
    <3>6. QED
      BY <1>3, <3>4, <3>5
  <2>3. CASE Read(c) = {} \/ others = {}
    <3>1. q = p
      <4> HIDE DEF p, ch
      <4>1. QED
        BY <2>3 DEF Present
    <3>2. QED
      BY <1>3, <3>1
  <2>4. QED
    BY <2>2, <2>3
<1>5. JudgeSet(c) = Rest(c, q, ch)
  BY DEF JudgeSet
<1>6. QED
  BY <1>4, <1>5

\* The last rung convicts nobody.
LastSays(c, u, ch, x) ==
  /\ Rest(c, u, ch)[x].v = "corrupt" => Rest(c, u, ch)[x] = u[x]
  /\ u[x].v # "none" => Rest(c, u, ch)[x] = u[x]

LEMMA RestConvictsNone ==
  ASSUME NEW c, NEW u \in Rows(DOMAIN c.hash), NEW ch, NEW x \in DOMAIN c.hash
  PROVE  LastSays(c, u, ch, x)
<1>1. u[x] \in Row
  BY DEF Rows
<1>2. \A v \in {"unknown", "intact"} :
        [u[x] EXCEPT !.v = v].v = v /\ [u[x] EXCEPT !.v = v, !.note = TRUE].v = v
  BY <1>1 DEF Row
<1>3. Finding("unknown", "history", TRUE).v = "unknown"
  BY DEF Finding
<1>4. QED
  <2> DEFINE ux == u[x]
             rx == Rest(c, u, ch)[x]
  <2>1. \/ rx = ux /\ ux.v # "none"
        \/ ux.v = "none" /\ (\/ rx = Finding("unknown", "history", TRUE)
                            \/ rx = [ux EXCEPT !.v = "unknown"]
                            \/ rx = [ux EXCEPT !.v = "intact", !.note = TRUE])
    BY Zenon DEF Rest
  <2>2. rx = ux \/ (ux.v = "none" /\ rx.v \in {"unknown", "intact"})
    <3> HIDE DEF ux, rx
    <3>1. [ux EXCEPT !.v = "unknown"].v = "unknown" /\ [ux EXCEPT !.v = "intact", !.note = TRUE].v = "intact"
      BY <1>2 DEF ux
    <3>2. QED
      BY <2>1, <3>1, <1>3
  <2> HIDE DEF ux, rx
  <2>3. (rx.v = "corrupt" => rx = ux) /\ (ux.v # "none" => rx = ux)
    BY <2>2
  <2>4. QED
    BY <2>3 DEF ux, rx, LastSays

\* The first rungs.
FirstSays(c, ch, x) ==
  /\ Unread(c)[x] = CASE c.err[x] = "eio" -> Finding("corrupt", "read", FALSE)
                      [] c.err[x] = "denied" -> Finding("unknown", "read", FALSE)
                      [] OTHER -> Blank
  /\ OwnChecks(c, Unread(c), ch)[x] =
       IF c.err[x] # "ok" \/ Verify(c, x) # "damaged" THEN Unread(c)[x]
       ELSE IF c.stands[x] THEN Finding("corrupt", "checks", x \in ch)
       ELSE Finding("unknown", "checks", FALSE)

LEMMA FirstRungs ==
  ASSUME NEW c, NEW ch
  PROVE  /\ Unread(c) \in Rows(DOMAIN c.hash)
         /\ OwnChecks(c, Unread(c), ch) \in Rows(DOMAIN c.hash)
         /\ \A x \in DOMAIN c.hash : FirstSays(c, ch, x)
<1> DEFINE D == DOMAIN c.hash
<1>1. \A x \in D :
        /\ Unread(c)[x] = CASE c.err[x] = "eio" -> Finding("corrupt", "read", FALSE)
                            [] c.err[x] = "denied" -> Finding("unknown", "read", FALSE)
                            [] OTHER -> Blank
        /\ Unread(c)[x] \in Row
  <2>1. /\ Finding("corrupt", "read", FALSE) \in Row /\ Finding("unknown", "read", FALSE) \in Row
        /\ Blank \in Row
    BY RowsTyped
  <2>2. \A x \in D : Unread(c)[x] = CASE c.err[x] = "eio" -> Finding("corrupt", "read", FALSE)
                                      [] c.err[x] = "denied" -> Finding("unknown", "read", FALSE)
                                      [] OTHER -> Blank
    BY DEF Unread
  <2>3. \A x \in D : Unread(c)[x] \in {Finding("corrupt", "read", FALSE), Finding("unknown", "read", FALSE), Blank}
    BY <2>2
  <2>4. QED
    BY <2>1, <2>2, <2>3
<1>2. Unread(c) \in Rows(D)
  BY <1>1 DEF Unread, Rows
<1>3. \A x \in D : c.err[x] = "ok" => Unread(c)[x].v = "none"
  <2>1. \A x \in D : c.err[x] = "ok" => Unread(c)[x] = Blank
    BY <1>1
  <2>2. QED
    BY <2>1, RowsTyped
<1>4. \A x \in D :
        /\ OwnChecks(c, Unread(c), ch)[x] =
             IF c.err[x] # "ok" \/ Verify(c, x) # "damaged" THEN Unread(c)[x]
             ELSE IF c.stands[x] THEN Finding("corrupt", "checks", x \in ch)
             ELSE Finding("unknown", "checks", FALSE)
        /\ OwnChecks(c, Unread(c), ch)[x] \in Row
  <2> DEFINE w == Unread(c)
  <2>1. DOMAIN w = D
    BY DEF Unread
  <2>2. \A x \in D : w[x] \in Row /\ (c.err[x] = "ok" => w[x].v = "none")
    BY <1>1, <1>3
  <2> HIDE DEF w
  <2>3. \A x \in D :
        /\ OwnChecks(c, w, ch)[x] =
             IF c.err[x] # "ok" \/ Verify(c, x) # "damaged" THEN w[x]
             ELSE IF c.stands[x] THEN Finding("corrupt", "checks", x \in ch)
             ELSE Finding("unknown", "checks", FALSE)
        /\ OwnChecks(c, w, ch)[x] \in Row
    <3>1. \A x : Finding("corrupt", "checks", x \in ch) \in Row
      <4>1. \A h \in BOOLEAN : Finding("corrupt", "checks", h) \in Row
        BY RowsTyped
      <4>2. \A x : (x \in ch) \in BOOLEAN
        OBVIOUS
      <4>3. QED
        BY <4>1, <4>2, Zenon
    <3>2. Finding("unknown", "checks", FALSE) \in Row
      BY RowsTyped
    <3>3. \A x \in D : OwnChecks(c, w, ch)[x] =
             IF c.err[x] # "ok" \/ Verify(c, x) # "damaged" \/ w[x].v # "none" THEN w[x]
             ELSE IF c.stands[x] THEN Finding("corrupt", "checks", x \in ch)
             ELSE Finding("unknown", "checks", FALSE)
      BY <2>1 DEF OwnChecks
    <3>4. QED
      BY <2>2, <3>1, <3>2, <3>3
  <2>4. QED
    BY <2>3 DEF w
<1>5. DOMAIN OwnChecks(c, Unread(c), ch) = D
  BY DEF OwnChecks, Unread
<1>6. OwnChecks(c, Unread(c), ch) = [x \in D |-> OwnChecks(c, Unread(c), ch)[x]]
  BY DEF OwnChecks, Unread
<1>7. OwnChecks(c, Unread(c), ch) \in Rows(D)
  <2> DEFINE o == OwnChecks(c, Unread(c), ch)
  <2>1. o = [x \in D |-> o[x]] /\ \A x \in D : o[x] \in Row
    BY <1>4, <1>6
  <2> HIDE DEF o
  <2>2. o \in Rows(D)
    BY <2>1 DEF Rows
  <2>3. QED
    BY <2>2 DEF o
<1>8. \A x \in D : FirstSays(c, ch, x)
  BY <1>1, <1>4 DEF FirstSays
<1>9. QED
  BY <1>2, <1>7, <1>8

-----------------------------------------------------------------------------
(* Twins, and what a conviction stands on.                                 *)

\* Two files read as equal, whose contents and times look the same.
TwinsOf(c, f, g) ==
  /\ f \in DOMAIN c.hash /\ g \in DOMAIN c.hash
  /\ c.err[f] = "ok" /\ c.err[g] = "ok" /\ c.hash[f] = c.hash[g]
  /\ c.now[f] = c.now[g] /\ c.open[f] = c.open[g] /\ c.stands[f] = c.stands[g]

TwinsStay(c, U, A) == \A t \in U, i \in A, row \in Row : WithTwins(c, t, i, row) \in U

\* The rungs with twins are made of judgements with twins.
LEMMA TwinRungs ==
  ASSUME NEW c, NEW U, NEW A, NEW u \in U, TwinsStay(c, U, A)
  PROVE  /\ \A i \in A, j \in A : JudgePast(c, u, i, j) \in U
         /\ \A ch : \A i \in A, j \in A : JudgeShape(c, u, i, j, ch) \in U
<1> USE DEF TwinsStay
<1>1. \A v \in {"none", "corrupt", "intact"}, by \in {"past", "shape"}, h \in BOOLEAN : Finding(v, by, h) \in Row
  BY RowsTyped
<1>2. ASSUME NEW i \in A, NEW j \in A PROVE JudgePast(c, u, i, j) \in U
  <2> DEFINE bad == WithTwins(c, u, i, Finding("corrupt", "past", TRUE))
  <2>1. bad \in U
    BY <1>1
  <2>2. WithTwins(c, bad, j, Finding("intact", "past", FALSE)) \in U
    <3> HIDE DEF bad
    <3>1. QED
      BY <1>1, <2>1
  <2>3. WithTwins(c, u, i, Finding("none", "past", TRUE)) \in U
    BY <1>1
  <2>4. JudgePast(c, u, i, j) \in {u, WithTwins(c, bad, j, Finding("intact", "past", FALSE)),
                                  WithTwins(c, u, i, Finding("none", "past", TRUE))}
    BY DEF JudgePast
  <2>5. QED
    BY <2>2, <2>3, <2>4
<1>3. ASSUME NEW a \in A, NEW b \in A, NEW ch PROVE JudgeShape(c, u, a, b, ch) \in U
  <2> DEFINE Two(x, p, y, q) == WithTwins(c, WithTwins(c, u, x, p), y, q)
  <2>1. \A x \in A, y \in A, p \in Row, q \in Row : Two(x, p, y, q) \in U
    OBVIOUS
  <2>2. \A x \in {"none", "corrupt", "intact"}, h \in BOOLEAN : Finding(x, "shape", h) \in Row
    BY <1>1
  <2>3. \A x : (x \in ch) \in BOOLEAN /\ (x \in {}) \in BOOLEAN
    OBVIOUS
  <2> DEFINE lost(x, y) == Two(x, Finding("corrupt", "shape", FALSE), y, Finding("intact", "shape", FALSE))
             former(x, y) == c.prior[x] # NoHash /\ c.hash[y] = c.prior[x]
             rotted(x, y) == Two(x, Finding("corrupt", "shape", TRUE),
                                 y, Finding(IF former(x, y) THEN "intact" ELSE "none", "shape", FALSE))
             noted(H) == Two(a, Finding("none", "shape", a \in H), b, Finding("none", "shape", b \in H))
  <2>4. \A x \in A, y \in A : lost(x, y) \in U
    BY <2>1, <2>2
  <2>5. \A x \in A, y \in A : rotted(x, y) \in U
    <3>1. \A x, y : (IF former(x, y) THEN "intact" ELSE "none") \in {"none", "corrupt", "intact"}
      OBVIOUS
    <3>2. \A x, y : Finding(IF former(x, y) THEN "intact" ELSE "none", "shape", FALSE) \in Row
      BY <2>2, <3>1
    <3>3. Finding("corrupt", "shape", TRUE) \in Row
      BY <2>2
    <3> HIDE DEF Two, former
    <3>4. QED
      BY <2>1, <3>2, <3>3
  <2>6. noted({}) \in U /\ noted(ch) \in U
    <3>1. \A x : Finding("none", "shape", x \in ch) \in Row /\ Finding("none", "shape", x \in {}) \in Row
      BY <2>2, <2>3, Zenon
    <3> HIDE DEF Two
    <3>2. QED
      BY <2>1, <3>1
  <2>7. JudgeShape(c, u, a, b, ch) \in {u, lost(a, b), lost(b, a), rotted(a, b), rotted(b, a), noted({}), noted(ch)}
    BY DEF JudgeShape
  <2> HIDE DEF lost, rotted, noted
  <2>8. QED
    BY <2>4, <2>5, <2>6, <2>7
<1>4. QED
  BY <1>2, <1>3

\* Twins get one verdict.
LEMMA TwinsAlike ==
  ASSUME NEW c, Judgeable(c), NEW f, NEW g, TwinsOf(c, f, g)
  PROVE  JudgeSet(c)[f].v = "corrupt" => JudgeSet(c)[g].v = "corrupt"
<1> DEFINE D == DOMAIN c.hash
           ch == Changed(c)
           U == {u \in Rows(D) : u[f].v = u[g].v}
           w == OwnChecks(c, Unread(c), ch)
<1>1. f \in D /\ g \in D
  BY DEF TwinsOf
<1>2. w \in U
  <2>1. w \in Rows(D)
    BY FirstRungs
  <2>2. \A x \in {f, g} :
          w[x].v = IF Verify(c, x) # "damaged" THEN "none" ELSE IF c.stands[x] THEN "corrupt" ELSE "unknown"
    <3> SUFFICES ASSUME NEW x \in {f, g}
                 PROVE  w[x].v = IF Verify(c, x) # "damaged" THEN "none"
                                 ELSE IF c.stands[x] THEN "corrupt" ELSE "unknown"
      OBVIOUS
    <3>1. x \in D /\ c.err[x] = "ok"
      BY DEF TwinsOf
    <3>2. FirstSays(c, ch, x)
      <4> HIDE DEF ch
      <4>1. QED
        BY <3>1, FirstRungs
    <3>3. w[x] = IF Verify(c, x) # "damaged" THEN Blank
                 ELSE IF c.stands[x] THEN Finding("corrupt", "checks", x \in ch)
                 ELSE Finding("unknown", "checks", FALSE)
      <4> HIDE DEF ch
      <4>1. QED
        BY <3>1, <3>2 DEF FirstSays
    <3>4. Finding("corrupt", "checks", x \in ch).v = "corrupt" /\ Finding("unknown", "checks", FALSE).v = "unknown"
      BY DEF Finding
    <3>5. Blank.v = "none"
      BY RowsTyped
    <3> HIDE DEF w
    <3>6. QED
      BY <3>3, <3>4, <3>5
  <2>3. Verify(c, f) = Verify(c, g) /\ c.stands[f] = c.stands[g]
    BY DEF Verify, TwinsOf
  <2> HIDE DEF w
  <2>4. QED
    BY <2>1, <2>2, <2>3
<1>3. ASSUME NEW t \in U, NEW i, NEW row \in Row PROVE WithTwins(c, t, i, row) \in U
  <2> DEFINE r == WithTwins(c, t, i, row)
  <2>1. /\ r \in Rows(D)
        /\ \A x \in D : r[x] = IF t[x].v = "none" /\ (x = i \/ (c.err[x] = "ok" /\ c.hash[x] = c.hash[i]))
                               THEN row ELSE t[x]
    <3>1. t \in Rows(D)
      OBVIOUS
    <3> HIDE DEF D
    <3>2. Spread(c, D, t, i, row)
      BY <3>1, TwinRows
    <3>3. QED
      BY <3>2 DEF Spread
  <2>2. t[f].v = t[g].v
    OBVIOUS
  <2> HIDE DEF r
  <2>3. r[f].v = r[g].v
    BY <1>1, <2>1, <2>2 DEF TwinsOf
  <2>4. QED
    BY <2>1, <2>3 DEF r
<1> HIDE DEF U, ch, w
<1>4. ASSUME NEW u \in U, NEW i, NEW j, NEW h
      PROVE  JudgePast(c, u, i, j) \in U /\ JudgeShape(c, u, i, j, h) \in U
  <2>1. TwinsStay(c, U, {i, j})
    BY <1>3 DEF TwinsStay
  <2>2. QED
    BY <2>1, TwinRungs
<1>5. \A u \in U, i \in ch : PastStep(c, u, i) \in U
  BY <1>4 DEF PastStep
<1>6. \E u \in U : JudgeSet(c) = Rest(c, u, ch)
  <2>1. \A u \in U, a \in Read(c), b \in Read(c) : JudgeShape(c, u, a, b, ch) \in U
    BY <1>4
  <2>2. QED
    BY <1>2, <1>5, <2>1, RungsKeep DEF ch, w
<1>7. PICK u \in U : JudgeSet(c) = Rest(c, u, ch)
  BY <1>6
<1>8. u \in Rows(D) /\ u[f].v = u[g].v
  BY DEF U
<1>9. ASSUME JudgeSet(c)[f].v = "corrupt" PROVE JudgeSet(c)[g].v = "corrupt"
  <2>1. /\ Rest(c, u, ch)[f].v = "corrupt" => Rest(c, u, ch)[f] = u[f]
        /\ u[g].v # "none" => Rest(c, u, ch)[g] = u[g]
    <3>1. LastSays(c, u, ch, f) /\ LastSays(c, u, ch, g)
      BY <1>1, <1>8, RestConvictsNone
    <3>2. QED
      BY <3>1 DEF LastSays
  <2>2. u[f].v = "corrupt" /\ Rest(c, u, ch)[g] = u[g]
    BY <1>7, <1>8, <1>9, <2>1
  <2>3. QED
    BY <1>7, <1>8, <2>2
<1>10. QED
  BY <1>9

\* What a file may be convicted for.
Hurts(c, i) == Damage(c.now[i]) \/ (i \in Changed(c) /\ ~Edited(c.now[i]))
Grounds(c, x, by) ==
  \/ by = "read" /\ c.err[x] = "eio"
  \/ by = "checks" /\ c.err[x] = "ok" /\ c.stands[x] /\ Verify(c, x) = "damaged"
  \/ /\ by \in {"past", "shape"}
     /\ \E i \in DOMAIN c.hash : /\ c.err[i] = "ok" /\ Hurts(c, i)
                                 /\ x = i \/ (c.err[x] = "ok" /\ c.hash[x] = c.hash[i])
Grounded(c) == {u \in Rows(DOMAIN c.hash) : \A x \in DOMAIN c.hash : u[x].v = "corrupt" => Grounds(c, x, u[x].by)}

\* The row of a file that was read: a conviction by comparison needs a hurt.
Deserved(c, i, row) ==
  /\ row \in Row /\ i \in DOMAIN c.hash /\ c.err[i] = "ok"
  /\ row.v = "corrupt" => row.by \in {"past", "shape"} /\ Hurts(c, i)

LEMMA DeservedStands ==
  ASSUME NEW c, NEW t \in Grounded(c), NEW i, NEW row, Deserved(c, i, row)
  PROVE  WithTwins(c, t, i, row) \in Grounded(c)
<1> DEFINE D == DOMAIN c.hash
           r == WithTwins(c, t, i, row)
<1>1. t \in Rows(D) /\ row \in Row
  BY DEF Grounded, Deserved
<1>2. Spread(c, D, t, i, row)
  <2> HIDE DEF D
  <2>1. QED
    BY <1>1, TwinRows
<1>3. ASSUME NEW x \in D, r[x].v = "corrupt" PROVE Grounds(c, x, r[x].by)
  <2>1. \/ r[x] = t[x]
        \/ r[x] = row /\ (x = i \/ (c.err[x] = "ok" /\ c.hash[x] = c.hash[i]))
    BY <1>2 DEF Spread
  <2>2. CASE r[x] = t[x]
    BY <1>3, <2>2 DEF Grounded
  <2>3. CASE r[x] = row /\ (x = i \/ (c.err[x] = "ok" /\ c.hash[x] = c.hash[i]))
    <3> HIDE DEF r
    <3>1. row.by \in {"past", "shape"} /\ Hurts(c, i) /\ i \in D /\ c.err[i] = "ok"
      BY <1>3, <2>3 DEF Deserved
    <3>2. QED
      BY <2>3, <3>1 DEF Grounds
  <2>4. QED
    BY <2>1, <2>2, <2>3
<1>4. r \in Rows(D)
  BY <1>2 DEF Spread
<1> HIDE DEF r
<1>5. r \in Grounded(c)
  BY <1>3, <1>4 DEF Grounded
<1>6. QED
  BY <1>5 DEF r

\* The shape of two contents of a family hurts the one it names.
LEMMA ShapesHurt ==
  ASSUME NEW c, Judgeable(c), NEW i \in DOMAIN c.hash, NEW j \in DOMAIN c.hash
  PROVE  /\ Shape(c, i, j) = "lost" => Hurts(c, i)
         /\ Shape(c, i, j) = "kept" => Hurts(c, j)
         /\ Shape(c, i, j) = "bitflip" =>
              (i \in Changed(c) => Hurts(c, i)) /\ (j \in Changed(c) => Hurts(c, j))
<1>1. c.now[i] \in Content /\ c.now[j] \in Content
  BY DEF Judgeable
<1>2. Shape(c, i, j) # "none" => Shape(c, i, j) = Compare(c.now[i], c.now[j])
  BY DEF Shape
<1>3. /\ Compare(c.now[i], c.now[j]) = "lost" => Damage(c.now[i])
      /\ Compare(c.now[i], c.now[j]) = "kept" => Damage(c.now[j])
      /\ Compare(c.now[i], c.now[j]) = "bitflip" => ~Edited(c.now[i]) /\ ~Edited(c.now[j])
  BY <1>1, ShapesTell
<1>4. QED
  BY <1>2, <1>3 DEF Hurts

LEMMA ComparisonsDeserved ==
  ASSUME NEW c, Judgeable(c), NEW u \in Grounded(c), NEW i \in DOMAIN c.hash, NEW j \in DOMAIN c.hash,
         c.err[i] = "ok", c.err[j] = "ok"
  PROVE  /\ i \in Changed(c) => JudgePast(c, u, i, j) \in Grounded(c)
         /\ JudgeShape(c, u, i, j, Changed(c)) \in Grounded(c)
<1> DEFINE ch == Changed(c)
           G == Grounded(c)
           Two(x, p, y, q) == WithTwins(c, WithTwins(c, u, x, p), y, q)
<1>1. \A h : Finding("corrupt", "past", h).v = "corrupt" /\ Finding("corrupt", "past", h).by = "past"
             /\ Finding("corrupt", "shape", h).v = "corrupt" /\ Finding("corrupt", "shape", h).by = "shape"
  BY DEF Finding
<1>2. \A x \in {i, j}, h \in BOOLEAN : Hurts(c, x) => /\ Deserved(c, x, Finding("corrupt", "past", h))
                                                     /\ Deserved(c, x, Finding("corrupt", "shape", h))
  BY <1>1, RowsTyped DEF Deserved
<1>3. \A x \in {i, j}, v \in {"none", "intact"}, by \in {"past", "shape"}, h \in BOOLEAN :
        Deserved(c, x, Finding(v, by, h))
  <2>1. \A v \in {"none", "intact"}, by \in {"past", "shape"}, h \in BOOLEAN :
          Finding(v, by, h) \in Row /\ Finding(v, by, h).v # "corrupt"
    BY RowsTyped
  <2>2. QED
    BY <2>1 DEF Deserved
<1>4. \A x, y, p, q : Deserved(c, x, p) /\ Deserved(c, y, q) => Two(x, p, y, q) \in G
  BY DeservedStands
<1>5. ASSUME i \in ch PROVE JudgePast(c, u, i, j) \in G
  <2> DEFINE bad == Two(i, Finding("corrupt", "past", TRUE), j, Finding("intact", "past", FALSE))
             noted == WithTwins(c, u, i, Finding("none", "past", TRUE))
  <2>1. Shape(c, i, j) \in {"lost", "bitflip"} => bad \in G
    <3>1. Shape(c, i, j) \in {"lost", "bitflip"} => Hurts(c, i)
      BY <1>5, ShapesHurt
    <3>2. Deserved(c, j, Finding("intact", "past", FALSE))
      BY <1>3
    <3>3. Hurts(c, i) => Deserved(c, i, Finding("corrupt", "past", TRUE))
      BY <1>2
    <3> HIDE DEF Two
    <3>4. QED
      BY <1>4, <3>1, <3>2, <3>3
  <2>2. noted \in G
    BY <1>3, DeservedStands
  <2>3. \/ Shape(c, i, j) \in {"lost", "bitflip"} /\ JudgePast(c, u, i, j) = bad
        \/ JudgePast(c, u, i, j) \in {noted, u}
    BY DEF JudgePast
  <2> HIDE DEF bad, noted
  <2>4. QED
    BY <2>1, <2>2, <2>3
<1>6. JudgeShape(c, u, i, j, ch) \in G
  <2> DEFINE lost(x, y) == Two(x, Finding("corrupt", "shape", FALSE), y, Finding("intact", "shape", FALSE))
             former(x, y) == c.prior[x] # NoHash /\ c.hash[y] = c.prior[x]
             rotted(x, y) == Two(x, Finding("corrupt", "shape", TRUE),
                                 y, Finding(IF former(x, y) THEN "intact" ELSE "none", "shape", FALSE))
             noted(H) == Two(i, Finding("none", "shape", i \in H), j, Finding("none", "shape", j \in H))
  <2>1. \A x \in {i, j}, y \in {i, j} : Hurts(c, x) => lost(x, y) \in G
    BY <1>2, <1>3, <1>4
  <2>2. \A x \in {i, j}, y \in {i, j} : Hurts(c, x) => rotted(x, y) \in G
    <3>1. \A x, y : (IF former(x, y) THEN "intact" ELSE "none") \in {"none", "intact"}
      OBVIOUS
    <3>2. \A x, y \in {i, j} : Deserved(c, y, Finding(IF former(x, y) THEN "intact" ELSE "none", "shape", FALSE))
      BY <1>3, <3>1
    <3>3. \A x \in {i, j} : Hurts(c, x) => Deserved(c, x, Finding("corrupt", "shape", TRUE))
      BY <1>2
    <3> HIDE DEF Two, former
    <3>4. QED
      BY <1>4, <3>2, <3>3
  <2>3. noted({}) \in G /\ noted(ch) \in G
    <3>1. \A x : (x \in ch) \in BOOLEAN /\ (x \in {}) \in BOOLEAN
      OBVIOUS
    <3>2. \A x \in {i, j} : Deserved(c, x, Finding("none", "shape", x \in ch))
                            /\ Deserved(c, x, Finding("none", "shape", x \in {}))
      BY <1>3, <3>1, Zenon
    <3> HIDE DEF Two
    <3>3. QED
      BY <1>4, <3>2
  <2>4. \/ Shape(c, i, j) = "lost" /\ JudgeShape(c, u, i, j, ch) = lost(i, j)
        \/ Shape(c, i, j) = "kept" /\ JudgeShape(c, u, i, j, ch) = lost(j, i)
        \/ Shape(c, i, j) = "bitflip" /\ i \in ch /\ JudgeShape(c, u, i, j, ch) = rotted(i, j)
        \/ Shape(c, i, j) = "bitflip" /\ j \in ch /\ JudgeShape(c, u, i, j, ch) = rotted(j, i)
        \/ JudgeShape(c, u, i, j, ch) \in {noted({}), noted(ch), u}
    <3> HIDE DEF ch
    <3>1. QED
      BY DEF JudgeShape
  <2> HIDE DEF lost, rotted, noted
  <2>5. QED
    BY <2>1, <2>2, <2>3, <2>4, ShapesHurt
<1>7. QED
  BY <1>5, <1>6

\* Every conviction has its grounds.
LEMMA ConvictionsStand ==
  ASSUME NEW c, Judgeable(c), NEW x \in DOMAIN c.hash, JudgeSet(c)[x].v = "corrupt"
  PROVE  Grounds(c, x, JudgeSet(c)[x].by)
<1> DEFINE ch == Changed(c)
           w == OwnChecks(c, Unread(c), ch)
<1>1. w \in Grounded(c)
  <2>1. w \in Rows(DOMAIN c.hash)
    BY FirstRungs
  <2>2. ASSUME NEW y \in DOMAIN c.hash, w[y].v = "corrupt" PROVE Grounds(c, y, w[y].by)
    <3>1. /\ Finding("corrupt", "read", FALSE).by = "read" /\ Finding("unknown", "read", FALSE).v = "unknown"
          /\ \A h : Finding("corrupt", "checks", h).by = "checks"
          /\ Finding("unknown", "checks", FALSE).v = "unknown" /\ Blank.v = "none"
      BY DEF Finding, Blank
    <3>2. FirstSays(c, ch, y)
      <4> HIDE DEF ch
      <4>1. QED
        BY FirstRungs
    <3>3. \/ /\ w[y] = Finding("corrupt", "checks", y \in ch)
             /\ c.err[y] = "ok" /\ Verify(c, y) = "damaged" /\ c.stands[y]
          \/ w[y] = Finding("unknown", "checks", FALSE)
          \/ w[y] = Unread(c)[y]
      <4> HIDE DEF ch
      <4>1. w[y] = IF c.err[y] # "ok" \/ Verify(c, y) # "damaged" THEN Unread(c)[y]
                   ELSE IF c.stands[y] THEN Finding("corrupt", "checks", y \in ch)
                   ELSE Finding("unknown", "checks", FALSE)
        BY <3>2 DEF FirstSays
      <4> HIDE DEF w
      <4>2. QED
        BY <4>1, Zenon
    <3>4. \/ Unread(c)[y] = Finding("corrupt", "read", FALSE) /\ c.err[y] = "eio"
          \/ Unread(c)[y] = Finding("unknown", "read", FALSE)
          \/ Unread(c)[y] = Blank
      BY <3>2 DEF FirstSays
    <3> HIDE DEF w
    <3>5. QED
      BY <2>2, <3>1, <3>3, <3>4 DEF Grounds
  <2> HIDE DEF w
  <2>3. QED
    BY <2>1, <2>2 DEF Grounded
<1>2. \A u \in Grounded(c), i \in ch : PastStep(c, u, i) \in Grounded(c)
  <2> SUFFICES ASSUME NEW u \in Grounded(c), NEW i \in ch PROVE PastStep(c, u, i) \in Grounded(c)
    OBVIOUS
  <2>1. i \in DOMAIN c.hash /\ c.err[i] = "ok"
    BY DEF Changed
  <2>2. Against(c, i) # {} => /\ Min(Against(c, i)) \in DOMAIN c.hash
                              /\ c.err[Min(Against(c, i))] = "ok"
    <3>1. Against(c, i) \in SUBSET Nat
      BY DEF Against, Judgeable
    <3>2. Against(c, i) # {} => Min(Against(c, i)) \in Against(c, i)
      BY <3>1, Least
    <3>3. QED
      BY <3>2 DEF Against
  <2>3. Against(c, i) # {} => JudgePast(c, u, i, Min(Against(c, i))) \in Grounded(c)
    BY <2>1, <2>2, ComparisonsDeserved
  <2>4. QED
    BY <2>3 DEF PastStep
<1>3. \A u \in Grounded(c), a \in Read(c), b \in Read(c) : JudgeShape(c, u, a, b, ch) \in Grounded(c)
  <2> SUFFICES ASSUME NEW u \in Grounded(c), NEW a \in Read(c), NEW b \in Read(c)
               PROVE  JudgeShape(c, u, a, b, ch) \in Grounded(c)
    OBVIOUS
  <2>1. a \in DOMAIN c.hash /\ b \in DOMAIN c.hash /\ c.err[a] = "ok" /\ c.err[b] = "ok"
    BY DEF Read
  <2>2. QED
    BY <2>1, ComparisonsDeserved
<1>4. PICK u \in Grounded(c) : JudgeSet(c) = Rest(c, u, ch)
  <2>1. \E u \in Grounded(c) : JudgeSet(c) = Rest(c, u, ch)
    BY <1>1, <1>2, <1>3, RungsKeep
  <2>2. QED
    BY <2>1
<1>5. LastSays(c, u, ch, x)
  <2>1. u \in Rows(DOMAIN c.hash)
    BY DEF Grounded
  <2> HIDE DEF ch
  <2>2. QED
    BY <2>1, RestConvictsNone
<1>6. JudgeSet(c)[x] = u[x] /\ u[x].v = "corrupt"
  BY <1>4, <1>5 DEF LastSays
<1>7. QED
  BY <1>6 DEF Grounded

-----------------------------------------------------------------------------
(* What a judgement has in hand.                                           *)

\* A file nobody touches under a scan shows the time the walk saw, and can be
\* read if it was.
WalkStands == phase # "idle" => \A f \in Paths : last[f] < runs => mod[f] = seen[f]
ErrorsHold == \A f \in Paths : info.err[f] \in {"ok", broken[f]}
ReadsStand ==
  phase \in {"windowed", "hashed", "judged", "saved"} =>
    \A f \in Family : last[f] < runs /\ info.err[f] = "ok" => broken[f] = "ok"

\* A file whose saving began under the scan shows a later time.
SavingAhead ==
  phase # "idle" => \A f \in saving : runs <= last[f] /\ broken[f] = "ok" => seen[f] < mod[f]

\* What changed under its time is damaged, an edit, or another file's content.
RepairsKnown == \A f \in quiet \ restored : Damage(content[f]) \/ Edited(content[f])

\* The rows are the judgement of what is in hand.
RowsTrue ==
  Judged => rows = [f \in {f \in Family : Variants(Conflict(Kin(f))) >= 2} |-> JudgeSet(Conflict(Kin(f)))[f]]

InHand == WalkStands /\ ErrorsHold /\ ReadsStand /\ SavingAhead /\ RepairsKnown /\ RowsTrue

\* A file shows another time, or can no longer be read, only once it is touched.
LEMMA FilesTouched ==
  Types /\ Control /\ [Next]_vars =>
    \A f \in Paths : /\ mod'[f] # mod[f] => last'[f] = runs
                     /\ broken[f] # "ok" => broken'[f] = broken[f]
<1> SUFFICES ASSUME Types, Control, [Next]_vars
             PROVE  \A f \in Paths : /\ mod'[f] # mod[f] => last'[f] = runs
                                     /\ broken[f] # "ok" => broken'[f] = broken[f]
  OBVIOUS
<1>1. FilesTyped /\ runs \in Nat
  BY DEF Types, ScanTyped
<1>2. CASE Disturb
  <2>1. PICK f \in Paths, e \in Errors :
          /\ broken' = [broken EXCEPT ![f] = e] /\ (e # broken[f] => broken[f] = "ok")
          /\ last' = [last EXCEPT ![f] = runs]
          /\ mod' = mod \/ mod' = [mod EXCEPT ![f] = @ + 1]
    BY <1>1, <1>2, Disturbed
  <2>2. \A g \in Paths \ {f} : mod'[g] = mod[g] /\ broken'[g] = broken[g]
    BY <1>1, <2>1 DEF FilesTyped
  <2>3. last'[f] = runs /\ (broken[f] # "ok" => broken'[f] = broken[f])
    BY <1>1, <2>1 DEF FilesTyped
  <2>4. QED
    BY <2>2, <2>3
<1>3. CASE UNCHANGED <<mod, broken>>
  BY <1>3
<1>4. QED
  BY <1>2, <1>3, FilesStep

LEMMA WalkStandsStep ==
  Types /\ Control /\ Reads /\ WalkStands /\ [Next]_vars => WalkStands'
<1> SUFFICES ASSUME Types, Control, Reads, WalkStands, [Next]_vars, phase' # "idle",
                    NEW f \in Paths, last'[f] < runs'
             PROVE  mod'[f] = seen'[f]
  BY DEF WalkStands
<1>1. runs \in Nat /\ last[f] \in Nat /\ last'[f] \in Nat /\ last[f] <= last'[f]
  BY FilesStep DEF Types, FilesTyped, ScanTyped
<1>2. CASE Start
  BY <1>2 DEF Start, files
<1>3. CASE ~Start
  <2>1. seen' = seen
    BY <1>3, WalkStep
  <2>2. runs' = runs /\ phase # "idle"
    <3>1. Disturb => UNCHANGED <<runs, phase>>
      BY DEF Disturb, Rot, QuietEdit, Restore, Quietly, Save, SaveEnds, Break, Happens, scan
    <3>2. QED
      BY <1>3, <3>1 DEF Next, Pass, Open, DupPrefix, DupHash, CorrPrefix, CorrHash, Judge, SaveStore, Publish,
         Stop, Crash, Ended, vars, scan
  <2>3. last[f] < runs /\ last'[f] # runs
    BY <1>1, <2>2
  <2>4. mod'[f] = mod[f]
    BY <2>3, FilesTouched
  <2>5. QED
    BY <2>1, <2>2, <2>3, <2>4 DEF WalkStands
<1>4. QED
  BY <1>2, <1>3

LEMMA ErrorsHoldStep ==
  Types /\ Control /\ ErrorsHold /\ [Next]_vars => ErrorsHold'
<1> SUFFICES ASSUME Types, Control, ErrorsHold, [Next]_vars PROVE ErrorsHold'
  OBVIOUS
<1>1. \A f \in Paths : info.err[f] \in {"ok", broken[f]} /\ (broken[f] # "ok" => broken'[f] = broken[f])
  BY FilesTouched DEF ErrorsHold
<1>2. CASE info' = info
  BY <1>1, <1>2 DEF ErrorsHold
<1>3. CASE info' = NoInfo
  BY <1>3, Empties DEF ErrorsHold
<1>4. CASE CorrPrefix
  <2>1. info'.err = [f \in Paths |-> IF f \in Family THEN broken[f] ELSE "ok"] /\ broken' = broken
    BY <1>4 DEF CorrPrefix, files
  <2>2. QED
    BY <2>1 DEF ErrorsHold
<1>5. CASE CorrHash
  <2> DEFINE A == {f \in Family : info.err[f] = "ok"} \ Hits({f \in Family : info.err[f] = "ok"})
  <2>1. info'.err = [f \in Paths |-> IF f \in A THEN broken[f] ELSE info.err[f]] /\ broken' = broken
    BY <1>5 DEF CorrHash, files
  <2> HIDE DEF A
  <2>2. QED
    BY <1>1, <2>1 DEF ErrorsHold
<1>6. CASE Start \/ Open \/ DupPrefix \/ DupHash \/ Judge \/ SaveStore \/ Disturb \/ UNCHANGED vars
  <2>1. Disturb => UNCHANGED info
    BY DEF Disturb, Rot, QuietEdit, Restore, Quietly, Save, SaveEnds, Break, Happens, scan
  <2>2. QED
    BY <1>2, <1>6, <2>1 DEF Start, Open, DupPrefix, DupHash, Judge, SaveStore, vars, scan
<1>7. CASE Publish \/ Stop \/ Crash
  BY <1>3, <1>7 DEF Publish, Stop, Crash, Ended, Nothing
<1>8. QED
  BY <1>4, <1>5, <1>6, <1>7 DEF Next, Pass

LEMMA ReadsStandStep ==
  Types /\ Control /\ ReadsStand /\ [Next]_vars => ReadsStand'
<1> DEFINE After == {"windowed", "hashed", "judged", "saved"}
<1> SUFFICES ASSUME Types, Control, ReadsStand, [Next]_vars, phase' \in After,
                    NEW f \in Family', last'[f] < runs', info'.err[f] = "ok"
             PROVE  broken'[f] = "ok"
  BY DEF ReadsStand
<1>1. f \in Paths /\ runs \in Nat /\ last[f] \in Nat /\ last'[f] \in Nat /\ last[f] <= last'[f]
  <2>1. f \in Paths
    BY DEF Family
  <2>2. QED
    BY <2>1, FilesStep DEF Types, FilesTyped, ScanTyped
<1>2. ~(Start \/ Open \/ DupPrefix \/ DupHash \/ Publish \/ Stop \/ Crash)
  BY DEF Start, Open, DupPrefix, DupHash, Publish, Stop, Crash, Ended
<1>3. CASE CorrPrefix
  <2>1. info'.err = [g \in Paths |-> IF g \in Family THEN broken[g] ELSE "ok"] /\ broken' = broken
        /\ seen' = seen
    BY <1>3 DEF CorrPrefix, files
  <2>2. f \in Family
    BY <2>1 DEF Family
  <2>3. QED
    BY <1>1, <2>1, <2>2
<1>4. CASE UNCHANGED <<runs, seen>> /\ phase \in After /\ (info'.err[f] = "ok" => info.err[f] = "ok")
  <2>1. f \in Family /\ last[f] < runs /\ last'[f] # runs
    BY <1>1, <1>4 DEF Family
  <2>2. broken[f] = "ok" /\ broken'[f] = broken[f]
    BY <1>1, <1>4, <2>1, FilesStep DEF ReadsStand
  <2>3. QED
    BY <2>2
<1>5. CASE CorrHash
  <2> DEFINE B == {g \in Family : info.err[g] = "ok"}
             A == B \ Hits(B)
  <2>1. info'.err = [g \in Paths |-> IF g \in A THEN broken[g] ELSE info.err[g]]
        /\ phase \in After /\ UNCHANGED <<runs, seen>>
    BY <1>5 DEF CorrHash, files
  <2>2. f \in A => info.err[f] = "ok"
    OBVIOUS
  <2> HIDE DEF A
  <2>3. info.err[f] = "ok"
    BY <1>1, <2>1, <2>2
  <2>4. QED
    BY <1>4, <2>1, <2>3
<1>6. CASE Judge \/ SaveStore \/ Disturb \/ UNCHANGED vars
  <2>1. Disturb => UNCHANGED <<info, runs, seen, phase>>
    BY DEF Disturb, Rot, QuietEdit, Restore, Quietly, Save, SaveEnds, Break, Happens, scan
  <2>2. UNCHANGED <<info, runs, seen>> /\ phase \in After
    BY <1>6, <2>1 DEF Judge, SaveStore, vars, scan
  <2>3. QED
    BY <1>4, <2>2
<1>7. QED
  BY <1>2, <1>3, <1>5, <1>6 DEF Next, Pass

\* A file whose saving began under the scan shows a time the walk did not see.
LEMMA SavingAheadStep ==
  Types /\ Control /\ WalkTrue /\ SavingAhead /\ [Next]_vars => SavingAhead'
<1> SUFFICES ASSUME Types, Control, WalkTrue, SavingAhead, [Next]_vars PROVE SavingAhead'
  OBVIOUS
<1>1. /\ runs \in Nat /\ saving \subseteq Paths
      /\ \A f \in Paths : last[f] \in Nat /\ last[f] <= runs /\ mod[f] \in Nat /\ seen[f] \in Nat /\ seen[f] <= mod[f]
      /\ mod \in [Paths -> Nat] /\ last \in [Paths -> Nat] /\ broken \in [Paths -> Errors]
  BY DEF Types, FilesTyped, ScanTyped, Control, WalkTrue
<1>2. CASE Start
  <2>1. runs' = runs + 1 /\ last' = last /\ saving' = saving
    BY <1>2 DEF Start, files
  <2>2. QED
    BY <1>1, <2>1 DEF SavingAhead
<1>3. CASE Disturb
  <2>1. UNCHANGED <<phase, runs, seen>>
    BY <1>3 DEF Disturb, Rot, QuietEdit, Restore, Quietly, Save, SaveEnds, Break, Happens, scan
  <2>2. CASE Rot \/ QuietEdit \/ Restore
    <3>1. PICK f \in Paths : /\ f \notin saving /\ last' = [last EXCEPT ![f] = runs]
                             /\ UNCHANGED <<mod, broken, saving>>
      BY <2>2 DEF Rot, QuietEdit, Restore, Quietly, Happens
    <3>2. \A g \in saving : last'[g] = last[g]
      BY <1>1, <3>1
    <3>3. QED
      BY <2>1, <3>1, <3>2 DEF SavingAhead
  <2>3. CASE Save
    <3>1. PICK f \in Paths : /\ mod' = [mod EXCEPT ![f] = @ + 1] /\ saving' = saving \cup {f} /\ UNCHANGED broken
                             /\ last' = [last EXCEPT ![f] = runs]
      BY <2>3 DEF Save, Happens
    <3>2. mod'[f] = mod[f] + 1 /\ \A g \in Paths \ {f} : mod'[g] = mod[g] /\ last'[g] = last[g]
      BY <1>1, <3>1
    <3>3. QED
      BY <1>1, <2>1, <3>1, <3>2 DEF SavingAhead
  <2>4. CASE SaveEnds
    <3>1. PICK f \in saving : /\ mod' = [mod EXCEPT ![f] = @ + 1] /\ saving' = saving \ {f} /\ UNCHANGED broken
                              /\ last' = [last EXCEPT ![f] = runs]
      BY <2>4 DEF SaveEnds
    <3>2. \A g \in Paths \ {f} : mod'[g] = mod[g] /\ last'[g] = last[g]
      BY <1>1, <3>1
    <3>3. QED
      BY <1>1, <2>1, <3>1, <3>2 DEF SavingAhead
  <2>5. CASE Break
    <3>1. PICK f \in Paths, e \in {"eio", "denied"} :
            /\ broken' = [broken EXCEPT ![f] = e] /\ last' = [last EXCEPT ![f] = runs] /\ UNCHANGED <<mod, saving>>
      BY <2>5 DEF Break, Happens
    <3>2. broken'[f] # "ok" /\ \A g \in Paths \ {f} : broken'[g] = broken[g] /\ last'[g] = last[g]
      BY <1>1, <3>1
    <3>3. QED
      BY <1>1, <2>1, <3>1, <3>2 DEF SavingAhead
  <2>6. QED
    BY <1>3, <2>2, <2>3, <2>4, <2>5 DEF Disturb
<1>4. CASE phase' = "idle"
  BY <1>4 DEF SavingAhead
<1>5. CASE UNCHANGED <<runs, seen, saving, last, broken, mod>> /\ phase # "idle"
  BY <1>5 DEF SavingAhead
<1>6. CASE UNCHANGED vars
  BY <1>4, <1>5, <1>6 DEF vars, scan, files
<1>7. QED
  BY <1>2, <1>3, <1>4, <1>5, <1>6 DEF Next, Pass, Open, DupPrefix, DupHash, CorrPrefix, CorrHash, Judge, SaveStore,
     Publish, Stop, Crash, Ended, files

LEMMA RepairsKnownStep ==
  Types /\ RepairsKnown /\ [Next]_vars => RepairsKnown'
<1> SUFFICES ASSUME Types, RepairsKnown, [Next]_vars PROVE RepairsKnown'
  OBVIOUS
<1>1. content \in [Paths -> Content] /\ quiet \subseteq Paths
  BY DEF Types, FilesTyped
<1>2. CASE UNCHANGED <<content, quiet, restored>>
  BY <1>2 DEF RepairsKnown
<1>3. ASSUME NEW f \in Paths, NEW c, content' = [content EXCEPT ![f] = c], quiet' \subseteq quiet \cup {f},
             restored \subseteq restored' \cup {f},
             f \in quiet' \ restored' => Damage(c) \/ Edited(c)
      PROVE  RepairsKnown'
  <2>1. content'[f] = c /\ \A g \in Paths \ {f} : content'[g] = content[g]
    BY <1>1, <1>3
  <2>2. ASSUME NEW g \in quiet' \ restored', g # f PROVE Damage(content'[g]) \/ Edited(content'[g])
    <3>1. g \in quiet \ restored /\ content'[g] = content[g]
      BY <1>1, <1>3, <2>1, <2>2
    <3>2. QED
      BY <3>1 DEF RepairsKnown
  <2>3. f \in quiet' \ restored' => Damage(content'[f]) \/ Edited(content'[f])
    BY <1>3, <2>1
  <2>4. QED
    BY <2>2, <2>3 DEF RepairsKnown
<1>4. CASE Rot
  <2>1. PICK f \in Paths, i \in 1..2, kind \in {"flip", "zero"} :
          /\ Quietly(f, [content[f] EXCEPT ![i] = [kind |-> kind, of |-> IF kind = "flip" THEN f ELSE 0]], kind)
          /\ UNCHANGED restored
    BY <1>4 DEF Rot
  <2> DEFINE x == [kind |-> kind, of |-> IF kind = "flip" THEN f ELSE 0]
             c == [content[f] EXCEPT ![i] = x]
  <2>2. x.kind \in {"flip", "zero"}
    OBVIOUS
  <2>3. content[f] \in [1..2 -> Cell]
    BY <1>1 DEF Content
  <2>4. Damage(c)
    <3> HIDE DEF x
    <3>1. i \in DOMAIN c /\ c[i] = x
      BY <2>3
    <3>2. QED
      BY <2>2, <3>1 DEF Damage
  <2>5. Quietly(f, c, kind)
    BY <2>1
  <2> HIDE DEF c, x
  <2>6. QED
    BY <1>3, <2>1, <2>4, <2>5 DEF Quietly
<1>5. CASE QuietEdit
  <2>1. PICK f \in Paths : Quietly(f, [i \in 1..2 |-> [kind |-> "edit", of |-> f]], "edit") /\ UNCHANGED restored
    BY <1>5 DEF QuietEdit
  <2> DEFINE c == [i \in 1..2 |-> [kind |-> "edit", of |-> f]]
  <2>2. Edited(c)
    BY DEF Edited
  <2>3. Quietly(f, c, "edit")
    BY <2>1
  <2> HIDE DEF c
  <2>4. QED
    BY <1>3, <2>1, <2>2, <2>3 DEF Quietly
<1>6. CASE Restore
  <2>1. PICK f \in Paths, g \in Paths : Quietly(f, content[g], "restore") /\ restored' = restored \cup {f}
    BY <1>6 DEF Restore
  <2>2. content' = [content EXCEPT ![f] = content[g]] /\ quiet' = quiet \cup {f} /\ f \in restored'
    BY <2>1 DEF Quietly
  <2>3. QED
    BY <1>3, <2>1, <2>2
<1>7. CASE Save \/ SaveEnds
  <2>1. PICK f \in Paths : \E c : /\ content' = [content EXCEPT ![f] = c]
                                /\ quiet' = quiet \ {f} /\ restored' = restored \ {f}
    BY <1>7 DEF Save, SaveEnds, Types, FilesTyped
  <2>2. PICK c : /\ content' = [content EXCEPT ![f] = c]
                 /\ quiet' = quiet \ {f} /\ restored' = restored \ {f}
    BY <2>1
  <2>3. QED
    BY <1>3, <2>2
<1>8. CASE Break
  BY <1>2, <1>8 DEF Break
<1>9. CASE UNCHANGED vars
  BY <1>2, <1>9 DEF vars, files
<1>10. QED
  BY <1>2, <1>4, <1>5, <1>6, <1>7, <1>8, <1>9 DEF Next, Pass, Start, Open, DupPrefix, DupHash, CorrPrefix,
     CorrHash, Judge, SaveStore, Publish, Stop, Crash, Disturb, files

LEMMA RowsTrueStep ==
  Types /\ RowsTrue /\ [Next]_vars => RowsTrue'
<1> SUFFICES ASSUME Types, RowsTrue, [Next]_vars, phase' = "judged" PROVE RowsTrue'
  BY DEF RowsTrue, Judged
<1>1. ~Disturb
  <2>1. Disturb => phase' = phase /\ phase \notin {"judged", "saved"}
    BY DEF Disturb, Rot, QuietEdit, Restore, Quietly, Save, SaveEnds, Break, Happens, scan
  <2>2. QED
    BY <2>1
<1>2. Judge \/ UNCHANGED vars
  BY <1>1 DEF Next, Pass, Start, Open, DupPrefix, DupHash, CorrPrefix, CorrHash, SaveStore, Publish,
     Stop, Crash, Ended
<1>3. UNCHANGED <<checks, content, mod, broken, seen, info>>
  BY <1>2 DEF Judge, vars, files, scan
<1>4. rows' = [f \in {f \in Family : Variants(Conflict(Kin(f))) >= 2} |-> JudgeSet(Conflict(Kin(f)))[f]]
  <2>1. Judge => rows' = [f \in {f \in Family : Variants(Conflict(Kin(f))) >= 2} |-> JudgeSet(Conflict(Kin(f)))[f]]
    BY DEF Judge
  <2>2. UNCHANGED vars => rows' = rows /\ Judged
    BY DEF vars, scan, Judged
  <2>3. QED
    BY <1>2, <2>1, <2>2 DEF RowsTrue
<1>5. QED
  BY <1>3, <1>4 DEF RowsTrue, Family, Kin, Conflict

LEMMA InHandInit == Init => InHand
<1> SUFFICES ASSUME Init PROVE InHand
  OBVIOUS
<1>1. phase = "idle" /\ info = NoInfo /\ quiet = {}
  BY DEF Init
<1>2. QED
  BY <1>1, Empties DEF InHand, WalkStands, ErrorsHold, ReadsStand, SavingAhead, RepairsKnown, RowsTrue, Judged

\* What a judgement has in hand is what is so of the files, in every state.
THEOREM WhatIsInHand == Spec => []InHand
<1>1. ConflictsInv /\ InHand /\ [Next]_vars => InHand'
  BY WalkStandsStep, ErrorsHoldStep, ReadsStandStep, SavingAheadStep, RepairsKnownStep, RowsTrueStep
     DEF InHand, ConflictsInv, Reads
<1>2. QED
  BY InHandInit, <1>1, ConflictsInvariant, PTL DEF Spec

\* A family is a set the ladder can judge, and its files' rows are its own.
LEMMA FamilyJudged ==
  ASSUME ConflictsInv, InHand, Judged, NEW f \in DOMAIN rows
  PROVE  /\ f \in Family /\ Judgeable(Conflict(Kin(f))) /\ DOMAIN Conflict(Kin(f)).hash = Kin(f)
         /\ f \in Kin(f) /\ Kin(f) \subseteq Family
         /\ \A g \in Kin(f) : g \in DOMAIN rows /\ rows[g] = JudgeSet(Conflict(Kin(f)))[g]
<1> DEFINE D == {x \in Family : Variants(Conflict(Kin(x))) >= 2}
<1>1. rows = [x \in D |-> JudgeSet(Conflict(Kin(x)))[x]]
  BY DEF InHand, RowsTrue
<1>2. f \in D /\ f \in Family /\ f \in Paths
  BY <1>1 DEF Family
<1>3. \A g \in Kin(f) : Kin(g) = Kin(f) /\ g \in Family
  BY <1>2 DEF Kin, Family
<1>4. \A g \in Kin(f) : g \in D
  BY <1>2, <1>3
<1>5. \A g \in Kin(f) : g \in DOMAIN rows /\ rows[g] = JudgeSet(Conflict(Kin(f)))[g]
  <2> HIDE DEF D
  <2>1. QED
    BY <1>1, <1>3, <1>4
<1>6. DOMAIN Conflict(Kin(f)).hash = Kin(f) /\ \A x \in Kin(f) : Conflict(Kin(f)).now[x] = content[x]
  BY DEF Conflict
<1>7. Judgeable(Conflict(Kin(f)))
  <2>1. Kin(f) \subseteq Paths /\ IsFiniteSet(Kin(f)) /\ Paths \subseteq Nat
    BY FS_Subset, StoreAssumption DEF Kin
  <2>2. \A x \in Kin(f) : content[x] \in Content
    BY <2>1 DEF ConflictsInv, Types, FilesTyped
  <2>3. QED
    BY <1>6, <2>1, <2>2 DEF Judgeable
<1>8. f \in Kin(f)
  BY <1>2 DEF Kin
<1>9. QED
  BY <1>2, <1>3, <1>5, <1>6, <1>7, <1>8

\* A file that was read and not touched since the line began holds what was read,
\* at the time the walk saw.
LEMMA UntouchedHolds ==
  ASSUME ConflictsInv, InHand, OneFailure, Judged, NEW f \in Family, info.err[f] = "ok", ~Touched(f)
  PROVE  info.hash[f] = content[f] /\ broken[f] = "ok" /\ mod[f] = seen[f]
<1>1. Types /\ Control /\ Hashed /\ WalkStands /\ ReadsStand /\ f \in Paths /\ phase = "judged"
  BY DEF ConflictsInv, InHand, Family, Judged
<1>2. last[f] \in Nat /\ runs \in Nat /\ Min(line) \in Nat /\ Min(line) <= runs
  BY <1>1, LineHolds DEF Types, FilesTyped, ScanTyped
<1>3. last[f] < runs
  BY <1>2 DEF Touched
<1>4. QED
  BY <1>1, <1>3 DEF Hashed, WalkStands, ReadsStand

\* With one failed write at most: two files read as equal, and not touched since,
\* are convicted together, whatever the order of their paths (corrupt.go,
\* judgeWithTwins).
THEOREM TwinsAreConvicted == Spec => [](OneFailure => TwinsConvicted)
<1>1. ConflictsInv /\ InHand => (OneFailure => TwinsConvicted)
  <2> SUFFICES ASSUME ConflictsInv, InHand, OneFailure, Judged, NEW f \in DOMAIN rows, NEW g \in Kin(f),
                      info.err[f] = "ok", info.err[g] = "ok", info.hash[f] = info.hash[g],
                      ~Touched(f), ~Touched(g), rows[f].v = "corrupt"
               PROVE  rows[g].v = "corrupt"
    BY DEF TwinsConvicted
  <2> DEFINE c == Conflict(Kin(f))
  <2>1. /\ f \in Family /\ g \in Family /\ f \in Kin(f) /\ Judgeable(c)
        /\ rows[f] = JudgeSet(c)[f] /\ rows[g] = JudgeSet(c)[g]
    BY FamilyJudged
  <2>2. \A x \in {f, g} : info.hash[x] = content[x] /\ broken[x] = "ok" /\ mod[x] = seen[x]
    BY <2>1, UntouchedHolds
  <2>3. \A x \in Kin(f) : /\ c.err[x] = info.err[x] /\ c.hash[x] = info.hash[x] /\ c.now[x] = content[x]
                          /\ c.open[x] = (broken[x] = "ok")
                          /\ c.stands[x] = (broken[x] = "ok" /\ mod[x] = seen[x])
    BY DEF Conflict
  <2>4. DOMAIN c.hash = Kin(f)
    BY DEF Conflict
  <2> HIDE DEF c
  <2>5. TwinsOf(c, f, g)
    BY <2>1, <2>2, <2>3, <2>4 DEF TwinsOf
  <2>6. QED
    BY <2>1, <2>5, TwinsAlike
<1>2. QED
  BY <1>1, ConflictsInvariant, WhatIsInHand, PTL

\* With one failed write at most: a file is convicted for an error its disk
\* gives, for damage in what it holds that no save under way explains, or for
\* what it was read to hold with a file that was touched or repaired since
\* (corrupt.go, judgeSet).
THEOREM SoundIsNotConvicted == Spec => [](OneFailure => SoundNotConvicted)
<1>1. ConflictsInv /\ InHand => (OneFailure => SoundNotConvicted)
  <2> SUFFICES ASSUME ConflictsInv, InHand, OneFailure, Judged, NEW f \in DOMAIN rows, rows[f].v = "corrupt"
               PROVE  \/ rows[f].by = "read" /\ broken[f] = "eio"
                      \/ Damage(content[f]) /\ ~(rows[f].by = "checks" /\ f \in saving /\ last[f] >= runs)
                      \/ \E g \in Kin(f) : /\ Touched(g) \/ g \in restored
                                           /\ rows[f].by \in {"past", "shape"}
                                           /\ info.err[g] = "ok" /\ info.hash[g] = info.hash[f]
    BY DEF SoundNotConvicted
  <2> DEFINE c == Conflict(Kin(f))
  <2>1. /\ f \in Family /\ Kin(f) \subseteq Family /\ f \in Kin(f) /\ Judgeable(c) /\ DOMAIN c.hash = Kin(f)
        /\ rows[f] = JudgeSet(c)[f]
    BY FamilyJudged
  <2>2. \A x \in Kin(f) : /\ c.err[x] = info.err[x] /\ c.hash[x] = info.hash[x] /\ c.now[x] = content[x]
                          /\ c.stands[x] = (broken[x] = "ok" /\ mod[x] = seen[x])
    BY DEF Conflict
  <2>3. Changed(c) \subseteq quiet
    BY <2>1, HistoryHolds DEF HistoryTrue
  <2> HIDE DEF c
  <2>4. Grounds(c, f, rows[f].by)
    BY <2>1, ConvictionsStand
  <2>5. /\ f \in Paths /\ mod[f] \in Nat /\ seen[f] \in Nat /\ last[f] \in Nat /\ runs \in Nat /\ phase # "idle"
        /\ ErrorsHold /\ SavingAhead /\ RepairsKnown
    BY <2>1 DEF ConflictsInv, Types, FilesTyped, ScanTyped, InHand, Judged, Family
  <2>6. CASE rows[f].by = "read" /\ c.err[f] = "eio"
    BY <2>1, <2>2, <2>5, <2>6 DEF ErrorsHold
  <2>7. CASE rows[f].by = "checks" /\ c.err[f] = "ok" /\ c.stands[f] /\ Verify(c, f) = "damaged"
    <3>1. Damage(c.now[f])
      BY <2>7 DEF Verify
    <3>2. ~(f \in saving /\ last[f] >= runs)
      <4>1. broken[f] = "ok" /\ mod[f] = seen[f]
        BY <2>1, <2>2, <2>7
      <4>2. f \in saving /\ last[f] >= runs => runs <= last[f] /\ seen[f] < mod[f]
        BY <2>5, <4>1 DEF SavingAhead
      <4>3. QED
        BY <2>5, <4>1, <4>2
    <3>3. QED
      BY <2>1, <2>2, <3>1, <3>2
  <2>8. CASE /\ rows[f].by \in {"past", "shape"}
             /\ \E i \in DOMAIN c.hash : /\ c.err[i] = "ok" /\ Hurts(c, i)
                                         /\ f = i \/ (c.err[f] = "ok" /\ c.hash[f] = c.hash[i])
    <3>1. PICK i \in Kin(f) : /\ c.err[i] = "ok" /\ Hurts(c, i)
                              /\ f = i \/ (c.err[f] = "ok" /\ c.hash[f] = c.hash[i])
      BY <2>1, <2>8
    <3>2. info.err[i] = "ok" /\ info.err[f] = "ok" /\ info.hash[i] = info.hash[f]
      BY <2>1, <2>2, <3>1
    <3>3. CASE Touched(i) \/ i \in restored \/ Touched(f)
      BY <2>1, <2>8, <3>2, <3>3
    <3>4. CASE ~(Touched(i) \/ i \in restored \/ Touched(f))
      <4>1. content[i] = content[f]
        BY <2>1, <3>2, <3>4, UntouchedHolds
      <4>2. Damage(content[i])
        <5>1. Damage(content[i]) \/ (i \in quiet /\ ~Edited(content[i]))
          BY <2>2, <2>3, <3>1 DEF Hurts
        <5>2. QED
          BY <2>5, <3>4, <5>1 DEF RepairsKnown
      <4>3. QED
        BY <2>8, <4>1, <4>2
    <3>5. QED
      BY <3>3, <3>4
  <2>9. QED
    BY <2>4, <2>6, <2>7, <2>8 DEF Grounds
<1>2. QED
  BY <1>1, ConflictsInvariant, WhatIsInHand, PTL

-----------------------------------------------------------------------------
(* Rot between two scans: what the ladder makes of it.                     *)

\* a is b with some of its data rotted to w.
Rotten(a, b, w) == a # b /\ \A i \in 1..2 : a[i] = b[i] \/ (a[i].kind = w /\ b[i].kind = "data")

\* What rotted is damaged, and the comparison with what it was blames it.
LEMMA RotTells ==
  ASSUME NEW a \in Content, NEW b \in Content, NEW w \in {"flip", "zero"}, Rotten(a, b, w)
  PROVE  Damage(a) /\ Compare(a, b) \in {"lost", "bitflip"}
<1> DEFINE D == Differing(a, b)
<1>1. D \subseteq 1..2 /\ DOMAIN a = 1..2 /\ DOMAIN b = 1..2
  BY DEF Differing, Content
<1>2. \A i \in D : a[i].kind = w /\ b[i].kind = "data"
  BY <1>1 DEF Rotten, Differing
<1>3. PICK i \in D : TRUE
  <2>1. a \in [1..2 -> Cell] /\ b \in [1..2 -> Cell] /\ a # b
    BY DEF Content, Rotten
  <2>2. \E i \in 1..2 : a[i] # b[i]
    BY <2>1
  <2>3. QED
    BY <2>2, <1>1 DEF Differing
<1>4. Damage(a)
  BY <1>1, <1>2, <1>3 DEF Damage
<1>5. CASE w = "flip"
  <2>1. \A x \in D : {a[x].kind, b[x].kind} \in {{"data", "flip"}, {"flip"}}
    <3>1. {"flip", "data"} = {"data", "flip"}
      OBVIOUS
    <3>2. QED
      BY <1>2, <1>5, <3>1
  <2>2. Flips(a, D) \in Nat /\ Flips(a, D) <= 2
    <3>1. IsFiniteSet(1..2) /\ Cardinality(1..2) = 2
      <4>1. IsFiniteSet({1}) /\ Cardinality({1}) = 1
        BY FS_Singleton
      <4>2. IsFiniteSet({1} \cup {2}) /\ Cardinality({1} \cup {2}) = Cardinality({1}) + 1
        BY <4>1, FS_AddElement
      <4>3. {1} \cup {2} = 1..2
        OBVIOUS
      <4>4. QED
        BY <4>1, <4>2, <4>3
    <3> DEFINE F == {x \in D : a[x].kind = "flip"}
    <3>2. F \in SUBSET (1..2)
      BY <1>1
    <3>3. Flips(a, D) = Cardinality(F)
      BY DEF Flips
    <3> HIDE DEF F
    <3>4. Cardinality(F) \in Nat /\ Cardinality(F) <= Cardinality(1..2)
      BY <3>1, <3>2, FS_Subset, FS_CardinalityType
    <3>5. QED
      BY <3>1, <3>3, <3>4
  <2>3. Flips(b, D) = 0
    <3> DEFINE F == {x \in D : b[x].kind = "flip"}
    <3>1. F = {}
      BY <1>2
    <3>2. Flips(b, D) = Cardinality(F)
      BY DEF Flips
    <3> HIDE DEF F
    <3>3. QED
      BY <3>1, <3>2, FS_EmptySet
  <2>4. Flips(a, D) + Flips(b, D) <= 2
    BY <2>2, <2>3
  <2>5. FewBits(a, b, D)
    BY <2>1, <2>4, Zenon DEF FewBits
  <2>6. Compare(a, b) = "bitflip"
    BY <1>3, <2>5 DEF Compare
  <2>7. QED
    BY <1>4, <2>6
<1>6. CASE w = "zero"
  <2>1. ~FewBits(a, b, D)
    <3>1. {a[i].kind, b[i].kind} \notin {{"data", "flip"}, {"flip"}}
      <4>1. a[i].kind = "zero"
        BY <1>2, <1>3, <1>6
      <4>2. QED
        BY <4>1
    <3>2. QED
      BY <1>3, <3>1 DEF FewBits
  <2>2. Zeroed(a, D) /\ ~Zeroed(b, D)
    BY <1>2, <1>3, <1>6 DEF Zeroed
  <2>3. Compare(a, b) = "lost"
    BY <1>3, <2>1, <2>2 DEF Compare
  <2>4. QED
    BY <1>4, <2>3
<1>7. QED
  BY <1>5, <1>6

\* The family of a file f that rotted since the last scan, beside a copy g of what
\* it was: no other file has evidence against it, and, where the format carries
\* checksums, no other is damaged.
RotIn(c, f, g) ==
  /\ Judgeable(c) /\ f \in DOMAIN c.hash /\ g \in DOMAIN c.hash \ {f}
  /\ Changed(c) = {f} /\ c.prior[f] = c.now[g]
  /\ \A x \in DOMAIN c.hash : /\ c.err[x] \in {"ok", "denied"}
                              /\ c.err[x] = "ok" => c.hash[x] = c.now[x] /\ c.open[x]
                              /\ c.checks /\ x # f => ~Damage(c.now[x])
  /\ c.err[f] = "ok" /\ c.err[g] = "ok" /\ c.stands[f]
  /\ \E w \in {"flip", "zero"} : Rotten(c.now[f], c.now[g], w)

\* The first rungs' rows of such a family.
LEMMA RotFirst ==
  ASSUME NEW c, NEW f, NEW g, RotIn(c, f, g)
  PROVE  LET w == OwnChecks(c, Unread(c), {f})
         IN  /\ w \in Rows(DOMAIN c.hash) /\ w[g].v = "none"
             /\ \A x \in DOMAIN c.hash \ {f} : w[x].v # "corrupt"
             /\ (w[f].v = "corrupt" /\ c.checks) \/ w[f].v = "none"
<1> DEFINE D == DOMAIN c.hash
           w == OwnChecks(c, Unread(c), {f})
<1>1. w \in Rows(D) /\ \A x \in D : FirstSays(c, {f}, x)
  BY FirstRungs
<1>2. /\ Finding("unknown", "read", FALSE).v = "unknown" /\ Blank.v = "none"
      /\ \A h : Finding("corrupt", "checks", h).v = "corrupt"
  BY DEF Finding, Blank
<1>3. \A x \in D : /\ Unread(c)[x].v # "corrupt"
                   /\ c.err[x] = "ok" => Unread(c)[x].v = "none"
  <2> SUFFICES ASSUME NEW x \in D PROVE Unread(c)[x].v # "corrupt" /\ (c.err[x] = "ok" => Unread(c)[x].v = "none")
    OBVIOUS
  <2>1. c.err[x] \in {"ok", "denied"}
    BY DEF RotIn
  <2>2. Unread(c)[x] = CASE c.err[x] = "eio" -> Finding("corrupt", "read", FALSE)
                         [] c.err[x] = "denied" -> Finding("unknown", "read", FALSE)
                         [] OTHER -> Blank
    BY <1>1 DEF FirstSays
  <2>3. Unread(c)[x] = IF c.err[x] = "denied" THEN Finding("unknown", "read", FALSE) ELSE Blank
    BY <2>1, <2>2
  <2>4. QED
    BY <1>2, <2>1, <2>3
<1>4. \A x \in D : w[x] = IF c.err[x] # "ok" \/ Verify(c, x) # "damaged" THEN Unread(c)[x]
                          ELSE IF c.stands[x] THEN Finding("corrupt", "checks", x \in {f})
                          ELSE Finding("unknown", "checks", FALSE)
  BY <1>1 DEF FirstSays
<1>5. \A x \in D \ {f} : Verify(c, x) # "damaged"
  BY DEF Verify, RotIn
<1> HIDE DEF w
<1>6. \A x \in D \ {f} : w[x] = Unread(c)[x]
  BY <1>4, <1>5
<1>7. w[g].v = "none" /\ \A x \in D \ {f} : w[x].v # "corrupt"
  BY <1>3, <1>6 DEF RotIn
<1>8. (w[f].v = "corrupt" /\ c.checks) \/ w[f].v = "none"
  <2>1. f \in D /\ c.err[f] = "ok" /\ c.stands[f]
    BY DEF RotIn
  <2>2. CASE Verify(c, f) = "damaged"
    <3>1. c.checks
      BY <2>2 DEF Verify
    <3>2. w[f] = Finding("corrupt", "checks", f \in {f})
      BY <1>4, <2>1, <2>2
    <3>3. QED
      BY <1>2, <3>1, <3>2
  <2>3. CASE Verify(c, f) # "damaged"
    <3>1. w[f] = Unread(c)[f]
      BY <1>4, <2>1, <2>3
    <3>2. QED
      BY <1>3, <2>1, <3>1
  <2>4. QED
    BY <2>2, <2>3
<1>9. QED
  BY <1>1, <1>7, <1>8 DEF w

\* Beside a damaged file, one whose own checksums prove it is cleared.
LEMMA RestClears ==
  ASSUME NEW c, NEW u \in Rows(DOMAIN c.hash), NEW ch, NEW x \in DOMAIN c.hash, x \notin ch,
         u[x].v = "none", AnyCorrupt(u), c.err[x] = "ok", Verify(c, x) = "proven"
  PROVE  Rest(c, u, ch)[x].v = "intact"
<1> DEFINE ux == u[x]
<1>1. Rest(c, u, ch)[x] = [ux EXCEPT !.v = "intact", !.note = TRUE]
  BY Zenon DEF Rest
<1>2. ux \in Row
  BY DEF Rows
<1> HIDE DEF ux
<1>3. [ux EXCEPT !.v = "intact", !.note = TRUE].v = "intact"
  BY <1>2 DEF Row
<1>4. QED
  BY <1>1, <1>3

\* The file that rotted is convicted, and the copy of what it was is cleared.
LEMMA RotJudged ==
  ASSUME NEW c, NEW f, NEW g, RotIn(c, f, g)
  PROVE  JudgeSet(c)[f].v = "corrupt" /\ JudgeSet(c)[g].v = "intact"
<1> DEFINE D == DOMAIN c.hash
           w == OwnChecks(c, Unread(c), {f})
           p == Past(c, w, {f})
<1>1. /\ f \in D /\ g \in D /\ g # f /\ c.err[f] = "ok" /\ c.err[g] = "ok"
      /\ c.hash[f] = c.now[f] /\ c.hash[g] = c.now[g] /\ c.open[f] /\ c.open[g]
      /\ c.now[f] \in Content /\ c.now[g] \in Content /\ D \subseteq Nat
  BY DEF RotIn, Judgeable
<1>2. PICK k \in {"flip", "zero"} : Rotten(c.now[f], c.now[g], k)
  BY DEF RotIn
<1>3. /\ w \in Rows(D) /\ w[g].v = "none" /\ \A x \in D \ {f} : w[x].v # "corrupt"
      /\ (w[f].v = "corrupt" /\ c.checks) \/ w[f].v = "none"
  BY RotFirst
<1>4. JudgeSet(c) = Rest(c, Present(c, p, {f}), {f})
  BY DEF JudgeSet, RotIn
<1> HIDE DEF w
<1>5. \A u \in Rows(D) : u[f].v = "corrupt" => AnyCorrupt(u) /\ Present(c, u, {f}) = u
  <2> SUFFICES ASSUME NEW u \in Rows(D), u[f].v = "corrupt" PROVE AnyCorrupt(u) /\ Present(c, u, {f}) = u
    OBVIOUS
  <2>1. AnyCorrupt(u)
    BY <1>1 DEF AnyCorrupt, Rows
  <2>2. QED
    BY <2>1 DEF Present
<1>6. CASE w[f].v = "corrupt" /\ c.checks
  <2>1. p = w
    BY <1>3, <1>5, <1>6 DEF Past
  <2>2. JudgeSet(c) = Rest(c, w, {f}) /\ AnyCorrupt(w)
    BY <1>3, <1>4, <1>5, <1>6, <2>1
  <2>3. LastSays(c, w, {f}, f)
    BY <1>1, <1>3, RestConvictsNone
  <2>4. JudgeSet(c)[f].v = "corrupt"
    BY <1>6, <2>2, <2>3 DEF LastSays
  <2>5. Verify(c, g) = "proven"
    <3>1. ~Damage(c.now[g])
      BY <1>1, <1>6 DEF RotIn
    <3>2. c.now[g][1].kind # "zero"
      BY <1>1, <3>1 DEF Damage, Content
    <3>3. QED
      BY <1>1, <1>6, <3>1, <3>2 DEF Verify
  <2>6. JudgeSet(c)[g].v = "intact"
    BY <1>1, <1>3, <2>2, <2>5, RestClears
  <2>7. QED
    BY <2>4, <2>6
<1>7. CASE w[f].v = "none"
  <2>1. ~AnyCorrupt(w)
    BY <1>3, <1>7 DEF AnyCorrupt, Rows
  <2>2. p = PastStep(c, w, f)
    <3>1. {f} \in SUBSET Nat /\ IsFiniteSet({f})
      BY <1>1, FS_Singleton
    <3>2. PICK r : Judging(c, w, {f}, r) /\ p = IF AnyCorrupt(w) THEN w ELSE r[{f}]
      BY <3>1, PastUnfolds
    <3>3. Max({f}) = f
      BY <1>1, <3>1, Greatest
    <3>4. r[{}] = w /\ r[{f}] = PastStep(c, r[{f} \ {Max({f})}], Max({f}))
      BY <3>2 DEF Judging
    <3>5. {f} \ {Max({f})} = {}
      BY <3>3
    <3>6. QED
      BY <2>1, <3>2, <3>3, <3>4, <3>5
  <2> DEFINE j == Min(Against(c, f))
  <2>3. /\ j \in D /\ c.err[j] = "ok" /\ c.hash[j] = c.now[g] /\ c.now[j] = c.now[g] /\ c.open[j]
        /\ Against(c, f) # {} /\ c.prior[f] # NoHash
    <3>1. c.prior[f] = c.now[g] /\ c.now[g] # NoHash
      BY <1>1, ContentSays DEF RotIn
    <3>2. g \in Against(c, f) /\ Against(c, f) \in SUBSET Nat
      BY <1>1, <3>1 DEF Against
    <3>3. j \in Against(c, f)
      BY <3>2, Least
    <3>4. j \in D /\ c.err[j] = "ok" /\ c.hash[j] = c.now[g]
      <4> HIDE DEF j
      <4>1. QED
        BY <3>1, <3>3 DEF Against
    <3>5. QED
      BY <3>1, <3>2, <3>4 DEF RotIn
  <2> HIDE DEF j
  <2>4. p = JudgePast(c, w, f, j)
    BY <1>7, <2>2, <2>3 DEF PastStep, j
  <2>5. Shape(c, f, j) \in {"lost", "bitflip"}
    <3>1. Compare(c.now[f], c.now[j]) \in {"lost", "bitflip"}
      BY <1>1, <1>2, <2>3, RotTells
    <3>2. QED
      BY <1>1, <2>3, <3>1 DEF Shape
  <2> DEFINE bad == Finding("corrupt", "past", TRUE)
             good == Finding("intact", "past", FALSE)
             u == WithTwins(c, w, f, bad)
             v == WithTwins(c, u, j, good)
  <2>6. p = v
    BY <2>4, <2>5 DEF JudgePast
  <2>7. bad \in Row /\ good \in Row /\ bad.v = "corrupt" /\ good.v = "intact"
    BY RowsTyped DEF Finding
  <2> HIDE DEF bad, good
  <2>8. u \in Rows(D) /\ u[f] = bad /\ u[g].v = "none"
    <3>1. Spread(c, D, w, f, bad)
      BY <1>3, <2>7, TwinRows
    <3>2. c.hash[g] # c.hash[f]
      BY <1>1, <1>2 DEF Rotten
    <3>3. QED
      BY <1>1, <1>3, <1>7, <3>1, <3>2 DEF Spread
  <2> HIDE DEF u
  <2>9. v \in Rows(D) /\ v[f] = bad /\ v[g] = good
    <3>1. Spread(c, D, u, j, good)
      BY <2>7, <2>8, TwinRows
    <3>2. c.hash[g] = c.hash[j]
      BY <1>1, <2>3
    <3>3. QED
      BY <1>1, <2>7, <2>8, <3>1, <3>2 DEF Spread
  <2> HIDE DEF v
  <2>10. JudgeSet(c) = Rest(c, v, {f})
    BY <1>4, <1>5, <2>6, <2>7, <2>9
  <2>11. LastSays(c, v, {f}, f) /\ LastSays(c, v, {f}, g)
    BY <1>1, <2>9, RestConvictsNone
  <2>12. Rest(c, v, {f})[f] = bad /\ Rest(c, v, {f})[g] = good
    BY <2>7, <2>9, <2>11 DEF LastSays
  <2>13. QED
    BY <2>7, <2>10, <2>12
<1>8. QED
  BY <1>3, <1>6, <1>7

-----------------------------------------------------------------------------
(* Rot between two scans: what a scan has in hand of the one before it.    *)

\* base is a tree, with its times.
BaseTyped ==
  /\ base.run \in Nat /\ base.mod \in [Paths -> Nat]
  /\ base.run # 0 => base.content \in [Paths -> Content]
BaseOlder == base.run <= runs /\ (base.run = runs => phase \in {"idle", "saved"})

\* What events since base did to a file that shows the time it had, and that a
\* file that shows another one has no history.
NoEvent(x) == \A e \in past : e.f # x
Same(x) == base.mod[x] = mod[x]
SinceBase ==
  base.run # 0 =>
    \A x \in Paths :
      /\ base.mod[x] <= mod[x]
      /\ NoEvent(x) => (Same(x) => content[x] = base.content[x]) /\ (~Same(x) => x \notin quiet)
      /\ \A w \in {"flip", "zero"} :
           past = {[f |-> x, what |-> w]} /\ Same(x) => Rotten(content[x], base.content[x], w)

\* An event on a file leaves the others alone; it is in past unless it ends a save.
LEMMA Eventful ==
  ASSUME Types, Disturb
  PROVE  /\ base' = base /\ runs' = runs /\ phase' = phase
         /\ \E f \in Paths :
              /\ last'[f] = runs
              /\ \A x \in Paths \ {f} : /\ content'[x] = content[x] /\ mod'[x] = mod[x]
                                        /\ x \in quiet' <=> x \in quiet
              /\ \/ past' = past /\ mod'[f] = mod[f] + 1 /\ f \notin quiet'
                 \/ \E what : /\ past' = past \cup {[f |-> f, what |-> what]}
                              /\ mod'[f] = mod[f] \/ mod'[f] = mod[f] + 1
                              /\ what \in {"flip", "zero"} =>
                                   /\ mod'[f] = mod[f]
                                   /\ \E i \in 1..2 : /\ content[f][i].kind = "data"
                                                      /\ content'[f][i].kind = what
                                                      /\ \A j \in (1..2) \ {i} : content'[f][j] = content[f][j]
<1>1. /\ content \in [Paths -> Content] /\ mod \in [Paths -> Nat] /\ last \in [Paths -> Nat]
      /\ saving \subseteq Paths
  BY DEF Types, FilesTyped
<1>2. base' = base /\ runs' = runs /\ phase' = phase
  BY DEF Disturb, Rot, QuietEdit, Restore, Quietly, Save, SaveEnds, Break, Happens, scan
<1> DEFINE Others(f) == \A x \in Paths \ {f} : /\ content'[x] = content[x] /\ mod'[x] = mod[x]
                                               /\ x \in quiet' <=> x \in quiet
           Told2(f, what) ==
             /\ last'[f] = runs /\ Others(f)
             /\ past' = past \cup {[f |-> f, what |-> what]}
             /\ mod'[f] = mod[f] \/ mod'[f] = mod[f] + 1
             /\ what \in {"flip", "zero"} =>
                  /\ mod'[f] = mod[f]
                  /\ \E i \in 1..2 : /\ content[f][i].kind = "data"
                                     /\ content'[f][i].kind = what
                                     /\ \A j \in (1..2) \ {i} : content'[f][j] = content[f][j]
           Ended2(f) == last'[f] = runs /\ Others(f) /\ past' = past /\ mod'[f] = mod[f] + 1 /\ f \notin quiet'
<1>3. ASSUME NEW f \in Paths, NEW c, NEW what, Quietly(f, c, what)
      PROVE  /\ last'[f] = runs /\ Others(f) /\ past' = past \cup {[f |-> f, what |-> what]}
             /\ mod'[f] = mod[f] /\ content'[f] = c
  BY <1>1, <1>3 DEF Quietly, Happens
<1>4. CASE Rot
  <2>1. PICK f \in Paths, i \in 1..2, kind \in {"flip", "zero"} :
          /\ content[f][i].kind = "data"
          /\ Quietly(f, [content[f] EXCEPT ![i] = [kind |-> kind, of |-> IF kind = "flip" THEN f ELSE 0]], kind)
    BY <1>4 DEF Rot
  <2> DEFINE x == [kind |-> kind, of |-> IF kind = "flip" THEN f ELSE 0]
             c == [content[f] EXCEPT ![i] = x]
  <2>2. x.kind = kind
    OBVIOUS
  <2>3. content[f] \in [1..2 -> Cell]
    BY <1>1 DEF Content
  <2>4. c[i].kind = kind /\ \A j \in (1..2) \ {i} : c[j] = content[f][j]
    <3> HIDE DEF x
    <3>1. c[i] = x /\ \A j \in (1..2) \ {i} : c[j] = content[f][j]
      BY <2>3
    <3>2. QED
      BY <2>2, <3>1
  <2>5. Quietly(f, c, kind)
    BY <2>1
  <2> HIDE DEF c, x
  <2>6. Told2(f, kind)
    BY <1>3, <2>1, <2>4, <2>5
  <2>7. QED
    BY <1>2, <2>6
<1>5. CASE QuietEdit \/ Restore
  <2>1. PICK f \in Paths, what \in {"edit", "restore"} : \E c : Quietly(f, c, what)
    <3>1. QuietEdit => \E f \in Paths : \E c : Quietly(f, c, "edit")
      BY DEF QuietEdit
    <3>2. Restore => \E f \in Paths : \E c : Quietly(f, c, "restore")
      BY DEF Restore
    <3>3. QED
      BY <1>5, <3>1, <3>2
  <2>2. Told2(f, what)
    BY <1>3, <2>1
  <2>3. QED
    BY <1>2, <2>2
<1>6. CASE Save
  <2>1. PICK f \in Paths : /\ Happens(f, "save") /\ mod' = [mod EXCEPT ![f] = @ + 1] /\ quiet' = quiet \ {f}
                           /\ \E c : content' = [content EXCEPT ![f] = c]
    BY <1>6 DEF Save
  <2>2. Told2(f, "save")
    BY <1>1, <2>1 DEF Happens
  <2>3. QED
    BY <1>2, <2>2
<1>7. CASE SaveEnds
  <2>1. PICK f \in Paths : /\ mod' = [mod EXCEPT ![f] = @ + 1] /\ quiet' = quiet \ {f} /\ past' = past
                           /\ last' = [last EXCEPT ![f] = runs]
                           /\ \E c : content' = [content EXCEPT ![f] = c]
    BY <1>1, <1>7 DEF SaveEnds
  <2>2. Ended2(f)
    BY <1>1, <2>1
  <2>3. QED
    BY <1>2, <2>2
<1>8. CASE Break
  <2>1. PICK f \in Paths : Happens(f, "break") /\ UNCHANGED <<content, mod, quiet>>
    BY <1>8 DEF Break
  <2>2. Told2(f, "break")
    BY <1>1, <2>1 DEF Happens
  <2>3. QED
    BY <1>2, <2>2
<1>9. QED
  BY <1>4, <1>5, <1>6, <1>7, <1>8 DEF Disturb

\* Where nothing has changed under a scan, no step but a start changes a file.
LEMMA QuietStep ==
  ASSUME Types, Control, [Next]_vars, Undisturbed', ~Start
  PROVE  ~Disturb /\ Undisturbed /\ UNCHANGED <<content, mod, broken, last, quiet, runs, line, seen>>
<1>1. runs' = runs /\ line' = line /\ seen' = seen
  <2>1. Disturb => UNCHANGED scan
    BY FilesStep
  <2>2. QED
    BY <2>1 DEF Next, Pass, Open, DupPrefix, DupHash, CorrPrefix, CorrHash, Judge, SaveStore, Publish, Stop, Crash,
       Ended, vars, scan
<1>2. ~Disturb
  <2>1. ASSUME Disturb PROVE FALSE
    <3>1. PICK f \in Paths : last'[f] = runs
      BY <2>1, Eventful
    <3>2. last'[f] < runs /\ runs \in Nat
      BY <1>1 DEF Undisturbed, Types, ScanTyped
    <3>3. QED
      BY <3>1, <3>2
  <2>2. QED
    BY <2>1
<1>3. UNCHANGED <<content, mod, broken, last, quiet>>
  BY <1>2, FilesStep
<1>4. QED
  BY <1>1, <1>2, <1>3 DEF Undisturbed

\* The base is of an earlier scan, or of the one that has just been saved.
LEMMA BaseStep ==
  Types /\ Control /\ BaseTyped /\ BaseOlder /\ [Next]_vars => (BaseTyped /\ BaseOlder)'
<1> SUFFICES ASSUME Types, Control, BaseTyped, BaseOlder, [Next]_vars
             PROVE  (BaseTyped /\ BaseOlder)'
  OBVIOUS
<1>1. /\ content \in [Paths -> Content] /\ mod \in [Paths -> Nat] /\ runs \in Nat
  BY DEF Types, FilesTyped, ScanTyped
<1>2. CASE SaveStore
  <2>1. /\ runs' = runs /\ phase = "judged" /\ phase' = "saved"
        /\ base' = base \/ base' = [run |-> runs, content |-> content, mod |-> mod]
    BY <1>2 DEF SaveStore
  <2>2. QED
    BY <1>1, <2>1 DEF BaseTyped, BaseOlder
<1>3. CASE ~SaveStore
  <2>1. Disturb => UNCHANGED <<base, runs, phase>>
    BY Eventful
  <2>2. /\ base' = base
        /\ runs' = runs \/ runs' = runs + 1
        /\ runs' = runs /\ phase \in {"idle", "saved"} => phase' \in {"idle", "saved"}
    BY <1>1, <1>3, <2>1
       DEF Next, Pass, Start, Open, DupPrefix, DupHash, CorrPrefix, CorrHash, Judge, Publish, Stop, Crash,
           Ended, vars, scan
  <2>3. BaseTyped'
    BY <2>2 DEF BaseTyped
  <2>4. BaseOlder'
    BY <1>1, <2>2 DEF BaseOlder, BaseTyped
  <2>5. QED
    BY <2>3, <2>4
<1>4. QED
  BY <1>2, <1>3

\* What the base knows of the files stays true.
LEMMA SinceBaseStep ==
  Types /\ Control /\ BaseTyped /\ SinceBase /\ [Next]_vars => SinceBase'
<1> SUFFICES ASSUME Types, Control, BaseTyped, SinceBase, [Next]_vars, base'.run # 0, NEW x \in Paths
             PROVE  /\ base'.mod[x] <= mod'[x]
                    /\ NoEvent(x)' => (Same(x)' => content'[x] = base'.content[x]) /\ (~Same(x)' => x \notin quiet')
                    /\ \A w \in {"flip", "zero"} :
                         past' = {[f |-> x, what |-> w]} /\ Same(x)' => Rotten(content'[x], base'.content[x], w)
  BY DEF SinceBase
<1>1. /\ content \in [Paths -> Content] /\ mod \in [Paths -> Nat] /\ base.mod \in [Paths -> Nat]
  BY DEF Types, FilesTyped, BaseTyped
<1>2. CASE Disturb
  <2>1. base' = base
    BY <1>2, Eventful
  <2>2. PICK f \in Paths :
          /\ \A y \in Paths \ {f} : /\ content'[y] = content[y] /\ mod'[y] = mod[y]
                                    /\ y \in quiet' <=> y \in quiet
          /\ \/ past' = past /\ mod'[f] = mod[f] + 1 /\ f \notin quiet'
             \/ \E what : /\ past' = past \cup {[f |-> f, what |-> what]}
                          /\ mod'[f] = mod[f] \/ mod'[f] = mod[f] + 1
                          /\ what \in {"flip", "zero"} =>
                               /\ mod'[f] = mod[f]
                               /\ \E i \in 1..2 : /\ content[f][i].kind = "data"
                                                  /\ content'[f][i].kind = what
                                                  /\ \A j \in (1..2) \ {i} : content'[f][j] = content[f][j]
    BY <1>2, Eventful
  <2>3. /\ base.mod[x] <= mod[x]
        /\ NoEvent(x) => (Same(x) => content[x] = base.content[x]) /\ (~Same(x) => x \notin quiet)
        /\ \A w \in {"flip", "zero"} :
             past = {[f |-> x, what |-> w]} /\ Same(x) => Rotten(content[x], base.content[x], w)
    BY <2>1 DEF SinceBase
  <2>4. CASE x # f
    <3>1. content'[x] = content[x] /\ mod'[x] = mod[x] /\ (x \in quiet' <=> x \in quiet) /\ (Same(x)' <=> Same(x))
      BY <2>1, <2>2, <2>4 DEF Same
    <3>2. NoEvent(x)' => NoEvent(x)
      BY <2>2 DEF NoEvent
    <3>3. ASSUME NEW w \in {"flip", "zero"}, past' = {[f |-> x, what |-> w]}
          PROVE  past' = past
      <4>1. ASSUME NEW what, [f |-> f, what |-> what] \in past' PROVE FALSE
        <5>1. [f |-> f, what |-> what] = [f |-> x, what |-> w]
          BY <3>3, <4>1
        <5>2. [f |-> f, what |-> what].f = [f |-> x, what |-> w].f
          BY <5>1, Zenon
        <5>3. QED
          BY <2>4, <5>2
      <4>2. QED
        BY <2>2, <4>1
    <3>4. QED
      BY <2>1, <2>3, <3>1, <3>2, <3>3
  <2>5. CASE x = f
    <3>1. CASE past' = past /\ mod'[f] = mod[f] + 1 /\ f \notin quiet'
      <4>1. ~Same(x)' /\ base'.mod[x] <= mod'[x] /\ x \notin quiet'
        BY <1>1, <2>1, <2>3, <2>5, <3>1 DEF Same
      <4>2. QED
        BY <4>1
    <3>2. CASE ~(past' = past /\ mod'[f] = mod[f] + 1 /\ f \notin quiet')
      <4>1. PICK what : /\ past' = past \cup {[f |-> f, what |-> what]}
                        /\ mod'[f] = mod[f] \/ mod'[f] = mod[f] + 1
                        /\ what \in {"flip", "zero"} =>
                             /\ mod'[f] = mod[f]
                             /\ \E i \in 1..2 : /\ content[f][i].kind = "data"
                                                /\ content'[f][i].kind = what
                                                /\ \A j \in (1..2) \ {i} : content'[f][j] = content[f][j]
        BY <2>2, <3>2
      <4>2. base'.mod[x] <= mod'[x]
        BY <1>1, <2>1, <2>3, <2>5, <4>1
      <4>3. ~NoEvent(x)'
        <5> DEFINE e == [f |-> f, what |-> what]
        <5>1. e.f = x
          BY <2>5
        <5>2. e \in past'
          BY <4>1
        <5> HIDE DEF e
        <5>3. QED
          BY <5>1, <5>2 DEF NoEvent
      <4>4. ASSUME NEW w \in {"flip", "zero"}, past' = {[f |-> x, what |-> w]}, Same(x)'
            PROVE  Rotten(content'[x], base'.content[x], w)
        <5>1. what = w
          <6>1. [f |-> f, what |-> what] = [f |-> x, what |-> w]
            BY <4>1, <4>4
          <6>2. [f |-> f, what |-> what].what = [f |-> x, what |-> w].what
            BY <6>1, Zenon
          <6>3. QED
            BY <6>2
        <5>2. mod'[x] = mod[x] /\ Same(x)
          BY <2>1, <2>5, <4>1, <4>4, <5>1 DEF Same
        <5>3. PICK i \in 1..2 : /\ content[x][i].kind = "data" /\ content'[x][i].kind = w
                                /\ \A j \in (1..2) \ {i} : content'[x][j] = content[x][j]
          BY <2>5, <4>1, <5>1
        <5>4. past = {} \/ past = {[f |-> x, what |-> w]}
          BY <4>1, <4>4
        <5>5. CASE past = {}
          <6>1. content[x] = base.content[x]
            BY <2>3, <5>2, <5>5 DEF NoEvent
          <6>2. QED
            BY <2>1, <5>3, <6>1 DEF Rotten
        <5>6. CASE past = {[f |-> x, what |-> w]}
          <6>1. Rotten(content[x], base.content[x], w)
            BY <2>3, <5>2, <5>6
          <6>2. content[x][i] = base.content[x][i]
            BY <5>3, <6>1 DEF Rotten
          <6>3. QED
            BY <2>1, <5>3, <6>1, <6>2 DEF Rotten
        <5>7. QED
          BY <5>4, <5>5, <5>6
      <4>5. QED
        BY <4>2, <4>3, <4>4
    <3>3. QED
      BY <3>1, <3>2
  <2>6. QED
    BY <2>4, <2>5
<1>3. CASE SaveStore
  <2>1. /\ UNCHANGED <<content, mod, quiet>>
        /\ \/ base' = base /\ past' = past
           \/ base' = [run |-> runs, content |-> content, mod |-> mod] /\ past' = {}
    BY <1>3 DEF SaveStore
  <2>2. CASE base' = base /\ past' = past
    BY <2>1, <2>2 DEF SinceBase, NoEvent, Same
  <2>3. CASE base' = [run |-> runs, content |-> content, mod |-> mod] /\ past' = {}
    <3>1. /\ base'.mod[x] = mod'[x] /\ base'.content[x] = content'[x] /\ mod[x] \in Nat /\ mod' = mod
      BY <1>1, <2>1, <2>3
    <3>2. \A w : past' # {[f |-> x, what |-> w]}
      BY <2>3
    <3>3. QED
      BY <3>1, <3>2 DEF Same
  <2>4. QED
    BY <2>1, <2>2, <2>3
<1>4. CASE ~Disturb /\ ~SaveStore
  <2>1. UNCHANGED <<base, past, content, mod, quiet>>
    BY <1>4
       DEF Next, Pass, Start, Open, DupPrefix, DupHash, CorrPrefix, CorrHash, Judge, Publish, Stop, Crash,
           Ended, vars, scan, files
  <2>2. QED
    BY <2>1 DEF SinceBase, NoEvent, Same
<1>5. QED
  BY <1>2, <1>3, <1>4

\* A file that had kin in the base; what the scan that saved the base wrote
\* of x; and what a scan that nothing disturbs has read when it is judging.
Paired(x) == \E y \in Paths \ {x} : base.mod[y] = base.mod[x]
BaseEntry(e, x) ==
  /\ e.mod = base.mod[x] /\ e.scan = base.run
  /\ e.full = base.content[x] /\ e.pfx = <<base.content[x][1]>>
FreshEntry(e, x) ==
  e.mod = seen[x] /\ e.scan = runs /\ e.full = content[x] /\ e.pfx = <<content[x][1]>>
StoreFresh ==
  phase \in {"hashed", "judged"} /\ Undisturbed /\ line = {runs} =>
    \A x \in Family : broken[x] = "ok" => FreshEntry(store.ents[x], x)

\* What was written of the base is on disk until the scan after it writes.
BaseOnDisk ==
  /\ base.run # 0
  /\ runs = base.run \/ (runs = base.run + 1 /\ phase \in {"walked", "open", "prefixes"})
  => \A x \in Paths : Paired(x) /\ broken[x] = "ok" => BaseEntry(disk.ents[x], x)

\* A scan that nothing disturbs serves itself and reads nothing stale.
LEMMA QuietReads ==
  ASSUME Types, Control, Reads, WalkStands, Undisturbed, phase # "idle", NEW x \in Paths
  PROVE  /\ mod[x] = seen[x] /\ last[x] < runs /\ runs \in Nat
         /\ Aged(x, seen[x]) => x \in quiet
         /\ \A m \in Nat : ~Moved(x, m, runs)
         /\ pfx[x] # NoHash => pfx[x] = <<content[x][1]>>
<1>1. last[x] \in Nat /\ runs \in Nat /\ mod[x] \in Nat /\ last[x] < runs /\ mod[x] = seen[x]
  BY DEF Types, FilesTyped, ScanTyped, Undisturbed, WalkStands
<1>2. \A m : ~Moved(x, m, runs)
  BY <1>1 DEF Moved
<1>3. pfx[x] # NoHash => pfx[x] = <<content[x][1]>>
  BY <1>2 DEF Reads, PrefixesTrue
<1>4. QED
  BY <1>1, <1>2, <1>3 DEF Aged

LEMMA StoreFreshStep ==
  Types /\ Control /\ Reads /\ Gens /\ WalkStands /\ StoreFresh /\ [Next]_vars => StoreFresh'
<1> SUFFICES ASSUME Types, Control, Reads, Gens, WalkStands, StoreFresh, [Next]_vars,
                    phase' \in {"hashed", "judged"}, Undisturbed', line' = {runs'},
                    NEW x \in Paths, x \in Family', broken'[x] = "ok"
             PROVE  FreshEntry(store.ents[x], x)'
  BY DEF StoreFresh, Family
<1>1. ~Start
  BY DEF Start
<1>2. ~Disturb /\ Undisturbed /\ UNCHANGED <<content, mod, broken, last, quiet, runs, line, seen>>
  BY <1>1, QuietStep
<1>3. x \in Family
  BY <1>2 DEF Family
<1>4. \/ CorrHash \/ Judge \/ UNCHANGED <<phase, store>>
  BY <1>2 DEF Next, Pass, Start, Open, DupPrefix, DupHash, CorrPrefix, SaveStore, Publish, Stop, Crash, Ended, vars, scan
<1>5. CASE Judge \/ UNCHANGED <<phase, store>>
  <2>1. store' = store /\ phase \in {"hashed", "judged"}
    BY <1>5 DEF Judge
  <2>2. FreshEntry(store.ents[x], x)
    BY <1>2, <1>3, <2>1 DEF StoreFresh
  <2>3. QED
    BY <1>2, <2>1, <2>2 DEF FreshEntry
<1>6. CASE CorrHash
  <2> DEFINE asked == {f \in Family : info.err[f] = "ok"}
             read == FullReads(asked)
  <2>1. PICK K \in Fitting(store, Displaced(store, read, seen, pfx, content)) :
          store' = Record(store, read, seen, pfx, content, runs, K)
    BY <1>6 DEF CorrHash
  <2>2. phase = "windowed"
    BY <1>6 DEF CorrHash
  <2>3. read \in SUBSET Paths
    BY DEF FullReads, Family
  <2>4. x \in asked
    BY <1>2, <1>3 DEF Reads, ErrorsTrue
  <2>5. pfx[x] # NoHash
    BY <2>2, <2>4 DEF Control
  <2>6. pfx[x] = <<content[x][1]>> /\ (\A m \in Nat : ~Moved(x, m, runs)) /\ last[x] < runs /\ runs \in Nat
    BY <1>2, <2>2, <2>5, QuietReads
  <2> HIDE DEF asked
  <2>7. x \in read <=> x \notin Hits(asked)
    BY <1>2, <2>4 DEF FullReads
  <2> HIDE DEF read
  <2>8. store'.ents[x] = IF x \notin read THEN store.ents[x]
                         ELSE [mod |-> seen[x], pfx |-> pfx[x], full |-> content[x],
                               gen |-> store.gen, scan |-> runs]
    BY <2>1, <2>3, Hashing
  <2>9. CASE x \in read
    <3>1. FreshEntry(store'.ents[x], x)
      BY <2>6, <2>8, <2>9 DEF FreshEntry
    <3>2. QED
      BY <1>2, <3>1 DEF FreshEntry
  <2>10. CASE x \notin read
    <3>1. Hit(store, x, seen[x], pfx[x])
      BY <2>7, <2>10 DEF Hits
    <3>2. /\ store.ents[x] # NoEntry /\ store.ents[x].mod = seen[x]
          /\ store.ents[x].gen = store.gen
      BY <3>1 DEF Hit, SameTime
    <3>3. store.ents[x].scan = runs
      BY <1>2, <2>2, <3>2 DEF Gens, ScanOwns
    <3>4. store.ents[x].mod \in Nat
      BY <3>2 DEF Types, ScanTyped
    <3>5. EntryTrue(store.ents[x], x)
      BY DEF Reads, EntriesTrue
    <3>6. store.ents[x].full = content[x] /\ store.ents[x].pfx = <<content[x][1]>>
      BY <2>6, <3>2, <3>3, <3>4, <3>5 DEF EntryTrue, Told
    <3>7. FreshEntry(store.ents[x], x)
      BY <3>2, <3>3, <3>6 DEF FreshEntry
    <3>8. QED
      BY <1>2, <2>8, <2>10, <3>7 DEF FreshEntry
  <2>11. QED
    BY <2>9, <2>10
<1>7. QED
  BY <1>4, <1>5, <1>6

LEMMA BaseOnDiskStep ==
  Types /\ Control /\ WalkStands /\ BaseTyped /\ BaseOlder /\ StoreFresh /\ BaseOnDisk /\ [Next]_vars => BaseOnDisk'
<1> SUFFICES ASSUME Types, Control, WalkStands, BaseTyped, BaseOlder, StoreFresh, BaseOnDisk, [Next]_vars,
                    base'.run # 0,
                    runs' = base'.run \/ (runs' = base'.run + 1 /\ phase' \in {"walked", "open", "prefixes"}),
                    NEW x \in Paths, Paired(x)', broken'[x] = "ok"
             PROVE  BaseEntry(disk.ents[x], x)'
  BY DEF BaseOnDisk
<1>1. broken[x] = "ok" /\ runs \in Nat /\ base.run \in Nat
  BY FilesStep DEF Types, ScanTyped, BaseTyped
<1>2. CASE SaveStore /\ base' # base
  <2>1. /\ phase = "judged" /\ Undisturbed /\ line = {runs} /\ disk' = Saved(store, disk)
        /\ base' = [run |-> runs, content |-> content, mod |-> mod]
    BY <1>2 DEF SaveStore
  <2>2. \A f \in Paths : mod[f] = seen[f]
    BY <2>1 DEF WalkStands, Undisturbed
  <2>3. base'.mod = mod /\ base'.run = runs /\ base'.content = content
    BY <2>1
  <2>4. x \in Family
    BY <2>2, <2>3 DEF Family, Paired
  <2>5. FreshEntry(store.ents[x], x)
    BY <1>1, <2>1, <2>4 DEF StoreFresh
  <2>6. disk'.ents = store.ents
    BY <2>1 DEF Saved
  <2>7. QED
    BY <2>2, <2>3, <2>5, <2>6 DEF FreshEntry, BaseEntry
<1>3. CASE ~(SaveStore /\ base' # base)
  <2>1. Disturb => UNCHANGED <<base, runs, phase, disk>>
    BY FilesStep DEF scan, state
  <2>2. base' = base
    BY <1>3, <2>1
       DEF Next, Pass, Start, Open, DupPrefix, DupHash, CorrPrefix, CorrHash, Judge, Publish, Stop, Crash,
           Ended, vars, scan
  <2>3. disk' = disk
    <3>1. ASSUME DupHash PROVE FALSE
      BY <1>1, <2>2, <3>1 DEF DupHash, BaseOlder
    <3>2. ASSUME SaveStore PROVE FALSE
      BY <1>1, <2>2, <3>2 DEF SaveStore, BaseOlder
    <3>3. QED
      BY <2>1, <3>1, <3>2
         DEF Next, Pass, Start, Open, DupPrefix, CorrPrefix, CorrHash, Judge, Publish, Stop, Crash,
             Ended, vars, state
  <2>4. runs = base.run \/ (runs = base.run + 1 /\ phase \in {"walked", "open", "prefixes"})
    <3>1. CASE Start
      BY <1>1, <2>2, <3>1 DEF Start, BaseOlder
    <3>2. CASE ~Start
      <4>1. runs' = runs
        BY <3>2, RunsStep
      <4>2. CASE runs' = base'.run
        BY <2>2, <4>1, <4>2
      <4>3. CASE phase' \in {"walked", "open", "prefixes"} /\ runs' = base'.run + 1
        <5>1. phase \in {"walked", "open", "prefixes"}
          BY <2>1, <3>2, <4>3
             DEF Next, Pass, Open, DupPrefix, DupHash, CorrPrefix, CorrHash, Judge, SaveStore, Publish, Stop, Crash,
                 Ended, vars, scan
        <5>2. QED
          BY <2>2, <4>1, <4>3, <5>1
      <4>4. QED
        BY <4>2, <4>3
    <3>3. QED
      BY <3>1, <3>2
  <2>5. Paired(x)
    BY <2>2 DEF Paired
  <2>6. BaseEntry(disk.ents[x], x)
    BY <1>1, <2>2, <2>4, <2>5 DEF BaseOnDisk
  <2>7. QED
    BY <2>2, <2>3, <2>6 DEF BaseEntry
<1>4. QED
  BY <1>2, <1>3

-----------------------------------------------------------------------------
(* The evidence of a change since the base reaches the judgement.          *)

\* This scan comes next after the base, nothing disturbs it, and there is
\* room for every change there is.
Follows ==
  /\ base.run # 0 /\ runs = base.run + 1 /\ line = {runs} /\ Undisturbed
  /\ Cardinality(quiet) <= ChangedMax

\* A readable file that had kin in the base and still has its time: the store
\* still holds what the base's scan wrote of it, or has been written over and
\* remembers what it held when that was something else.
Kept(x) == Paired(x) /\ Same(x) /\ broken[x] = "ok"
Old(x) == BaseEntry(store.ents[x], x) /\ store.changed[x] = NoHash
New(x) ==
  /\ store.ents[x].gen = store.gen
  /\ store.changed[x] = IF content[x] = base.content[x] THEN NoHash ELSE base.content[x]
EvidenceLive == \A x \in Paths : store.changed[x] # NoHash => store.ents[x].gen = store.gen
EvidenceKept == Follows /\ phase \notin {"idle", "walked"} => \A x \in Paths : Kept(x) => Old(x) \/ New(x)

\* The flags say so.
FlagSays(x) ==
  /\ info.flag[x] => content[x] # base.content[x] /\ info.prior[x] = base.content[x]
  /\ content[x] # base.content[x] /\ (New(x) \/ phase # "windowed") => info.flag[x]
FlagsTrue ==
  Follows /\ phase \in {"windowed", "hashed", "judged"} => \A x \in Family : Kept(x) => FlagSays(x)

LEMMA EvidenceLiveStep ==
  Types /\ Control /\ EvidenceLive /\ [Next]_vars => EvidenceLive'
<1> SUFFICES ASSUME Types, Control, EvidenceLive, [Next]_vars, NEW x \in Paths, store'.changed[x] # NoHash
             PROVE  store'.ents[x].gen = store'.gen
  BY DEF EvidenceLive
<1>1. Disturb => store' = store
  BY FilesStep DEF scan
<1>2. CASE DupHash \/ CorrHash
  <2>1. PICK S \in SUBSET Paths : \E K \in Fitting(store, Displaced(store, S, seen, pfx, content)) :
                                    store' = Record(store, S, seen, pfx, content, runs, K)
    BY <1>2, HashPass
  <2>2. PICK K \in Fitting(store, Displaced(store, S, seen, pfx, content)) :
                                    store' = Record(store, S, seen, pfx, content, runs, K)
    BY <2>1
  <2>3. /\ store'.gen = store.gen /\ K \subseteq Displaced(store, S, seen, pfx, content)
        /\ store'.ents[x] = IF x \notin S THEN store.ents[x]
                            ELSE [mod |-> seen[x], pfx |-> pfx[x], full |-> content[x],
                                  gen |-> store.gen, scan |-> runs]
        /\ store'.changed[x] = IF x \in K THEN store.ents[x].full ELSE store.changed[x]
    BY <2>2, Hashing
  <2>4. x \in K => x \in S
    BY <2>3 DEF Displaced
  <2>5. x \notin S => store.ents[x].gen = store.gen
    BY <2>3, <2>4 DEF EvidenceLive
  <2>6. QED
    BY <2>3, <2>5
<1>3. CASE Open
  <2>1. store' = LoadResume(disk, adopt) /\ StoreTyped /\ adopt \in Nat
    BY <1>3 DEF Open, Types, ScanTyped
  <2>2. store'.changed[x] = NoHash
    BY <2>1, Opened
  <2>3. QED
    BY <2>2
<1>4. CASE ~(DupHash \/ CorrHash) /\ ~Open
  <2>1. store' = store \/ store' = Closed
    BY <1>1, <1>4
       DEF Next, Pass, Start, DupPrefix, CorrPrefix, Judge, SaveStore, Publish, Stop, Crash, Ended, vars, scan
  <2>2. Closed.changed[x] = NoHash
    BY Empties
  <2>3. QED
    BY <2>1, <2>2 DEF EvidenceLive
<1>5. QED
  BY <1>2, <1>3, <1>4

\* What the base's scan wrote is history to this one.
LEMMA OldTells ==
  ASSUME Types, Control, Reads, Gens, WalkStands, BaseTyped, Follows, phase \notin {"idle", "walked"},
         NEW x \in Paths, Kept(x)
  PROVE  /\ seen[x] = mod[x] /\ base.content[x] # NoHash /\ content[x] # NoHash
         /\ Old(x) => /\ History(store.ents[x], store.gen, seen[x]) /\ store.ents[x].full = base.content[x]
                      /\ store.ents[x].pfx = <<base.content[x][1]>> /\ store.ents[x].gen # store.gen
         /\ New(x) => ~History(store.ents[x], store.gen, seen[x])
<1>1. seen[x] = mod[x]
  BY QuietReads DEF Follows
<1>2. base.content[x] # NoHash /\ content[x] # NoHash
  BY ContentSays DEF BaseTyped, Follows, Types, FilesTyped
<1>3. ASSUME Old(x)
      PROVE  /\ History(store.ents[x], store.gen, seen[x]) /\ store.ents[x].full = base.content[x]
             /\ store.ents[x].pfx = <<base.content[x][1]>> /\ store.ents[x].gen # store.gen
  <2>1. /\ store.ents[x].mod = seen[x] /\ store.ents[x].scan = base.run
        /\ store.ents[x].full = base.content[x] /\ store.ents[x].pfx = <<base.content[x][1]>>
    BY <1>1, <1>3 DEF Old, BaseEntry, Kept, Same
  <2>2. base.run # runs /\ base.run # 0
    BY DEF Follows, BaseTyped
  <2>3. store.ents[x] # NoEntry
    BY <2>1, <2>2, Empties
  <2>4. store.ents[x].gen # store.gen
    BY <2>1, <2>2 DEF Gens, ScanOwns, Follows
  <2>5. QED
    BY <2>1, <2>3, <2>4 DEF History, SameTime
<1>4. New(x) => ~History(store.ents[x], store.gen, seen[x])
  BY DEF New, History
<1>5. QED
  BY <1>1, <1>2, <1>3, <1>4

\* Reading a file over destroys the base's entry of it exactly when the file
\* has changed.
LEMMA Evident ==
  ASSUME Types, Control, Reads, Gens, WalkStands, BaseTyped, Follows, phase \notin {"idle", "walked"},
         NEW S \in SUBSET Paths, NEW x \in S, pfx[x] # NoHash, Kept(x)
  PROVE  LET moved == Displaced(store, S, seen, pfx, content)
         IN  /\ Old(x) => (x \in moved <=> content[x] # base.content[x])
             /\ New(x) => x \notin moved
<1> DEFINE moved == Displaced(store, S, seen, pfx, content)
<1>1. pfx[x] = <<content[x][1]>>
  BY QuietReads DEF Follows
<1>2. x \in moved <=> /\ History(store.ents[x], store.gen, seen[x])
                      /\ <<store.ents[x].pfx, store.ents[x].full>> # <<pfx[x], content[x]>>
  BY DEF Displaced
<1> HIDE DEF moved
<1>3. New(x) => x \notin moved
  BY <1>2, OldTells
<1>4. ASSUME Old(x) PROVE x \in moved <=> content[x] # base.content[x]
  <2>1. /\ History(store.ents[x], store.gen, seen[x]) /\ store.ents[x].full = base.content[x]
        /\ store.ents[x].pfx = <<base.content[x][1]>>
    BY <1>4, OldTells
  <2>2. content[x] = base.content[x] => x \notin moved
    BY <1>1, <1>2, <2>1
  <2>3. content[x] # base.content[x] => x \in moved
    BY <1>2, <2>1
  <2>4. QED
    BY <2>2, <2>3
<1>5. QED
  BY <1>3, <1>4 DEF moved

\* There is room for everything that a reading displaces.
LEMMA AllFit ==
  ASSUME Types, Control, Reads, Gens, WalkStands, EvidenceLive, Follows, phase \notin {"idle", "walked"},
         NEW S \in SUBSET Paths, \A f \in S : pfx[f] # NoHash,
         NEW K \in Fitting(store, Displaced(store, S, seen, pfx, content))
  PROVE  K = Displaced(store, S, seen, pfx, content)
<1> DEFINE moved == Displaced(store, S, seen, pfx, content)
           E == {f \in Paths : store.changed[f] # NoHash}
<1>1. K \in SUBSET moved /\ Cardinality(K) = IF Cardinality(moved) > Room(store) THEN Room(store)
                                             ELSE Cardinality(moved)
  BY DEF Fitting
<1>2. Room(store) = ChangedMax - Cardinality(E)
  BY DEF Room
<1>3. moved \subseteq quiet
  BY DisplacedTells, QuietReads DEF Follows
<1>4. E \subseteq quiet
  BY QuietReads DEF Follows, Reads, EvidenceTrue
<1>5. moved \cap E = {}
  BY DEF Displaced, History, EvidenceLive
<1>6. IsFiniteSet(quiet)
  BY FS_Subset, StoreAssumption DEF Types, FilesTyped
<1> HIDE DEF moved, E
<1>7. IsFiniteSet(moved) /\ IsFiniteSet(E) /\ IsFiniteSet(K)
  BY <1>1, <1>3, <1>4, <1>6, FS_Subset
<1>8. /\ Cardinality(moved) \in Nat /\ Cardinality(E) \in Nat /\ Cardinality(quiet) \in Nat
      /\ IsFiniteSet(moved \cup E)
  BY <1>6, <1>7, FS_CardinalityType, FS_Union
<1>9. Cardinality(moved \cup E) = Cardinality(moved) + Cardinality(E)
  <2>1. Cardinality(moved \cup E) = Cardinality(moved) + Cardinality(E) - Cardinality(moved \cap E)
    BY <1>7, FS_Union
  <2>2. Cardinality(moved \cap E) = 0
    BY <1>5, FS_EmptySet
  <2>3. QED
    BY <1>8, <2>1, <2>2
<1>10. Cardinality(moved \cup E) <= Cardinality(quiet)
  BY <1>3, <1>4, <1>6, FS_Subset
<1>11. Cardinality(moved) <= Room(store)
  BY <1>2, <1>8, <1>9, <1>10, StoreAssumption DEF Follows
<1>12. Cardinality(K) = Cardinality(moved)
  BY <1>1, <1>2, <1>8, <1>11, StoreAssumption
<1>13. K = moved
  BY <1>1, <1>7, <1>12, FS_Subset
<1>14. QED
  BY <1>13 DEF moved

\* A step into a scan that follows the base is a step of such a scan.
LEMMA FollowsStep ==
  ASSUME Types, Control, BaseTyped, BaseOlder, [Next]_vars, Follows', ~Start
  PROVE  /\ Follows /\ base' = base /\ ~Disturb
         /\ UNCHANGED <<content, mod, broken, last, quiet, runs, line, seen>>
         /\ \A x \in Paths : Kept(x)' <=> Kept(x)
<1>1. ~Disturb /\ Undisturbed /\ UNCHANGED <<content, mod, broken, last, quiet, runs, line, seen>>
  BY QuietStep DEF Follows
<1>2. base' = base
  <2>1. ASSUME SaveStore PROVE base' = base
    <3> DEFINE b == [run |-> runs, content |-> content, mod |-> mod]
    <3>1. b.run = runs
      OBVIOUS
    <3>2. base' = base \/ base' = b
      BY <2>1 DEF SaveStore
    <3> HIDE DEF b
    <3>3. runs' = base'.run + 1 /\ runs' = runs /\ runs \in Nat
      BY <1>1 DEF Follows, Types, ScanTyped
    <3>4. QED
      BY <3>1, <3>2, <3>3
  <2>2. QED
    BY <1>1, <2>1
       DEF Next, Pass, Open, DupPrefix, DupHash, CorrPrefix, CorrHash, Judge, Publish, Stop, Crash,
           Ended, vars, scan
<1>3. QED
  BY <1>1, <1>2 DEF Follows, Kept, Paired, Same

LEMMA EvidenceKeptStep ==
  ASSUME Types, Control, Reads, Gens, WalkStands, BaseTyped, BaseOlder, BaseOnDisk, EvidenceLive, EvidenceKept,
         [Next]_vars
  PROVE  EvidenceKept'
<1> SUFFICES ASSUME Follows', phase' \notin {"idle", "walked"}, NEW x \in Paths, Kept(x)'
             PROVE  (Old(x) \/ New(x))'
  BY DEF EvidenceKept
<1>1. ~Start
  BY DEF Start
<1>2. /\ Follows /\ base' = base /\ ~Disturb /\ Kept(x)
      /\ UNCHANGED <<content, mod, broken, last, quiet, runs, line, seen>>
  BY <1>1, FollowsStep
<1>3. CASE Open
  <2>1. store' = LoadResume(disk, adopt) /\ StoreTyped /\ adopt \in Nat /\ phase = "walked"
    BY <1>3 DEF Open, Types, ScanTyped
  <2>2. store'.ents = disk.ents /\ store'.changed[x] = NoHash
    BY <2>1, Opened
  <2>3. BaseEntry(disk.ents[x], x)
    BY <1>2, <2>1 DEF Follows, Kept, BaseOnDisk
  <2>4. Old(x)'
    BY <1>2, <2>2, <2>3 DEF Old, BaseEntry
  <2>5. QED
    BY <2>4
<1>4. CASE ~Open
  <2>1. phase \notin {"idle", "walked"}
    BY <1>1, <1>2, <1>4
       DEF Next, Pass, DupPrefix, DupHash, CorrPrefix, CorrHash, Judge, SaveStore, Publish, Stop, Crash,
           Ended, vars, scan
  <2>2. Old(x) \/ New(x)
    BY <1>2, <2>1 DEF EvidenceKept
  <2>3. CASE DupHash \/ CorrHash
    <3>1. PICK S \in SUBSET Paths :
            /\ \E K \in Fitting(store, Displaced(store, S, seen, pfx, content)) :
                 store' = Record(store, S, seen, pfx, content, runs, K)
            /\ \A f \in S : pfx[f] # NoHash
      BY <2>3, HashPass
    <3>2. PICK K \in Fitting(store, Displaced(store, S, seen, pfx, content)) :
                 store' = Record(store, S, seen, pfx, content, runs, K)
      BY <3>1
    <3>3. K = Displaced(store, S, seen, pfx, content)
      BY <1>2, <2>1, <3>1, AllFit
    <3>4. /\ store'.gen = store.gen
          /\ store'.ents[x] = IF x \notin S THEN store.ents[x]
                              ELSE [mod |-> seen[x], pfx |-> pfx[x], full |-> content[x],
                                    gen |-> store.gen, scan |-> runs]
          /\ store'.changed[x] = IF x \in K THEN store.ents[x].full ELSE store.changed[x]
      BY <3>2, Hashing
    <3>5. CASE x \notin S
      <4>1. x \notin K
        BY <3>3, <3>5 DEF Displaced
      <4>2. store'.ents[x] = store.ents[x] /\ store'.changed[x] = store.changed[x]
        BY <3>4, <3>5, <4>1
      <4>3. QED
        BY <1>2, <2>2, <3>4, <4>2 DEF Old, New, BaseEntry
    <3>6. CASE x \in S
      <4>1. store'.ents[x].gen = store'.gen
        BY <3>4, <3>6
      <4>2. /\ Old(x) => (x \in K <=> content[x] # base.content[x])
            /\ New(x) => x \notin K
        BY <1>2, <2>1, <3>1, <3>3, <3>6, Evident
      <4>3. Old(x) => store.ents[x].full = base.content[x] /\ store.changed[x] = NoHash
        BY DEF Old, BaseEntry
      <4>4. store'.changed[x] = IF content[x] = base.content[x] THEN NoHash ELSE base.content[x]
        <5>1. CASE New(x)
          BY <3>4, <4>2, <5>1 DEF New
        <5>2. CASE Old(x)
          BY <3>4, <4>2, <4>3, <5>2
        <5>3. QED
          BY <2>2, <5>1, <5>2
      <4>5. QED
        BY <1>2, <4>1, <4>4 DEF New
    <3>7. QED
      BY <3>5, <3>6
  <2>4. CASE ~(DupHash \/ CorrHash)
    <3>1. store' = store
      BY <1>1, <1>2, <1>4, <2>4
         DEF Next, Pass, DupPrefix, CorrPrefix, Judge, SaveStore, Publish, Stop, Crash, Ended, vars, scan
    <3>2. QED
      BY <1>2, <2>2, <3>1 DEF Old, New, BaseEntry
  <2>5. QED
    BY <2>3, <2>4
<1>5. QED
  BY <1>3, <1>4

LEMMA FlagsTrueStep ==
  ASSUME Types, Control, Reads, Gens, WalkStands, BaseTyped, BaseOlder, EvidenceKept, FlagsTrue,
         [Next]_vars
  PROVE  FlagsTrue'
<1> SUFFICES ASSUME Follows', phase' \in {"windowed", "hashed", "judged"}, NEW x \in Paths, x \in Family', Kept(x)'
             PROVE  FlagSays(x)'
  BY DEF FlagsTrue, Family
<1>1. ~Start
  BY DEF Start
<1>2. /\ Follows /\ base' = base /\ ~Disturb /\ Kept(x) /\ x \in Family
      /\ UNCHANGED <<content, mod, broken, last, quiet, runs, line, seen>>
  BY <1>1, FollowsStep DEF Family
<1>3. phase \in {"grouped", "windowed", "hashed", "judged"}
  BY <1>1, <1>2
     DEF Next, Pass, Open, DupPrefix, DupHash, CorrPrefix, CorrHash, Judge, SaveStore, Publish, Stop, Crash,
         Ended, vars, scan
<1>4. Old(x) \/ New(x)
  BY <1>2, <1>3 DEF EvidenceKept
<1>5. /\ seen[x] = mod[x] /\ base.content[x] # NoHash /\ content[x] # NoHash
      /\ Old(x) => /\ History(store.ents[x], store.gen, seen[x]) /\ store.ents[x].full = base.content[x]
                   /\ store.ents[x].pfx = <<base.content[x][1]>> /\ store.ents[x].gen # store.gen
      /\ New(x) => ~History(store.ents[x], store.gen, seen[x])
  BY <1>2, <1>3, OldTells
<1>6. CASE CorrPrefix
  <2> DEFINE p == PriorInEntry(store, x, seen[x], <<content[x][1]>>)
             prior == Prior(store, x, seen[x], <<content[x][1]>>)
  <2>1. pfx'[x] = <<content[x][1]>> /\ pfx'[x] # NoHash
    <3>1. pfx' = PrefixesOf(Family) /\ FilesTyped /\ broken[x] = "ok"
      BY <1>2, <1>6 DEF CorrPrefix, Types, Kept
    <3>2. QED
      BY <1>2, <3>1, PrefixesRead
  <2>2. info'.prior[x] = prior /\ info'.flag[x] = (prior # NoHash) /\ store' = store /\ phase' = "windowed"
    BY <1>6, <2>1 DEF CorrPrefix
  <2>3. prior = IF store.changed[x] # NoHash THEN store.changed[x] ELSE p
    BY DEF Prior
  <2>4. p = IF History(store.ents[x], store.gen, seen[x]) /\ store.ents[x].pfx # <<content[x][1]>>
            THEN store.ents[x].full ELSE NoHash
    BY DEF PriorInEntry
  <2> HIDE DEF p, prior
  <2>5. CASE Old(x)
    <3>1. store.changed[x] = NoHash
      BY <2>5 DEF Old
    <3>2. prior # NoHash => prior = base.content[x] /\ content[x] # base.content[x]
      BY <1>5, <2>3, <2>4, <2>5, <3>1
    <3>3. ~New(x)
      BY <1>5, <2>5
    <3>4. FlagSays(x)'
      BY <1>2, <2>2, <3>2, <3>3 DEF FlagSays, New
    <3>5. QED
      BY <3>4
  <2>6. CASE New(x)
    <3>1. store.changed[x] = IF content[x] = base.content[x] THEN NoHash ELSE base.content[x]
      BY <2>6 DEF New
    <3>2. prior = IF content[x] = base.content[x] THEN NoHash ELSE base.content[x]
      BY <1>5, <2>3, <2>4, <2>6, <3>1
    <3>3. prior # NoHash <=> content[x] # base.content[x]
      BY <1>5, <3>2
    <3>4. FlagSays(x)'
      BY <1>2, <2>2, <3>2, <3>3 DEF FlagSays
    <3>5. QED
      BY <3>4
  <2>7. QED
    BY <1>4, <2>5, <2>6
<1>7. CASE CorrHash
  <2> DEFINE asked == {f \in Family : info.err[f] = "ok"}
             read == FullReads(asked)
             moved == Displaced(store, read, seen, pfx, content)
  <2>1. /\ info'.flag[x] <=> x \in moved \/ info.flag[x]
        /\ info'.prior[x] = IF x \in moved THEN store.ents[x].full ELSE info.prior[x]
        /\ phase = "windowed"
    BY <1>7 DEF CorrHash
  <2>2. read \in SUBSET Paths /\ \A f \in read : pfx[f] # NoHash
    BY <2>1 DEF FullReads, Family, Control
  <2>3. x \in asked /\ broken[x] = "ok"
    BY <1>2 DEF Reads, ErrorsTrue, Kept
  <2>4. x \in read <=> ~Hit(store, x, seen[x], pfx[x])
    BY <2>3 DEF FullReads, Hits
  <2>5. FlagSays(x)
    BY <1>2, <2>1 DEF FlagsTrue
  <2>6. x \in moved => x \in read
    BY DEF Displaced
  <2>7. x \in read => /\ Old(x) => (x \in moved <=> content[x] # base.content[x])
                      /\ New(x) => x \notin moved
    BY <1>2, <2>1, <2>2, Evident
  <2> HIDE DEF asked, read, moved
  <2>8. Old(x) => x \in read
    BY <1>5, <2>4 DEF Hit
  <2>9. x \in moved => content[x] # base.content[x] /\ store.ents[x].full = base.content[x]
    BY <1>4, <1>5, <2>6, <2>7
  <2>10. content[x] # base.content[x] => x \in moved \/ info.flag[x]
    BY <1>4, <2>5, <2>7, <2>8 DEF FlagSays
  <2>11. info'.flag[x] => content[x] # base.content[x] /\ info'.prior[x] = base.content[x]
    BY <2>1, <2>5, <2>9 DEF FlagSays
  <2>12. QED
    BY <1>2, <2>1, <2>10, <2>11 DEF FlagSays
<1>8. CASE ~CorrPrefix /\ ~CorrHash
  <2>1. store' = store /\ info' = info /\ (phase' = phase \/ (phase = "hashed" /\ phase' = "judged"))
    BY <1>1, <1>2, <1>8
       DEF Next, Pass, Open, DupPrefix, DupHash, Judge, SaveStore, Publish, Stop, Crash,
           Ended, vars, scan
  <2>2. FlagSays(x)
    BY <1>2, <2>1 DEF FlagsTrue
  <2>3. QED
    BY <1>2, <2>1, <2>2 DEF FlagSays, New
<1>9. QED
  BY <1>6, <1>7, <1>8

Memory ==
  /\ BaseTyped /\ BaseOlder /\ SinceBase /\ EvidenceLive
  /\ OneFailure => StoreFresh /\ BaseOnDisk /\ EvidenceKept /\ FlagsTrue

LEMMA MemoryInit == Init => Memory
<1> SUFFICES ASSUME Init PROVE Memory
  OBVIOUS
<1>1. /\ base = NoBase /\ runs = 0 /\ phase = "idle" /\ store = Closed
  BY DEF Init
<1>2. base.run = 0 /\ base.mod \in [Paths -> Nat]
  BY <1>1 DEF NoBase
<1>3. QED
  BY <1>1, <1>2, Empties
     DEF Memory, BaseTyped, BaseOlder, SinceBase, EvidenceLive, StoreFresh, BaseOnDisk, EvidenceKept, FlagsTrue, Follows

\* What a scan has of the scan before it, in memory and on disk, is what there
\* was: the base, the store's entries of it, and the evidence that replaces
\* those the scan has overwritten.
THEOREM WhatIsRemembered == Spec => []Memory
<1>1. ConflictsInv /\ InHand /\ Memory /\ [Next]_vars => Memory'
  <2> SUFFICES ASSUME ConflictsInv, InHand, Memory, [Next]_vars PROVE Memory'
    OBVIOUS
  <2>1. /\ Types /\ Control /\ Reads /\ WalkStands /\ BaseTyped /\ BaseOlder /\ SinceBase /\ EvidenceLive
    BY DEF ConflictsInv, InHand, Memory
  <2>2. (BaseTyped /\ BaseOlder /\ SinceBase /\ EvidenceLive)'
    BY <2>1, BaseStep, SinceBaseStep, EvidenceLiveStep
  <2>3. ASSUME OneFailure' PROVE (StoreFresh /\ BaseOnDisk /\ EvidenceKept /\ FlagsTrue)'
    <3>1. OneFailure
      BY <2>1, <2>3, TypesStep, Counted DEF OneFailure, Types, ScanTyped
    <3>2. Gens /\ StoreFresh /\ BaseOnDisk /\ EvidenceKept /\ FlagsTrue
      BY <3>1 DEF ConflictsInv, Memory
    <3>3. QED
      BY <2>1, <3>2, StoreFreshStep, BaseOnDiskStep, EvidenceKeptStep, FlagsTrueStep
  <2>4. QED
    BY <2>2, <2>3 DEF Memory
<1>2. QED
  BY MemoryInit, <1>1, ConflictsInvariant, WhatIsInHand, PTL DEF Spec

\* A file that rotted since the base is the only one of its family that history
\* is held against, and what it held is what the sound copy holds.
LEMMA RotAtHand ==
  ASSUME ConflictsInv, InHand, Memory, OneFailure, Judged, Follows,
         NEW f \in Family, NEW g \in Kin(f) \ {f}, NEW what \in {"flip", "zero"},
         base.content[g] = base.content[f], content[g] = base.content[g], Same(f), Same(g),
         past = {[f |-> f, what |-> what]}, broken[f] = "ok", broken[g] = "ok",
         \A h \in Kin(f) : broken[h] # "eio",
         checks => \A h \in Kin(f) \ {f} : ~Damage(content[h])
  PROVE  RotIn(Conflict(Kin(f)), f, g) /\ f \in DOMAIN rows
<1>1. /\ Types /\ Control /\ Reads /\ WalkStands /\ ErrorsHold /\ SinceBase /\ FlagsTrue
      /\ phase = "judged" /\ f \in Paths /\ g \in Paths /\ Kin(f) \in SUBSET Paths /\ f \in Kin(f)
  BY DEF ConflictsInv, InHand, Memory, Judged, Family, Kin
<1>2. \A x \in Paths : seen[x] = mod[x] /\ ~Touched(x)
  <2> SUFFICES ASSUME NEW x \in Paths PROVE seen[x] = mod[x] /\ ~Touched(x)
    OBVIOUS
  <2>1. last[x] < runs /\ runs \in Nat /\ last[x] \in Nat /\ line = {runs}
    BY DEF Follows, Undisturbed, ConflictsInv, Types, FilesTyped, ScanTyped
  <2>2. Min(line) = runs
    BY <2>1, Least
  <2>3. ~Touched(x)
    BY <2>1, <2>2 DEF Touched
  <2>4. QED
    BY <1>1, <2>1, <2>3 DEF WalkStands
<1>3. Kin(f) \subseteq Family
  BY <1>1 DEF Kin, Family
<1>4. \A x \in Kin(f) : info.err[x] \in {"ok", "denied"}
  <2>1. \A x \in Kin(f) : info.err[x] \in {"ok", broken[x]} /\ broken[x] \in {"ok", "denied"}
    BY <1>1 DEF ErrorsHold, Types, FilesTyped, Errors
  <2>2. QED
    BY <2>1
<1>5. \A x \in Kin(f) : info.err[x] = "ok" => info.hash[x] = content[x] /\ broken[x] = "ok"
  BY <1>1, <1>2, <1>3, UntouchedHolds
<1>6. info.err[f] = "ok" /\ info.err[g] = "ok"
  BY <1>1 DEF Reads, ErrorsTrue
<1>7. \A x \in Kin(f) : broken[x] = "ok" /\ Same(x) => Kept(x)
  <2> SUFFICES ASSUME NEW x \in Kin(f), broken[x] = "ok", Same(x) PROVE Paired(x)
    BY DEF Kept
  <2>1. base.mod[x] = base.mod[f] /\ base.mod[g] = base.mod[f]
    BY <1>1, <1>2 DEF Same, Kin
  <2>2. QED
    BY <1>1, <2>1 DEF Paired
<1>8. \A x \in Kin(f) : Kept(x) => FlagSays(x)
  BY <1>1, <1>3 DEF FlagsTrue
<1>9. Rotten(content[f], base.content[f], what)
  BY <1>1 DEF SinceBase, Follows
<1>10. content[f] # base.content[f] /\ content[f] # content[g]
  BY <1>9 DEF Rotten
<1>11. info.flag[f] /\ info.prior[f] = content[g]
  BY <1>1, <1>7, <1>8, <1>10 DEF FlagSays
<1> DEFINE c == Conflict(Kin(f))
<1>12. /\ DOMAIN c.hash = Kin(f)
       /\ \A x \in Kin(f) : /\ c.err[x] = info.err[x] /\ c.hash[x] = info.hash[x] /\ c.now[x] = content[x]
                            /\ c.prior[x] = info.prior[x] /\ c.flag[x] = info.flag[x]
                            /\ broken[x] = "ok" => c.open[x]
                            /\ broken[x] = "ok" /\ mod[x] = seen[x] => c.stands[x]
       /\ c.checks = checks
  BY DEF Conflict
<1>13. \A x \in Changed(c) : x \in Kin(f) /\ info.flag[x] /\ info.err[x] = "ok"
  <2> HIDE DEF c
  <2>1. QED
    BY <1>12 DEF Changed
<1>14. \A x \in Changed(c) : x \in quiet
  BY HistoryHolds DEF HistoryTrue, ConflictsInv
<1> HIDE DEF c
<1>15. ASSUME NEW x \in Changed(c) PROVE x = f
  <2> SUFFICES ASSUME x # f PROVE FALSE
    OBVIOUS
  <2>1. NoEvent(x)
    BY DEF NoEvent
  <2>2. x \in Kin(f) /\ info.flag[x] /\ broken[x] = "ok" /\ x \in quiet
    BY <1>5, <1>13, <1>14
  <2>3. Same(x) /\ content[x] = base.content[x]
    BY <1>1, <2>1, <2>2 DEF SinceBase, Follows
  <2>4. QED
    BY <1>7, <1>8, <2>2, <2>3 DEF FlagSays
<1>16. f \in Changed(c)
  BY <1>1, <1>2, <1>6, <1>11, <1>12 DEF Changed
<1>17. Changed(c) = {f}
  BY <1>15, <1>16
<1>18. Variants(c) >= 2
  <2>1. info.hash[f] = content[f] /\ info.hash[g] = content[g]
    BY <1>1, <1>5, <1>6
  <2>2. content[f] # NoHash /\ content[g] # NoHash
    BY <1>1, ContentSays DEF Types, FilesTyped
  <2>3. QED
    BY <1>1, <1>6, <1>10, <2>1, <2>2, TwoVariants DEF c
<1>19. f \in DOMAIN rows
  BY <1>1, <1>18 DEF InHand, RowsTrue, c, Judged
<1>20. Judgeable(c)
  BY <1>19, FamilyJudged DEF c
<1>21. /\ f \in DOMAIN c.hash /\ g \in DOMAIN c.hash \ {f} /\ c.prior[f] = c.now[g]
       /\ c.err[f] = "ok" /\ c.err[g] = "ok" /\ c.stands[f]
       /\ \E w \in {"flip", "zero"} : Rotten(c.now[f], c.now[g], w)
  <2>1. f \in Kin(f) /\ g \in Kin(f) /\ g # f /\ mod[f] = seen[f] /\ Rotten(content[f], content[g], what)
    BY <1>1, <1>2, <1>9
  <2>2. /\ c.prior[f] = content[g] /\ c.now[f] = content[f] /\ c.now[g] = content[g] /\ c.stands[f]
        /\ c.err[f] = "ok" /\ c.err[g] = "ok"
    BY <1>6, <1>11, <1>12, <2>1
  <2>3. QED
    BY <1>12, <2>1, <2>2
<1>22. \A x \in DOMAIN c.hash : /\ c.err[x] \in {"ok", "denied"}
                                /\ c.err[x] = "ok" => c.hash[x] = c.now[x] /\ c.open[x]
                                /\ c.checks /\ x # f => ~Damage(c.now[x])
  BY <1>4, <1>5, <1>12
<1>23. QED
  BY <1>17, <1>19, <1>20, <1>21, <1>22 DEF RotIn, c

\* With one failed write at most: a file that lost a bit or a run of its bytes
\* between two scans that nothing disturbed is convicted, and the copy that still
\* holds what it held is not (corrupt.go, priorContentChanged and judgePast).
THEOREM RotIsConvicted == Spec => [](OneFailure => RotConvicted)
<1>1. ConflictsInv /\ InHand /\ Memory => (OneFailure => RotConvicted)
  <2> SUFFICES ASSUME ConflictsInv, InHand, Memory, OneFailure, Judged,
                      base.run = runs - 1, runs > 1, line = {runs}, Undisturbed, Cardinality(quiet) <= ChangedMax,
                      NEW f \in Family, NEW g \in Kin(f) \ {f}, NEW what \in {"flip", "zero"},
                      base.content[g] = base.content[f], content[g] = base.content[g],
                      base.mod[f] = mod[f], base.mod[g] = mod[g],
                      past = {[f |-> f, what |-> what]}, broken[f] = "ok", broken[g] = "ok",
                      \A h \in Kin(f) : broken[h] # "eio",
                      checks => \A h \in Kin(f) \ {f} : ~Damage(content[h])
               PROVE  rows[f].v = "corrupt" /\ rows[g].v = "intact"
    BY DEF RotConvicted
  <2>1. runs \in Nat
    BY DEF ConflictsInv, Types, ScanTyped
  <2>2. Follows /\ Same(f) /\ Same(g)
    BY <2>1 DEF Follows, Same
  <2>3. RotIn(Conflict(Kin(f)), f, g) /\ f \in DOMAIN rows
    BY <2>2, RotAtHand
  <2>4. f \in Kin(f) /\ \A h \in Kin(f) : rows[h] = JudgeSet(Conflict(Kin(f)))[h]
    BY <2>3, FamilyJudged
  <2>5. QED
    BY <2>3, <2>4, RotJudged
<1>2. QED
  BY <1>1, ConflictsInvariant, WhatIsInHand, WhatIsRemembered, PTL
=============================================================================
