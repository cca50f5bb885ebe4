------------------------------ MODULE Duplicates ------------------------------
(***************************************************************************)
(* The duplicates pass of one content scan (stream.go, duplicates.go): the *)
(* walk feeds a bounded key counter and a spill file, the collision        *)
(* candidates are distilled and taken one window at a time, a key too      *)
(* large for a window goes down a ladder that splits it by content, and    *)
(* the groups found go through a bounded heap to a capped listing.         *)
(*                                                                         *)
(* A file is its place in the walk, which is also its place in the order   *)
(* of paths.  A content is a size, the hash of its first 64 KiB and the    *)
(* hash of the whole; the candidate key is the size.  While the scan runs, *)
(* a file may be rewritten under it or become unreadable.  The nested      *)
(* loops of the code are a stack of tasks, the innermost on top.           *)
(***************************************************************************)
EXTENDS Integers, Sequences, FiniteSets, FiniteSetsExt, SequencesExt

CONSTANTS
  Contents,     \* records [size, pfx, full]; full determines the record
  Trees,        \* the trees to scan: sequences of contents
  ExactMax,     \* keyCounterExactMax
  TableSize,    \* slots of the table the counter degrades to
  Mix,          \* the second slot of a key, as the mixing function gives it
  WindowFiles,  \* dupWindowFiles
  KeyCap,       \* dupKeyFileCap
  WindowMax,    \* dupWindowMax
  FileCap,      \* dupFileCap: the ceiling of a group and of the listing
  MaxTouched    \* bound: files rewritten or broken during the scan

Keys == {c.size : c \in Contents}

ASSUME ContentsAssumption ==
  /\ \A c \in Contents : c.size \in Nat \ {0} /\ c.pfx \in Nat /\ c.full \in Nat
  /\ \A c, d \in Contents : c.full = d.full => c = d
  /\ Trees \subseteq Seq(Contents)

ASSUME BoundsAssumption ==
  /\ {ExactMax, TableSize, WindowFiles, KeyCap, WindowMax, FileCap} \subseteq Nat \ {0}
  /\ Mix \in [Keys -> Nat]
  /\ MaxTouched \in Nat

VARIABLES
  content,    \* what each file holds now
  broken,     \* files whose content cannot be read
  touched,    \* the files that were rewritten or broken since the walk began
  walked,     \* the spill: the size the walk saw of each file, so far
  exact,      \* the counter's map, while it is exact
  tab,        \* the counter's table, once it is not
  cand,       \* the candidate spill
  work,       \* the stack of tasks
  cache,      \* full hashes read in this scan, with the prefix they go with
  acc,        \* groupTop: the groups kept so far
  dropG,      \* groupTop.droppedGroups
  dropF,      \* groupTop.droppedFiles
  out,        \* the listing, or Pending
  found,      \* history: every group that was handed to the accumulator
  passed      \* history: the files noted as never grouped

disk == <<content, broken, touched>>
counter == <<exact, tab>>
heap == <<acc, dropG, dropF, found>>
vars == <<disk, walked, counter, cand, work, cache, heap, out, passed>>

Pending == [groups |-> <<>>, dropG |-> -1, dropF |-> -1]
None == [pfx |-> -1, full |-> -1]

Files == 1..Len(content)
Degraded == Len(tab) > 0
First(S, n) == {f \in S : Cardinality({g \in S : g < f}) < n}
Ascending(S) ==
  CHOOSE s \in [1..Cardinality(S) -> S] : \A i, j \in DOMAIN s : i < j => s[i] < s[j]
Tasks(seq, Task(_)) == [i \in DOMAIN seq |-> Task(seq[i])]

Init ==
  /\ content \in Trees
  /\ broken = {} /\ touched = {}
  /\ walked = <<>>
  /\ exact = [k \in Keys |-> 0] /\ tab = <<>>
  /\ cand = {} /\ work = <<[do |-> "walk"]>>
  /\ cache = [f \in Files |-> None]
  /\ acc = {} /\ dropG = 0 /\ dropF = 0 /\ found = <<>> /\ passed = {}
  /\ out = Pending

-----------------------------------------------------------------------------
(* The key counter: exact up to ExactMax keys, then a table in which every *)
(* key owns two saturating two-bit slots.                                  *)

Saturated(n) == IF n < 2 THEN n + 1 ELSE n
BumpAt(t, p) == [t EXCEPT ![p] = Saturated(@)]
SlotA(k) == 1 + (k % TableSize)
SlotB(k) == 1 + (Mix[k] % TableSize)
Bump(t, k) == BumpAt(BumpAt(t, SlotA(k)), SlotB(k))

\* The table that takes over from the counts e: each key bumps its slots once,
\* and once more if it was counted twice.  A slot counts what reaches it, to two.
Marks(e, p) ==
  {m \in [key : Keys, slot : {"a", "b"}, bump : 1..2] :
     m.bump <= e[m.key] /\ p = IF m.slot = "a" THEN SlotA(m.key) ELSE SlotB(m.key)}

UpToTwo(S) == IF S = {} THEN 0 ELSE IF \E x \in S : S = {x} THEN 1 ELSE 2

DegradeOnce(e) ==
  [p \in 1..TableSize |-> UpToTwo({m \in Marks(e, p) : m.bump = 1})]

Degrade(e) == [p \in 1..TableSize |-> UpToTwo(Marks(e, p))]

Count(k) ==
  IF Degraded THEN tab' = Bump(tab, k) /\ UNCHANGED exact
  ELSE LET e == [exact EXCEPT ![k] = Saturated(@)]
       IN  /\ exact' = e
           /\ tab' = IF Cardinality({j \in Keys : e[j] > 0}) > ExactMax THEN Degrade(e) ELSE tab

Hot(k) == IF Degraded THEN tab[SlotA(k)] >= 2 /\ tab[SlotB(k)] >= 2 ELSE exact[k] >= 2

-----------------------------------------------------------------------------
(* The tree under the scan.                                                *)

\* A file that is touched before its content is first asked for might as
\* well be touched at the end of the walk.
Touch(f) ==
  /\ work # <<>> /\ Head(work).do # "walk"
  /\ Cardinality(touched) < MaxTouched
  /\ touched' = touched \cup {f}
  /\ UNCHANGED <<walked, counter, cand, work, cache, heap, out, passed>>

\* A file is rewritten at its size.  One that gets another size has the hash
\* of nothing it is compared with: it groups no more than an unreadable one.
Rewrite ==
  \E f \in Files, c \in Contents :
    /\ Touch(f)
    /\ c # content[f] /\ c.size = content[f].size
    /\ content' = [content EXCEPT ![f] = c]
    /\ UNCHANGED broken

Break ==
  \E f \in Files \ broken :
    /\ Touch(f)
    /\ broken' = broken \cup {f}
    /\ UNCHANGED content

-----------------------------------------------------------------------------
(* The steps of the pass.                                                  *)

Doing(name) == work # <<>> /\ Head(work).do = name
Then(tasks) == work' = tasks \o Tail(work)

\* noteSkipped: files the listing does not account for otherwise.
Note(S) == dropF' = dropF + Cardinality(S) /\ passed' = passed \cup S

Parts(n) == IF n > WindowFiles THEN (n + WindowFiles - 1) \div WindowFiles ELSE 1
InPart(t, p, parts) == parts <= 1 \/ t % parts = p
PartTasks(parts, Task(_)) == [i \in 1..parts |-> Task(i - 1)]

\* The tags of the records in S that hold more than cap of them.
Over(S, tag, cap) ==
  {t \in {tag[f] : f \in S} : Cardinality({f \in S : tag[f] = t}) > cap}

WindowTask(parts) == [p \in 1..parts |-> [do |-> "window", part |-> p - 1, parts |-> parts]]
\* Fewer than two files compare with nothing.
CompareTask(S) == IF Cardinality(S) < 2 THEN <<>> ELSE <<[do |-> "compare", files |-> S]>>

Walk ==
  /\ Doing("walk")
  /\ LET f == Len(walked) + 1
     IN  IF f \in Files
         THEN /\ walked' = Append(walked, content[f].size)
              /\ Count(content[f].size)
              /\ UNCHANGED <<cand, work>>
         ELSE /\ cand' = {g \in Files : Hot(walked[g])}
              /\ Then(WindowTask(Parts(Cardinality(cand'))))
              /\ exact' = [k \in Keys |-> 0] /\ tab' = <<>>
              /\ UNCHANGED walked
  /\ UNCHANGED <<disk, cache, heap, out, passed>>

\* One partition of the candidate keys.  A key over the cap is left out of
\* the window and taken down the ladder after it.
Window ==
  /\ Doing("window")
  /\ LET t == Head(work)
         S == {f \in cand : InPart(walked[f], t.part, t.parts)}
         over == Over(S, walked, KeyCap)
         fit == {f \in S : walked[f] \notin over}
         win == First(fit, WindowMax)
     IN  /\ Note(fit \ win)
         /\ Then(CompareTask(win)
                 \o Tasks(Ascending(over), LAMBDA k : [do |-> "skew", key |-> k]))
  /\ UNCHANGED <<disk, walked, counter, cand, cache, acc, dropG, found, out>>

\* resolveSkewedKey, the first rung: every file of the key is tagged with
\* its prefix.  An unreadable one is counted here, for good.
Skew ==
  /\ Doing("skew")
  /\ LET S == {f \in cand : walked[f] = Head(work).key}
         sub == [f \in S \ broken |-> content[f].pfx]
         parts == Parts(Cardinality(DOMAIN sub))
     IN  /\ Note(S \cap broken)
         /\ Then(PartTasks(parts, LAMBDA p : [do |-> "prefix", tags |-> sub, part |-> p, parts |-> parts]))
  /\ UNCHANGED <<disk, walked, counter, cand, cache, acc, dropG, found, out>>

DeepTask(S) == [do |-> "deep", files |-> S]

\* One partition of the prefixes: a window, and the prefixes over the cap
\* further down.  A partition that does not fit is taken down whole.
PrefixAgain(t, S, over, fit) ==
  IF Cardinality(fit) > WindowMax THEN <<t>>
  ELSE CompareTask(fit)
       \o Tasks(Ascending(over), LAMBDA x : DeepTask({f \in S : t.tags[f] = x}))

PrefixDropping(t, S, over, fit) ==
  CompareTask(First(fit, WindowMax))
  \o Tasks(Ascending(over), LAMBDA x : DeepTask({f \in S : t.tags[f] = x}))

PrefixTasks(t, S, over, fit) ==
  IF Cardinality(fit) > WindowMax THEN <<DeepTask(S)>>
  ELSE CompareTask(fit)
       \o Tasks(Ascending(over), LAMBDA x : DeepTask({f \in S : t.tags[f] = x}))

Prefix ==
  /\ Doing("prefix")
  /\ LET t == Head(work)
         S == {f \in DOMAIN t.tags : InPart(t.tags[f], t.part, t.parts)}
         over == Over(S, t.tags, KeyCap)
         fit == {f \in S : t.tags[f] \notin over}
     IN  Then(PrefixTasks(t, S, over, fit))
  /\ UNCHANGED <<disk, walked, counter, cand, cache, heap, out, passed>>

\* The full hash of f, whose prefix was just read as p: the store answers
\* for what this scan has read, and the file is read otherwise.
Hit(f, p) == cache[f].pfx = p
FullOf(f, p) == IF Hit(f, p) THEN cache[f].full ELSE content[f].full

\* The store after the files of S were asked for, their prefixes being p.
Recorded(S, p) ==
  [f \in Files |-> IF f \in S /\ ~Hit(f, p[f])
                   THEN [pfx |-> p[f], full |-> content[f].full] ELSE cache[f]]

\* resolveSkewedPrefix: every file is tagged with its full hash.
Deep ==
  /\ Doing("deep")
  /\ LET S == Head(work).files
         pfx == [f \in S \ broken |-> content[f].pfx]
         full == [f \in S \ broken |-> FullOf(f, pfx[f])]
         parts == Parts(Cardinality(DOMAIN full))
     IN  /\ Note(S \cap broken)
         /\ cache' = Recorded(DOMAIN full, pfx)
         /\ Then(PartTasks(parts, LAMBDA p : [do |-> "bucket", tags |-> full, part |-> p, parts |-> parts]))
  /\ UNCHANGED <<disk, walked, counter, cand, acc, dropG, found, out>>

SliceTask(S) == [do |-> "slice", files |-> S]

\* The tags taken one at a time after the window: those over the cap or,
\* when the partition did not fit, every tag of it instead.
SlicesTwice(over, tags, crowded) ==
  IF crowded THEN Ascending(over) \o Ascending(tags) ELSE Ascending(over)

Slices(over, tags, crowded) == Ascending(IF crowded THEN tags ELSE over)

\* One partition of the full hashes: a tag is one group from here on.
Bucket ==
  /\ Doing("bucket")
  /\ LET t == Head(work)
         S == {f \in DOMAIN t.tags : InPart(t.tags[f], t.part, t.parts)}
         over == Over(S, t.tags, FileCap)
         fit == {f \in S : t.tags[f] \notin over}
         crowded == Cardinality(fit) > WindowMax
     IN  Then(CompareTask(IF crowded THEN {} ELSE fit)
              \o Tasks(Slices(over, {t.tags[f] : f \in S}, crowded),
                       LAMBDA x : SliceTask({f \in S : t.tags[f] = x})))
  /\ UNCHANGED <<disk, walked, counter, cand, cache, heap, out, passed>>

\* One tag, cut at the ceiling of a group.
Slice ==
  /\ Doing("slice")
  /\ LET S == Head(work).files
         kept == First(S, FileCap)
     IN  Note(S \ kept) /\ Then(CompareTask(kept))
  /\ UNCHANGED <<disk, walked, counter, cand, cache, acc, dropG, found, out>>

\* dupWindow, pass 1: the prefixes of the files whose size another file of
\* the window has; an unreadable file groups with nothing.
Compare ==
  /\ Doing("compare")
  /\ LET S == Head(work).files
         pending == {f \in S : \E g \in S \ {f} : walked[g] = walked[f]} \ broken
         pfx == [f \in pending |-> content[f].pfx]
         same(f, g) == walked[f] = walked[g] /\ pfx[f] = pfx[g]
         left == {f \in pending : \E g \in pending \ {f} : same(f, g)}
     IN  Then(IF left = {} THEN <<>> ELSE <<[do |-> "hash", pfx |-> [f \in left |-> pfx[f]]]>>)
  /\ UNCHANGED <<disk, walked, counter, cand, cache, heap, out, passed>>

\* dupWindow, pass 2: full hashes, and the groups of two or more.
Hash ==
  /\ Doing("hash")
  /\ LET pfx == Head(work).pfx
         read == {f \in DOMAIN pfx : Hit(f, pfx[f]) \/ f \notin broken}
         full == [f \in read |-> FullOf(f, pfx[f])]
         class(f) == {g \in read : walked[g] = walked[f] /\ full[g] = full[f]}
         groups == {[size |-> walked[f], hash |-> full[f],
                     files |-> First(class(f), FileCap),
                     extra |-> Cardinality(class(f) \ First(class(f), FileCap))] :
                      f \in {g \in read : Cardinality(class(g)) >= 2}}
     IN  /\ cache' = Recorded(read, pfx)
         /\ Then(IF groups = {} THEN <<>> ELSE <<[do |-> "add", groups |-> groups]>>)
  /\ UNCHANGED <<disk, walked, counter, cand, heap, out, passed>>

-----------------------------------------------------------------------------
(* The bounded accumulator and the listing.                                *)

Weight(g) == g.size * (Cardinality(g.files) - 1) + g.size * g.extra
Members(g) == Cardinality(g.files) + g.extra

\* betterGroup: the order of the listing.
Better(a, b) ==
  \/ Weight(a) > Weight(b)
  \/ Weight(a) = Weight(b) /\ a.hash < b.hash
  \/ Weight(a) = Weight(b) /\ a.hash = b.hash /\ Min(a.files) < Min(b.files)

Limit == FileCap \div 2 + 1
Worst(S) == CHOOSE g \in S : \A h \in S \ {g} : Better(h, g)

KeepUnbounded(g) == acc \cup {g}
KeepFirst(g) == IF Cardinality(acc) < Limit THEN acc \cup {g} ELSE acc

\* groupTop.add: the groups kept once g is offered.
Keep(g) ==
  LET all == acc \cup {g}
  IN  IF Cardinality(acc) < Limit THEN all ELSE all \ {Worst(all)}

LostNewcomer(g) == ((acc \cup {g}) \ Keep(g)) \cap {g}
Lost(g) == (acc \cup {g}) \ Keep(g)

\* The groups of a window come in the order of a map: any order.
Add ==
  /\ Doing("add")
  /\ \E g \in Head(work).groups :
       LET rest == Head(work).groups \ {g}
       IN  /\ acc' = Keep(g)
           /\ dropG' = dropG + Cardinality(Lost(g))
           /\ dropF' = dropF + SumFunction([h \in Lost(g) |-> Members(h)])
           /\ found' = Append(found, g)
           /\ Then(IF rest = {} THEN <<>> ELSE <<[do |-> "add", groups |-> rest]>>)
  /\ UNCHANGED <<disk, walked, counter, cand, cache, out, passed>>

Stored(g) == Cardinality(g.files)
Total(gs) == SumFunction([i \in DOMAIN gs |-> Stored(gs[i])])

\* capCutIndex: stop before the first group that would push the total past
\* the budget; the first group always stays.
CutIndex(gs) ==
  LET past == {i \in 2..Len(gs) : Total(SubSeq(gs, 1, i)) > FileCap}
  IN  IF past = {} THEN Len(gs) ELSE Min(past) - 1

\* groupTop.sorted: the groups kept, best first.
Sorted(S) ==
  CHOOSE s \in [1..Cardinality(S) -> S] : \A i, j \in DOMAIN s : i < j => Better(s[i], s[j])

\* groupTop.final.
Final ==
  /\ work = <<>> /\ out = Pending
  /\ LET gs == Sorted(acc)
         cut == CutIndex(gs)
         extras == SumFunction([g \in acc |-> g.extra])
     IN  out' = [groups |-> SubSeq(gs, 1, cut),
                 dropG |-> dropG + Len(gs) - cut,
                 dropF |-> dropF + Total(gs) - Total(SubSeq(gs, 1, cut)) + extras]
  /\ UNCHANGED <<disk, walked, counter, cand, work, cache, heap, passed>>

Pass == Walk \/ Window \/ Skew \/ Prefix \/ Deep \/ Bucket \/ Slice \/ Compare \/ Hash \/ Add \/ Final
Next == Pass \/ Rewrite \/ Break

\* The scan's goroutine runs until the listing is there.
Spec == Init /\ [][Next]_vars /\ WF_vars(Pass)

-----------------------------------------------------------------------------
(* Properties.                                                             *)

Group == [size : Keys, hash : {c.full : c \in Contents},
          files : SUBSET Files, extra : Nat]

\* Types, and the bounds the daemon's memory rests on: the counter's map
\* is gone once it has passed its limit, and the heap never holds more
\* groups than the listing can keep.
TypeOK ==
  /\ content \in Seq(Contents) /\ broken \subseteq touched /\ touched \subseteq Files
  /\ walked \in Seq(Keys) /\ Len(walked) <= Len(content)
  /\ exact \in [Keys -> 0..2] /\ tab \in Seq(0..2)
  /\ Degraded \/ Cardinality({k \in Keys : exact[k] > 0}) <= ExactMax
  /\ cand \subseteq Files /\ passed \subseteq Files
  /\ \A f \in Files : cache[f] = None
       \/ cache[f] \in [pfx : {c.pfx : c \in Contents}, full : {c.full : c \in Contents}]
  /\ acc \subseteq Group /\ acc \subseteq Range(found) /\ found \in Seq(Group)
  /\ Cardinality(acc) <= Limit
  /\ dropG \in Nat /\ dropF \in Nat

\* However a key is split, no file is in two groups or both in a group and
\* noted as left out: "the same duplicate group under two ids,
\* double-counted reclaimable space" of duplicates.go:196-198.
OneGroupEach ==
  \A i, j \in DOMAIN found :
    /\ i # j => found[i].files \cap found[j].files = {}
    /\ found[i].files \cap passed = {}

Finished == out # Pending

\* No pair of equal files that nobody touched is lost between the counter,
\* the windows and the ladder, whatever happens to the files around them:
\* both are in one group, or one of them is in the count of what was left
\* out (stream.go:73-74, "It can never hide a real collision").
\* A group's own ceiling is the one cut that is not by file.
NothingLost ==
  Finished =>
    \A f, g \in Files \ touched : f # g /\ content[f] = content[g] =>
      \/ \E h \in Range(found) : {f, g} \subseteq h.files
      \/ {f, g} \cap passed # {}
      \/ \E h \in Range(found) : h.extra > 0 /\ h.hash = content[f].full

\* The truncation report is exact, under any rewriting and breaking of the
\* tree: what is listed and what is said to be left out add up to every
\* file that was grouped or noted (scan.go:796, "No cap here is ever
\* silent").
CountedOnce ==
  Finished =>
    /\ out.dropF + Total(out.groups)
         = SumFunction([i \in DOMAIN found |-> Members(found[i])]) + Cardinality(passed)
    /\ out.dropG + Len(out.groups) = Len(found)

\* The bounded heap loses nothing a full sort would have kept: the listing
\* is what sorting every group found and cutting at the budget gives,
\* whatever order the windows and the map delivered them in.
BestListed ==
  Finished =>
    LET upTo(g) == {h \in Range(found) : h = g \/ Better(h, g)}
    IN  Range(out.groups)
          = {g \in Range(found) : upTo(g) = {g} \/ SumFunction([h \in upTo(g) |-> Stored(h)]) <= FileCap}

\* The ladder always comes to its end.
Ends == <>Finished

\* "a group cut down to the cap is still the biggest thing on the volume,
\* and ranking it by its truncated length would let smaller groups displace
\* it from the results" (stream.go:619-622): nothing that frees less than a
\* group is listed before it.
WholeWeight(g) ==
  Weight(g) + g.size * Cardinality({f \in passed : content[f].full = g.hash})

RankedByWhole ==
  Finished /\ touched = {} /\ out.groups # <<>> =>
    \A g \in Range(found) : WholeWeight(g) <= WholeWeight(out.groups[1])
=============================================================================
