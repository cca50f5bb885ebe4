------------------------------ MODULE HashStore ------------------------------
(***************************************************************************)
(* The store of full-content hashes (hashcache.go).  Within one scan it    *)
(* saves a second read of what the scan has read; across scans it is only  *)
(* history: what a path held when it had the same size and modified time.  *)
(* The generation tells the two apart.                                     *)
(*                                                                         *)
(* All files of a model have one size, so that an entry is compared by its *)
(* time alone, and a path is its own bucket and tag.  A hash is the        *)
(* content it is of, a sequence; its first element is the prefix.          *)
(***************************************************************************)
EXTENDS Integers, Sequences, FiniteSets

CONSTANTS
  Paths,       \* the files, in path order
  ChangedMax   \* changedMax: how many paths the evidence set can hold

ASSUME StoreAssumption == Paths \subseteq Nat /\ IsFiniteSet(Paths) /\ ChangedMax \in Nat

NoHash == <<>>
NoEntry == [mod |-> 0, pfx |-> NoHash, full |-> NoHash, gen |-> 0, scan |-> 0]
EmptyDisk == [gen |-> 0, ents |-> [f \in Paths |-> NoEntry]]
Closed == [gen |-> 0, ents |-> [f \in Paths |-> NoEntry], changed |-> [f \in Paths |-> NoHash]]

\* loadHashCache: the scan that is starting has the next generation.
LoadSame(disk) ==
  [gen |-> IF disk.gen = 0 THEN 1 ELSE disk.gen,
   ents |-> disk.ents, changed |-> [f \in Paths |-> NoHash]]

Load(disk) ==
  [gen |-> disk.gen + 1, ents |-> disk.ents, changed |-> [f \in Paths |-> NoHash]]

\* loadHashCacheResume: the generation of the run that died is taken up
\* again; 0 says that it died before it opened the store.
LoadResume(disk, gen) ==
  IF gen = 0 THEN Load(disk) ELSE [Load(disk) EXCEPT !.gen = gen]

\* Entry e was made at the walked time mod.
SameTime(e, mod) == e # NoEntry /\ e.mod = mod

\* lookup: only what was read in this scan is served.
HitOfAnyScan(c, f, mod, pfx) == SameTime(c.ents[f], mod) /\ c.ents[f].pfx = pfx
Hit(c, f, mod, pfx) ==
  SameTime(c.ents[f], mod) /\ c.ents[f].gen = c.gen /\ c.ents[f].pfx = pfx

\* Entry e is history for generation gen: two walks saw the same time.
History(e, gen, mod) == SameTime(e, mod) /\ e.gen # gen

\* record, for the files of S: the entries whose overwriting destroys
\* evidence, and the store after it.  The evidence set takes what fits.
Displaced(c, S, mod, pfx, full) ==
  {f \in S : /\ History(c.ents[f], c.gen, mod[f])
             /\ <<c.ents[f].pfx, c.ents[f].full>> # <<pfx[f], full[f]>>}

Room(c) == ChangedMax - Cardinality({f \in Paths : c.changed[f] # NoHash})
Fitting(c, moved) ==
  {K \in SUBSET moved : Cardinality(K) = IF Cardinality(moved) > Room(c) THEN Room(c)
                                         ELSE Cardinality(moved)}

Record(c, S, mod, pfx, full, scan, kept) ==
  [c EXCEPT
    !.ents = [f \in Paths |->
                IF f \notin S THEN @[f]
                ELSE [mod |-> mod[f], pfx |-> pfx[f], full |-> full[f], gen |-> c.gen, scan |-> scan]],
    !.changed = [f \in Paths |-> IF f \in kept THEN c.ents[f].full ELSE @[f]]]

\* priorContentChanged: the content f had at the time mod in an earlier
\* scan, when it is known to have been another one.  The evidence set
\* answers for what this scan has overwritten, the entry for the rest.
PriorInEntry(c, f, mod, pfx) ==
  IF History(c.ents[f], c.gen, mod) /\ c.ents[f].pfx # pfx THEN c.ents[f].full ELSE NoHash

Prior(c, f, mod, pfx) ==
  IF c.changed[f] # NoHash THEN c.changed[f] ELSE PriorInEntry(c, f, mod, pfx)

\* save and saveMid, when the write succeeds.
SavedUnderOldGen(c, disk) == [gen |-> disk.gen, ents |-> c.ents]
Saved(c, disk) == [gen |-> c.gen, ents |-> c.ents]
=============================================================================
