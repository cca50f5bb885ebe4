-------------------------- MODULE DuplicatesProofs --------------------------
(***************************************************************************)
(* Proofs about Duplicates for any tree, any contents, any limits and any  *)
(* rewriting of the tree under the scan: no file is in two groups, no pair *)
(* of equal files is lost between the counter and the groups, and the      *)
(* listing is the best of what was found and says what it leaves out.      *)
(***************************************************************************)
EXTENDS Duplicates, FiniteSetTheorems, SequenceTheorems, WellFoundedInduction, TLAPS

Prints  == {c.pfx : c \in Contents}
Fulls   == {c.full : c \in Contents}
Tagging == UNION {[S -> Nat] : S \in SUBSET Files}
Filled  == {g \in Group : g.files # {} /\ (FileCap >= 2 => \E x, y \in g.files : x # y)}

Task ==
  [do : {"walk"}]
    \cup [do : {"window"}, part : Nat, parts : Nat \ {0}]
    \cup [do : {"skew"}, key : Nat]
    \cup [do : {"prefix", "bucket"}, tags : Tagging, part : Nat, parts : Nat \ {0}]
    \cup [do : {"deep", "slice", "compare"}, files : SUBSET Files]
    \cup [do : {"hash"}, pfx : UNION {[S -> Prints] : S \in SUBSET Files}]
    \cup [do : {"add"}, groups : SUBSET Filled]

Read == [pfx : Prints, full : Fulls]

TreeTyped ==
  /\ content \in Seq(Contents) /\ broken \subseteq touched /\ touched \subseteq Files
  /\ walked \in Seq(Keys) /\ Len(walked) <= Len(content)
  /\ cand \subseteq Files /\ passed \subseteq Files
  /\ cache \in [Files -> Read \cup {None}]
CounterTyped ==
  /\ exact \in [Keys -> 0..2] /\ tab \in Seq(0..2) /\ Len(tab) \in {0, TableSize}
  /\ IsFiniteSet({k \in Keys : exact[k] > 0})
  /\ Degraded \/ Cardinality({k \in Keys : exact[k] > 0}) <= ExactMax
WorkTyped == work \in Seq(Task) /\ found \in Seq(Filled)
Types == TreeTyped /\ CounterTyped /\ WorkTyped

\* The walk comes first, alone and over a tree at rest, and the listing last;
\* what the walk noted of a file's size stays true.
Walking == \E i \in 1..Len(work) : work[i].do = "walk"
Control ==
  /\ Walking => /\ Len(work) = 1
                /\ touched = {} /\ passed = {} /\ found = <<>>
  /\ ~Walking => Len(walked) = Len(content)
  /\ Finished => work = <<>>
  /\ \A f \in 1..Len(walked) : walked[f] = content[f].size

\* The counter has counted every file of the walk, up to two of a key.
Reached(degraded, e, t, k, n) ==
  IF degraded THEN t[SlotA(k)] >= n /\ t[SlotB(k)] >= n ELSE e[k] >= n
AtLeast(k, n) == Reached(Degraded, exact, tab, k, n)
Counted ==
  Walking =>
    \A f \in 1..Len(walked) :
      /\ AtLeast(walked[f], 1)
      /\ \A g \in 1..Len(walked) : f # g /\ walked[f] = walked[g] => AtLeast(walked[f], 2)

\* The store's answer for a file that nobody touched is what it holds.
Answers ==
  \A f \in Files \ touched :
    cache[f] \in {None, [pfx |-> content[f].pfx, full |-> content[f].full]}

\* The file f is in the hands of task t.
Has(t, f) ==
  \/ t.do = "walk"
  \/ t.do = "window" /\ f \in cand /\ InPart(walked[f], t.part, t.parts)
  \/ t.do = "skew" /\ f \in cand /\ walked[f] = t.key
  \/ t.do \in {"prefix", "bucket"} /\ f \in DOMAIN t.tags /\ InPart(t.tags[f], t.part, t.parts)
  \/ t.do \in {"deep", "slice", "compare"} /\ f \in t.files
  \/ t.do = "hash" /\ f \in DOMAIN t.pfx
  \/ t.do = "add" /\ \E g \in t.groups : f \in g.files

\* The file f has been grouped, or noted as never grouped.
Settled(f) == f \in passed \/ \E i \in 1..Len(found) : f \in found[i].files

\* A file is in the hands of one task at most, of none once it is settled.
OneTask == \A f \in Files, i, j \in 1..Len(work) : Has(work[i], f) /\ Has(work[j], f) => i = j
Fresh == \A f \in Files, i \in 1..Len(work) : Has(work[i], f) => ~Settled(f)
Apart ==
  \A i \in 1..Len(work) : work[i].do = "add" =>
    \A g, h \in work[i].groups : g # h => g.files \cap h.files = {}

\* What a comparison read of a file that nobody touched is what it holds.
ReadRight ==
  \A i \in 1..Len(work) : work[i].do = "hash" =>
    \A f \in DOMAIN work[i].pfx : f \notin touched => work[i].pfx[f] = content[f].pfx

\* The group h has the pair f, g of equal files, or left some of its kind out.
Lists(h, f, g) == {f, g} \subseteq h.files \/ (h.extra > 0 /\ h.hash = content[f].full)

\* The task t has the pair f, g together, and will not part it.
Holds(t, f, g) ==
  /\ t.do # "add" => Has(t, f) /\ Has(t, g)
  /\ t.do \in {"prefix", "bucket"} => t.tags[f] = t.tags[g]
  /\ t.do = "add" => \E h \in t.groups : Lists(h, f, g)

Kept(f, g) ==
  \/ \E i \in 1..Len(work) : Holds(work[i], f, g)
  \/ {f, g} \cap passed # {}
  \/ \E i \in 1..Len(found) : Lists(found[i], f, g)

PairsKept ==
  \A f, g \in Files \ touched : f # g /\ content[f] = content[g] => Kept(f, g)

DupInv ==
  /\ Types /\ Control /\ Counted /\ Answers
  /\ OneTask /\ Fresh /\ Apart /\ ReadRight /\ OneGroupEach
  /\ PairsKept

-----------------------------------------------------------------------------
(* Numbers, parts and lists.                                               *)

LEMMA Constants ==
  /\ ExactMax \in Nat \ {0} /\ TableSize \in Nat \ {0} /\ WindowFiles \in Nat \ {0}
  /\ KeyCap \in Nat \ {0} /\ WindowMax \in Nat \ {0} /\ FileCap \in Nat \ {0}
  /\ Keys \subseteq Nat \ {0} /\ Prints \subseteq Nat /\ Fulls \subseteq Nat
  /\ None \notin Read
<1>1. Keys \subseteq Nat \ {0} /\ Prints \subseteq Nat /\ Fulls \subseteq Nat
  BY ContentsAssumption DEF Keys, Prints, Fulls
<1>2. None \notin Read
  BY <1>1 DEF None, Read
<1>3. QED
  BY <1>1, <1>2, BoundsAssumption

\* There is a part for everything, and only one.
LEMMA PartsSplit ==
  ASSUME NEW t \in Nat, NEW n \in Nat
  PROVE  /\ Parts(n) \in Nat \ {0}
         /\ \E p \in 1..Parts(n) : InPart(t, p - 1, Parts(n))
         /\ \A p, q \in 1..Parts(n) :
              InPart(t, p - 1, Parts(n)) /\ InPart(t, q - 1, Parts(n)) => p = q
<1>1. Parts(n) \in Nat \ {0}
  <2>1. ASSUME NEW W \in Nat \ {0}, n > W PROVE (n + W - 1) \div W \in Nat \ {0}
    BY <2>1
  <2>2. QED
    BY <2>1, Constants DEF Parts
<1> DEFINE m == Parts(n)
<1>2. ASSUME NEW k \in Nat \ {0} PROVE t % k \in 0..(k - 1)
  OBVIOUS
<1>3. t % m \in 0..(m - 1)
  BY <1>1, <1>2
<1> HIDE DEF m
<1>4. m \in Nat \ {0}
  BY <1>1 DEF m
<1>5. \E p \in 1..m : InPart(t, p - 1, m)
  <2>1. (t % m) + 1 \in 1..m /\ InPart(t, ((t % m) + 1) - 1, m)
    BY <1>3, <1>4 DEF InPart
  <2>2. QED
    BY <2>1
<1>6. \A p, q \in 1..m : InPart(t, p - 1, m) /\ InPart(t, q - 1, m) => p = q
  BY <1>3, <1>4 DEF InPart
<1>7. QED
  BY <1>1, <1>5, <1>6 DEF m

LEMMA FilesFinite ==
  ASSUME TreeTyped
  PROVE  Files \subseteq Nat \ {0} /\ IsFiniteSet(Files) /\ Len(content) \in Nat
<1>1. Len(content) \in Nat
  BY DEF TreeTyped
<1>2. IsFiniteSet(1..Len(content))
  BY <1>1, FS_Interval
<1>3. QED
  BY <1>1, <1>2 DEF Files

\* The least of a set of naturals, and the greatest of a finite one.
LEMMA LeastIn ==
  ASSUME NEW S \in SUBSET Nat, S # {}
  PROVE  \E x \in S : \A y \in S : x <= y
<1>1. \E x \in S : \A y \in S : ~(<<y, x>> \in OpToRel(<, Nat))
  BY WFMin, NatLessThanWellFounded, Zenon
<1>2. PICK x \in S : \A y \in S : ~(<<y, x>> \in OpToRel(<, Nat))
  BY <1>1, Zenon
<1>3. \A y \in S : ~(y < x)
  BY <1>2, Zenon DEF OpToRel
<1>4. QED
  BY <1>3

\* Any finite set of naturals can be listed in ascending order.
Listable(S) == \E s \in [1..Cardinality(S) -> S] : \A i, j \in DOMAIN s : i < j => s[i] < s[j]
LEMMA Sortable ==
  ASSUME NEW S \in SUBSET Nat, IsFiniteSet(S)
  PROVE  Listable(S)
<1> DEFINE Bad == {T \in SUBSET S : ~Listable(T)}
           Sizes == {Cardinality(T) : T \in Bad}
<1>1. \A T \in SUBSET S : IsFiniteSet(T) /\ Cardinality(T) \in Nat
  BY FS_Subset, FS_CardinalityType
<1> SUFFICES ASSUME Bad # {} PROVE FALSE
  OBVIOUS
<1>2. Sizes \in SUBSET Nat /\ Sizes # {}
  BY <1>1
<1>3. PICK T \in Bad : \A U \in Bad : Cardinality(T) <= Cardinality(U)
  <2> HIDE DEF Bad
  <2>1. PICK n \in Sizes : \A m \in Sizes : n <= m
    BY <1>2, LeastIn
  <2>2. QED
    BY <2>1
<1> DEFINE n == Cardinality(T)
<1>4. n \in Nat /\ IsFiniteSet(T) /\ T \subseteq Nat
  BY <1>1
<1>5. CASE T = {}
  <2>1. n = 0
    BY <1>5, FS_EmptySet
  <2> DEFINE s == [i \in 1..0 |-> 0]
  <2>2. s \in [1..n -> T] /\ \A i, j \in DOMAIN s : i < j => s[i] < s[j]
    BY <2>1
  <2>3. QED
    BY <2>2 DEF Listable
<1>6. CASE T # {}
  <2>1. PICK x \in T : \A y \in T : x <= y
    BY <1>4, <1>6, LeastIn
  <2> DEFINE U == T \ {x}
  <2>2. Cardinality(U) = n - 1 /\ n - 1 \in Nat
    <3>1. Cardinality(U) = n - 1 /\ Cardinality(U) \in Nat
      BY <1>4, FS_RemoveElement, FS_CardinalityType
    <3>2. QED
      BY <3>1
  <2>3. Listable(U)
    <3>1. U \in SUBSET S /\ ~(n <= Cardinality(U))
      BY <1>4, <2>2
    <3>2. QED
      BY <1>3, <3>1
  <2>4. PICK u \in [1..(n - 1) -> U] : \A i, j \in DOMAIN u : i < j => u[i] < u[j]
    BY <2>2, <2>3 DEF Listable
  <2> DEFINE s == [i \in 1..n |-> IF i = 1 THEN x ELSE u[i - 1]]
  <2>5. \A i \in 2..n : i - 1 \in 1..(n - 1) /\ s[i] = u[i - 1] /\ u[i - 1] \in U /\ x < u[i - 1]
    <3>1. ASSUME NEW i \in 2..n PROVE i \in 1..n /\ i # 1 /\ i - 1 \in 1..(n - 1)
      BY <1>4
    <3>2. \A i \in 1..(n - 1) : u[i] \in U /\ x < u[i]
      <4>1. \A y \in U : x < y
        BY <1>4, <2>1
      <4>2. QED
        BY <4>1
    <3>3. QED
      BY <3>1, <3>2
  <2>6. s \in [1..n -> T]
    BY <1>4, <2>5
  <2>7. ASSUME NEW i \in 1..n, NEW j \in 1..n, i < j PROVE s[i] < s[j]
    <3>1. j \in 2..n
      BY <1>4, <2>7
    <3>2. CASE i = 1
      BY <2>5, <3>1, <3>2
    <3>3. CASE i # 1
      <4>1. i \in 2..n /\ i - 1 < j - 1
        BY <1>4, <2>7, <3>3
      <4>2. QED
        BY <2>4, <2>5, <3>1, <4>1
    <3>4. QED
      BY <3>2, <3>3
  <2>8. QED
    BY <2>6, <2>7 DEF Listable
<1>7. QED
  BY <1>5, <1>6

\* Ascending lists each member of its set once.
LEMMA AscendingLists ==
  ASSUME NEW S \in SUBSET Nat, IsFiniteSet(S)
  PROVE  /\ Ascending(S) \in Seq(S)
         /\ \A i, j \in 1..Len(Ascending(S)) : Ascending(S)[i] = Ascending(S)[j] => i = j
         /\ \A x \in S : \E i \in 1..Len(Ascending(S)) : Ascending(S)[i] = x
<1> DEFINE s == Ascending(S)
           n == Cardinality(S)
<1>1. n \in Nat
  BY FS_CardinalityType
<1>2. s \in [1..n -> S] /\ \A i, j \in DOMAIN s : i < j => s[i] < s[j]
  BY Sortable DEF Ascending, Listable
<1> HIDE DEF s
<1>3. s \in Seq(S) /\ Len(s) = n
  <2>1. s \in Seq(S)
    BY <1>1, <1>2, SeqDef
  <2>2. QED
    BY <1>1, <1>2, <2>1
<1>4. ASSUME NEW i \in 1..n, NEW j \in 1..n, s[i] = s[j] PROVE i = j
  <2>1. i \in Nat /\ j \in Nat /\ s[i] \in Nat
    <3>1. s[i] \in S /\ S \subseteq Nat
      BY <1>2
    <3>2. i \in Nat /\ j \in Nat
      BY <1>1
    <3>3. QED
      BY <3>1, <3>2
  <2>2. ~(i < j) /\ ~(j < i)
    <3>1. DOMAIN s = 1..n /\ \A k, l \in DOMAIN s : k < l => s[k] < s[l]
      BY <1>2
    <3>2. QED
      BY <1>4, <2>1, <3>1
  <2>3. QED
    BY <2>1, <2>2
<1>5. IsFiniteSet(1..n) /\ Cardinality(1..n) = n
  <2>1. IsFiniteSet(1..n) /\ Cardinality(1..n) = IF 1 > n THEN 0 ELSE n - 1 + 1
    BY <1>1, FS_Interval
  <2>2. QED
    BY <1>1, <2>1
<1>6. s \in Injection(1..n, S)
  BY <1>2, <1>4 DEF Injection, IsInjective
<1>7. s \in Surjection(1..n, S)
  BY <1>5, <1>6, FS_Injection
<1>8. QED
  BY <1>3, <1>4, <1>7 DEF Surjection, s

\* The tags over a limit are tags of files there are, and finitely many.
LEMMA OverLists ==
  ASSUME TreeTyped, NEW S \in SUBSET Files, NEW tag, \A f \in S : tag[f] \in Nat, NEW cap
  PROVE  /\ Over(S, tag, cap) \in SUBSET Nat /\ IsFiniteSet(Over(S, tag, cap))
         /\ \A x \in Over(S, tag, cap) : \E f \in S : tag[f] = x
         /\ {tag[f] : f \in S} \in SUBSET Nat /\ IsFiniteSet({tag[f] : f \in S})
<1> DEFINE T == {tag[f] : f \in S}
           r == [f \in S |-> tag[f]]
<1>1. IsFiniteSet(S)
  BY FilesFinite, FS_Subset
<1>2. r \in Surjection(S, T)
  BY DEF Surjection
<1>3. IsFiniteSet(T)
  <2> HIDE DEF r, T
  <2>1. QED
    BY <1>1, <1>2, FS_Surjection
<1>4. T \in SUBSET Nat /\ \A x \in T : \E f \in S : tag[f] = x
  OBVIOUS
<1>5. Over(S, tag, cap) \in SUBSET T
  BY DEF Over
<1> HIDE DEF T
<1>6. IsFiniteSet(Over(S, tag, cap))
  BY <1>3, <1>5, FS_Subset
<1>7. QED
  BY <1>3, <1>4, <1>5, <1>6 DEF T

LEMMA FirstOfThem == ASSUME NEW S, NEW n PROVE First(S, n) \subseteq S
  BY DEF First

LEMMA SomeFirst ==
  ASSUME NEW S \in SUBSET Nat, S # {}, NEW n \in Nat \ {0}
  PROVE  First(S, n) # {}
<1>1. PICK x \in S : \A y \in S : x <= y
  BY LeastIn
<1>2. {g \in S : g < x} = {}
  <2>1. \A g \in S : ~(g < x)
    BY <1>1
  <2>2. QED
    BY <2>1
<1>3. Cardinality({g \in S : g < x}) = 0
  BY <1>2, FS_EmptySet
<1>4. x \in First(S, n)
  BY <1>3 DEF First
<1>5. QED
  BY <1>4

LEMMA TwoFirst ==
  ASSUME NEW S \in SUBSET Nat, NEW a \in S, NEW b \in S, a # b, NEW n \in Nat, n >= 2
  PROVE  \E x, y \in First(S, n) : x # y
<1>1. PICK x \in S : \A y \in S : x <= y
  BY LeastIn
<1>2. S \ {x} \in SUBSET Nat /\ S \ {x} # {}
  OBVIOUS
<1>3. PICK y \in S \ {x} : \A z \in S \ {x} : y <= z
  BY <1>2, LeastIn
<1>4. {g \in S : g < x} = {} /\ {g \in S : g < y} \subseteq {x}
  <2>1. \A g \in S : ~(g < x) /\ (g < y => g = x)
    BY <1>1, <1>3
  <2>2. QED
    BY <2>1
<1>5. Cardinality({g \in S : g < x}) = 0
  BY <1>4, FS_EmptySet
<1>6. Cardinality({g \in S : g < y}) <= 1 /\ Cardinality({g \in S : g < y}) \in Nat
  <2>1. IsFiniteSet({x}) /\ Cardinality({x}) = 1
    BY FS_Singleton
  <2>2. QED
    BY <1>4, <2>1, FS_Subset, FS_CardinalityType
<1>7. x \in First(S, n) /\ y \in First(S, n)
  <2>1. Cardinality({g \in S : g < x}) < n /\ Cardinality({g \in S : g < y}) < n
    BY <1>5, <1>6
  <2>2. QED
    BY <2>1 DEF First
<1>8. QED
  BY <1>7

LEMMA TwoInIt ==
  ASSUME NEW S, IsFiniteSet(S), NEW f \in S, NEW g \in S, f # g
  PROVE  Cardinality(S) \in Nat /\ Cardinality(S) >= 2
<1>1. Cardinality(S) \in Nat
  BY FS_CardinalityType
<1>2. IsFiniteSet({f}) /\ Cardinality({f}) = 1
  BY FS_Singleton
<1>3. Cardinality({f} \cup {g}) = 2
  BY <1>2, FS_AddElement
<1>4. {f} \cup {g} \in SUBSET S
  OBVIOUS
<1>5. Cardinality({f} \cup {g}) <= Cardinality(S)
  BY <1>4, FS_Subset
<1>6. QED
  BY <1>1, <1>3, <1>5

\* Two files make a comparison, fewer none.
LEMMA CompareTasks ==
  ASSUME TreeTyped, NEW S \in SUBSET Files
  PROVE  /\ CompareTask(S) \in Seq(Task) /\ Len(CompareTask(S)) \in {0, 1}
         /\ \A i \in 1..Len(CompareTask(S)) : CompareTask(S)[i] = [do |-> "compare", files |-> S]
         /\ \A f, g \in S : f # g => Len(CompareTask(S)) = 1
<1>1. IsFiniteSet(S) /\ Cardinality(S) \in Nat
  BY FilesFinite, FS_Subset, FS_CardinalityType
<1>2. ASSUME NEW f \in S, NEW g \in S, f # g PROVE Cardinality(S) >= 2
  BY <1>1, <1>2, TwoInIt
<1>3. [do |-> "compare", files |-> S] \in Task
  BY DEF Task
<1>4. CASE Cardinality(S) < 2
  <2>1. CompareTask(S) = <<>>
    BY <1>4 DEF CompareTask
  <2>2. \A f, g \in S : f = g
    BY <1>1, <1>2, <1>4
  <2>3. QED
    BY <2>1, <2>2
<1>5. CASE ~(Cardinality(S) < 2)
  <2>1. CompareTask(S) = <<[do |-> "compare", files |-> S]>>
    BY <1>5 DEF CompareTask
  <2>2. QED
    BY <1>3, <2>1
<1>6. QED
  BY <1>4, <1>5

\* What is on top of the stack when its task has been taken down into others.
LEMMA Stacked ==
  ASSUME NEW w \in Seq(Task), w # <<>>, NEW ts \in Seq(Task)
  PROVE  /\ Head(w) = w[1] /\ Head(w) \in Task /\ Len(w) \in Nat \ {0}
         /\ ts \o Tail(w) \in Seq(Task)
         /\ Len(ts \o Tail(w)) = Len(ts) + Len(w) - 1
         /\ \A i \in 1..Len(ts) : (ts \o Tail(w))[i] = ts[i]
         /\ \A i \in 2..Len(w) : /\ Len(ts) + i - 1 \in 1..Len(ts \o Tail(w))
                                 /\ (ts \o Tail(w))[Len(ts) + i - 1] = w[i]
         /\ \A i \in 1..Len(ts \o Tail(w)) :
              i \in 1..Len(ts) \/ (i - Len(ts) + 1 \in 2..Len(w) /\ (ts \o Tail(w))[i] = w[i - Len(ts) + 1])
<1>1. /\ Head(w) = w[1] /\ Head(w) \in Task /\ Len(w) \in Nat \ {0} /\ w[1] \in Task
      /\ Tail(w) \in Seq(Task) /\ Len(Tail(w)) = Len(w) - 1
      /\ \A i \in 1..(Len(w) - 1) : Tail(w)[i] = w[i + 1]
  BY HeadTailProperties, LenProperties
<1> DEFINE v == Tail(w)
<1>2. Len(ts) \in Nat /\ Len(v) \in Nat /\ v \in Seq(Task)
  BY <1>1
<1> HIDE DEF v
<1>3. /\ ts \o v \in Seq(Task) /\ Len(ts \o v) = Len(ts) + Len(v)
      /\ \A i \in 1..(Len(ts) + Len(v)) : (ts \o v)[i] = IF i <= Len(ts) THEN ts[i] ELSE v[i - Len(ts)]
  BY <1>2, ConcatProperties
<1>4. Len(v) = Len(w) - 1 /\ \A i \in 1..(Len(w) - 1) : v[i] = w[i + 1]
  BY <1>1 DEF v
<1> DEFINE x == ts \o v
           m == Len(ts)
           n == Len(w)
<1>5. /\ m \in Nat /\ n \in Nat \ {0} /\ Len(x) = m + n - 1
      /\ \A i \in 1..(m + n - 1) : x[i] = IF i <= m THEN ts[i] ELSE v[i - m]
  BY <1>1, <1>2, <1>3, <1>4
<1> HIDE DEF x, m, n
<1>6. \A i \in 1..m : x[i] = ts[i]
  BY <1>5
<1>7. ASSUME NEW i \in 2..n PROVE m + i - 1 \in 1..Len(x) /\ x[m + i - 1] = w[i]
  <2>1. m + i - 1 \in 1..(m + n - 1) /\ ~(m + i - 1 <= m) /\ (m + i - 1) - m = i - 1 /\ i - 1 \in 1..(n - 1)
    BY <1>5
  <2>2. v[i - 1] = w[(i - 1) + 1] /\ (i - 1) + 1 = i
    BY <1>4, <2>1 DEF n
  <2>3. QED
    BY <1>5, <2>1, <2>2
<1>8. ASSUME NEW i \in 1..Len(x), i \notin 1..m PROVE i - m + 1 \in 2..n /\ x[i] = w[i - m + 1]
  <2>1. i \in 1..(m + n - 1) /\ ~(i <= m) /\ i - m \in 1..(n - 1) /\ i - m + 1 \in 2..n
    BY <1>5, <1>8
  <2>2. v[i - m] = w[i - m + 1]
    BY <1>4, <2>1 DEF n
  <2>3. QED
    BY <1>5, <2>1, <2>2
<1>9. QED
  BY <1>1, <1>3, <1>5, <1>6, <1>7, <1>8 DEF x, v, m, n

-----------------------------------------------------------------------------
(* One task is taken down into others.                                     *)

\* The task on top of the stack gives way to ts: no file is in two of them, or
\* in one of them and settled, and a pair it held is held, settled or listed.
Down(ts) ==
  /\ work # <<>> /\ Head(work).do # "walk"
  /\ ts \in Seq(Task) /\ work' = ts \o Tail(work)
  /\ UNCHANGED <<disk, walked, counter, cand, out>>
  /\ \A i \in 1..Len(ts) :
       /\ ts[i].do # "walk"
       /\ ts[i].do = "add" => \A g, h \in ts[i].groups : g # h => g.files \cap h.files = {}
       /\ ts[i].do = "hash" =>
            \A f \in DOMAIN ts[i].pfx : f \notin touched => ts[i].pfx[f] = content[f].pfx
  /\ passed \subseteq passed' /\ passed' \subseteq Files
  /\ \A f \in passed' : f \in passed \/ Has(Head(work), f)
  /\ \/ found' = found
     \/ /\ passed' = passed /\ Head(work).do = "add"
        /\ \E g \in Head(work).groups : found' = Append(found, g)
  /\ \A f \in Files :
       /\ \A i \in 1..Len(ts) : Has(ts[i], f) => Has(Head(work), f) /\ ~Settled(f)'
       /\ \A i, j \in 1..Len(ts) : Has(ts[i], f) /\ Has(ts[j], f) => i = j
  /\ \A f, g \in Files \ touched :
       f # g /\ content[f] = content[g] /\ Holds(Head(work), f, g) =>
         \/ \E i \in 1..Len(ts) : Holds(ts[i], f, g)
         \/ {f, g} \cap passed' # {}
         \/ \E i \in 1..Len(found') : Lists(found'[i], f, g)

LEMMA HasSame ==
  ASSUME UNCHANGED <<cand, walked>>
  PROVE  \A t, f : Has(t, f)' <=> Has(t, f)
  BY DEF Has, InPart

LEMMA HoldsSame ==
  ASSUME UNCHANGED <<cand, walked, content>>
  PROVE  \A t, f, g : /\ Holds(t, f, g)' <=> Holds(t, f, g)
                      /\ Lists(t, f, g)' <=> Lists(t, f, g)
<1>1. \A t, f : Has(t, f)' <=> Has(t, f)
  BY HasSame
<1>2. \A t, f, g : Lists(t, f, g)' <=> Lists(t, f, g)
  BY DEF Lists
<1>3. QED
  BY <1>1, <1>2 DEF Holds

\* The list of groups found only grows.
LEMMA FoundGrows ==
  ASSUME NEW ts, Types, Down(ts)
  PROVE  /\ found' \in Seq(Filled) /\ Len(found) \in Nat
         /\ Len(found') \in Nat /\ Len(found') >= Len(found)
         /\ \A i \in 1..Len(found) : i \in 1..Len(found') /\ found'[i] = found[i]
         /\ \A i \in 1..Len(found') :
              i \in 1..Len(found) \/ ( /\ i = Len(found) + 1 /\ passed' = passed
                                       /\ Head(work).do = "add" /\ found'[i] \in Head(work).groups)
<1>1. found \in Seq(Filled) /\ Len(found) \in Nat
  BY DEF Types, WorkTyped
<1>2. CASE found' = found
  BY <1>1, <1>2
<1>3. ASSUME NEW g \in Head(work).groups, found' = Append(found, g), passed' = passed, Head(work).do = "add"
      PROVE  g \in Filled
  <2>1. Head(work) \in Task
    BY Stacked DEF Down, Types, WorkTyped
  <2>2. QED
    BY <1>3, <2>1 DEF Task
<1>4. CASE found' # found
  <2>1. PICK g \in Head(work).groups : found' = Append(found, g) /\ passed' = passed /\ Head(work).do = "add"
    BY <1>4 DEF Down
  <2>2. g \in Filled
    BY <1>3, <2>1
  <2>3. /\ found' \in Seq(Filled) /\ Len(found') = Len(found) + 1
        /\ \A i \in 1..Len(found) : found'[i] = found[i]
        /\ found'[Len(found) + 1] = g
    BY <1>1, <2>1, <2>2, AppendProperties
  <2> DEFINE n == Len(found)
             m == Len(found')
  <2>4. n \in Nat /\ m = n + 1
    BY <1>1, <2>3
  <2> HIDE DEF n, m
  <2>5. m \in Nat /\ m >= n /\ (\A i \in 1..n : i \in 1..m) /\ (\A i \in 1..m : i \in 1..n \/ i = n + 1)
    BY <2>4
  <2>6. QED
    BY <2>1, <2>3, <2>5 DEF n, m
<1>5. QED
  BY <1>2, <1>4

\* What becomes settled was in the hands of the task on top.
LEMMA SettledBy ==
  ASSUME NEW ts, Types, Down(ts), NEW f \in Files
  PROVE  /\ Settled(f)' => Settled(f) \/ Has(Head(work), f)
         /\ Settled(f) => Settled(f)'
<1>1. ASSUME NEW i \in 1..Len(found'), f \in found'[i].files
      PROVE  Settled(f) \/ Has(Head(work), f)
  <2>1. CASE i \in 1..Len(found)
    <3>1. found'[i] = found[i]
      BY <2>1, FoundGrows
    <3>2. QED
      BY <1>1, <2>1, <3>1 DEF Settled
  <2>2. CASE i \notin 1..Len(found)
    <3>1. Head(work).do = "add" /\ found'[i] \in Head(work).groups
      BY <2>2, FoundGrows
    <3>2. QED
      BY <1>1, <3>1 DEF Has
  <2>3. QED
    BY <2>1, <2>2
<1>2. f \in passed' => Settled(f) \/ Has(Head(work), f)
  BY DEF Down, Settled
<1>3. Settled(f) => Settled(f)'
  <2>1. passed \subseteq passed'
    BY DEF Down
  <2>2. \A i \in 1..Len(found) : i \in 1..Len(found') /\ found'[i] = found[i]
    BY FoundGrows
  <2>3. QED
    BY <2>1, <2>2 DEF Settled
<1>4. Settled(f)' => f \in passed' \/ \E i \in 1..Len(found') : f \in found'[i].files
  BY DEF Settled
<1>5. QED
  BY <1>1, <1>2, <1>3, <1>4

LEMMA DownOneTask ==
  ASSUME NEW ts, Types, OneTask, Down(ts)
  PROVE  OneTask'
<1>1. Files' = Files /\ \A t, f : Has(t, f)' <=> Has(t, f)
  BY HasSame DEF Down, Files, disk
<1>2. work \in Seq(Task) /\ work # <<>> /\ ts \in Seq(Task) /\ work' = ts \o Tail(work)
  BY DEF Types, WorkTyped, Down
<1>3. Head(work) = work[1] /\ Len(work) \in Nat \ {0} /\ Len(ts) \in Nat
  BY <1>2, Stacked
<1>4. \A i \in 1..Len(work') : \/ i \in 1..Len(ts) /\ work'[i] = ts[i]
                               \/ i - Len(ts) + 1 \in 2..Len(work) /\ work'[i] = work[i - Len(ts) + 1]
  BY <1>2, Stacked
<1> DEFINE m == Len(ts)
           n == Len(work)
<1>5. ASSUME NEW f \in Files, NEW i \in 1..Len(work'), NEW j \in 1..Len(work'),
             Has(work'[i], f), Has(work'[j], f)
      PROVE  i = j
  <2>1. i \in Nat /\ j \in Nat
    OBVIOUS
  <2>2. CASE i \in 1..m /\ j \in 1..m /\ work'[i] = ts[i] /\ work'[j] = ts[j]
    BY <1>5, <2>2 DEF Down
  <2>3. ASSUME NEW k \in 1..m, NEW l \in 2..n, Has(ts[k], f), Has(work[l], f) PROVE FALSE
    <3>1. Has(work[1], f)
      BY <1>3, <2>3 DEF Down
    <3>2. 1 \in 1..n /\ l \in 1..n /\ l # 1
      BY <1>3
    <3>3. QED
      BY <2>3, <3>1, <3>2 DEF OneTask
  <2>4. CASE i - m + 1 \in 2..n /\ j - m + 1 \in 2..n /\ work'[i] = work[i - m + 1] /\ work'[j] = work[j - m + 1]
    <3>1. i - m + 1 \in 1..n /\ j - m + 1 \in 1..n
      <4>1. \A k \in 2..n : k \in 1..n
        BY <1>3
      <4>2. QED
        BY <2>4, <4>1
    <3>2. i - m + 1 = j - m + 1
      BY <1>5, <2>4, <3>1 DEF OneTask
    <3>3. QED
      BY <1>3, <2>1, <3>2
  <2>5. QED
    BY <1>4, <1>5, <2>2, <2>3, <2>4
<1>6. QED
  BY <1>1, <1>5 DEF OneTask

LEMMA DownFresh ==
  ASSUME NEW ts, Types, OneTask, Fresh, Down(ts)
  PROVE  Fresh'
<1>1. Files' = Files /\ \A t, f : Has(t, f)' <=> Has(t, f)
  BY HasSame DEF Down, Files, disk
<1>2. work \in Seq(Task) /\ work # <<>> /\ ts \in Seq(Task) /\ work' = ts \o Tail(work)
  BY DEF Types, WorkTyped, Down
<1>3. Head(work) = work[1] /\ Len(work) \in Nat \ {0} /\ Len(ts) \in Nat
  BY <1>2, Stacked
<1>4. \A i \in 1..Len(work') : \/ i \in 1..Len(ts) /\ work'[i] = ts[i]
                               \/ i - Len(ts) + 1 \in 2..Len(work) /\ work'[i] = work[i - Len(ts) + 1]
  BY <1>2, Stacked
<1>5. ASSUME NEW f \in Files, NEW i \in 1..Len(work'), Has(work'[i], f), Settled(f)'
      PROVE  FALSE
  <2>1. CASE i \in 1..Len(ts) /\ work'[i] = ts[i]
    BY <1>5, <2>1 DEF Down
  <2>2. ASSUME NEW l \in 2..Len(work), Has(work[l], f) PROVE FALSE
    <3>1. 1 \in 1..Len(work) /\ l \in 1..Len(work) /\ l # 1
      BY <1>3
    <3>2. ~Settled(f) /\ ~Has(work[1], f)
      BY <2>2, <3>1 DEF Fresh, OneTask
    <3>3. QED
      BY <1>3, <1>5, <3>2, SettledBy
  <2>3. QED
    BY <1>4, <1>5, <2>1, <2>2
<1>6. QED
  BY <1>1, <1>5 DEF Fresh

LEMMA DownApart ==
  ASSUME NEW ts, Types, Apart, Down(ts)
  PROVE  Apart'
<1>1. work \in Seq(Task) /\ work # <<>> /\ ts \in Seq(Task) /\ work' = ts \o Tail(work)
  BY DEF Types, WorkTyped, Down
<1>2. Len(work) \in Nat \ {0}
  BY <1>1, Stacked
<1>3. \A i \in 1..Len(work') : \/ i \in 1..Len(ts) /\ work'[i] = ts[i]
                               \/ i - Len(ts) + 1 \in 2..Len(work) /\ work'[i] = work[i - Len(ts) + 1]
  BY <1>1, Stacked
<1>4. \A i \in 1..Len(ts) : ts[i].do = "add" => \A g, h \in ts[i].groups : g # h => g.files \cap h.files = {}
  BY DEF Down
<1>5. \A i \in 2..Len(work) : i \in 1..Len(work)
  BY <1>2
<1>6. QED
  BY <1>3, <1>4, <1>5 DEF Apart

LEMMA DownRead ==
  ASSUME NEW ts, Types, ReadRight, Down(ts)
  PROVE  ReadRight'
<1>1. work \in Seq(Task) /\ work # <<>> /\ ts \in Seq(Task) /\ work' = ts \o Tail(work)
      /\ touched' = touched /\ content' = content
  BY DEF Types, WorkTyped, Down, disk
<1>2. Len(work) \in Nat \ {0}
  BY <1>1, Stacked
<1>3. \A i \in 1..Len(work') : \/ i \in 1..Len(ts) /\ work'[i] = ts[i]
                               \/ i - Len(ts) + 1 \in 2..Len(work) /\ work'[i] = work[i - Len(ts) + 1]
  BY <1>1, Stacked
<1>4. \A i \in 1..Len(ts) : ts[i].do = "hash" =>
        \A f \in DOMAIN ts[i].pfx : f \notin touched => ts[i].pfx[f] = content[f].pfx
  BY DEF Down
<1>5. \A i \in 2..Len(work) : i \in 1..Len(work)
  BY <1>2
<1>6. ASSUME NEW i \in 1..Len(work'), work'[i].do = "hash", NEW f \in DOMAIN work'[i].pfx, f \notin touched
      PROVE  work'[i].pfx[f] = content[f].pfx
  <2>1. CASE i \in 1..Len(ts) /\ work'[i] = ts[i]
    BY <1>4, <1>6, <2>1
  <2>2. ASSUME NEW j \in 2..Len(work), work'[i] = work[j] PROVE work'[i].pfx[f] = content[f].pfx
    BY <1>5, <1>6, <2>2 DEF ReadRight
  <2>3. QED
    BY <1>3, <2>1, <2>2
<1>7. QED
  BY <1>1, <1>6 DEF ReadRight

LEMMA DownOneGroup ==
  ASSUME NEW ts, Types, Fresh, OneGroupEach, Down(ts)
  PROVE  OneGroupEach'
<1>1. work \in Seq(Task) /\ work # <<>> /\ found \in Seq(Filled)
  BY DEF Types, WorkTyped, Down
<1>2. Head(work) = work[1] /\ 1 \in 1..Len(work) /\ Head(work) \in Task
  BY <1>1, Stacked
<1>3. \A f \in Files : Has(Head(work), f) => ~Settled(f)
  BY <1>2 DEF Fresh
<1>4. DOMAIN found = 1..Len(found) /\ DOMAIN found' = 1..Len(found')
  BY <1>1, FoundGrows
<1>5. \A i \in 1..Len(found') :
        \/ i \in 1..Len(found) /\ found'[i] = found[i]
        \/ /\ i = Len(found) + 1 /\ passed' = passed
           /\ Head(work).do = "add" /\ found'[i] \in Head(work).groups
  BY FoundGrows
<1>6. ASSUME NEW g, Head(work).do = "add", g \in Head(work).groups, NEW f \in g.files
      PROVE  f \in Files /\ ~Settled(f)
  <2>1. f \in Files
    BY <1>2, <1>6 DEF Task, Group, Filled
  <2>2. QED
    BY <1>3, <1>6, <2>1 DEF Has
<1>7. ASSUME NEW i \in 1..Len(found'), NEW j \in 1..Len(found'), i # j,
             NEW f \in found'[i].files, f \in found'[j].files
      PROVE  FALSE
  <2>1. CASE i \in 1..Len(found) /\ j \in 1..Len(found)
    BY <1>4, <1>5, <1>7, <2>1, FoundGrows DEF OneGroupEach
  <2>2. CASE i \notin 1..Len(found)
    <3>1. i = Len(found) + 1 /\ ~Settled(f)
      BY <1>5, <1>6, <1>7, <2>2
    <3>2. j \in 1..Len(found) /\ found'[j] = found[j]
      BY <1>5, <1>7, <3>1
    <3>3. QED
      BY <1>7, <3>1, <3>2 DEF Settled
  <2>3. CASE j \notin 1..Len(found)
    <3>1. j = Len(found) + 1 /\ ~Settled(f)
      BY <1>5, <1>6, <1>7, <2>3
    <3>2. i \in 1..Len(found) /\ found'[i] = found[i]
      BY <1>5, <1>7, <3>1
    <3>3. QED
      BY <1>7, <3>1, <3>2 DEF Settled
  <2>4. QED
    BY <2>1, <2>2, <2>3
<1>8. ASSUME NEW i \in 1..Len(found'), NEW f \in found'[i].files, f \in passed' PROVE FALSE
  <2>1. f \in passed \/ (f \in Files /\ Has(Head(work), f))
    BY <1>8 DEF Down
  <2>2. CASE i \in 1..Len(found) /\ found'[i] = found[i]
    <3>1. f \notin passed
      BY <1>4, <1>8, <2>2 DEF OneGroupEach
    <3>2. QED
      BY <1>3, <1>8, <2>1, <2>2, <3>1 DEF Settled
  <2>3. CASE passed' = passed /\ Head(work).do = "add" /\ found'[i] \in Head(work).groups
    BY <1>6, <1>8, <2>3 DEF Settled
  <2>4. QED
    BY <1>5, <2>2, <2>3
<1>9. QED
  BY <1>4, <1>7, <1>8 DEF OneGroupEach

LEMMA DownPairs ==
  ASSUME NEW ts, Types, PairsKept, Down(ts)
  PROVE  PairsKept'
<1>1. /\ Files' = Files /\ touched' = touched /\ content' = content
      /\ \A t, f, g : (Holds(t, f, g)' <=> Holds(t, f, g)) /\ (Lists(t, f, g)' <=> Lists(t, f, g))
  BY HoldsSame DEF Down, Files, disk
<1>2. work \in Seq(Task) /\ work # <<>> /\ ts \in Seq(Task) /\ work' = ts \o Tail(work)
  BY DEF Types, WorkTyped, Down
<1>3. /\ Head(work) = work[1] /\ Len(work) \in Nat \ {0} /\ Len(ts) \in Nat
      /\ Len(work') = Len(ts) + Len(work) - 1
      /\ \A i \in 1..Len(ts) : work'[i] = ts[i]
      /\ \A i \in 2..Len(work) : Len(ts) + i - 1 \in 1..Len(work') /\ work'[Len(ts) + i - 1] = work[i]
  <2> DEFINE w == ts \o Tail(work)
  <2>1. /\ Head(work) = work[1] /\ Len(work) \in Nat \ {0} /\ Len(ts) \in Nat
        /\ Len(w) = Len(ts) + Len(work) - 1
        /\ \A i \in 1..Len(ts) : w[i] = ts[i]
        /\ \A i \in 2..Len(work) : Len(ts) + i - 1 \in 1..Len(w) /\ w[Len(ts) + i - 1] = work[i]
    BY <1>2, Stacked
  <2>2. work' = w
    BY <1>2
  <2> HIDE DEF w
  <2>3. QED
    BY <2>1, <2>2
<1>4. \A i \in 1..Len(ts) : i \in 1..Len(work')
  BY <1>3
<1>5. ASSUME NEW f \in Files \ touched, NEW g \in Files \ touched, f # g, content[f] = content[g]
      PROVE  \/ \E i \in 1..Len(work') : Holds(work'[i], f, g)
             \/ {f, g} \cap passed' # {}
             \/ \E i \in 1..Len(found') : Lists(found'[i], f, g)
  <2>1. Kept(f, g)
    BY <1>5 DEF PairsKept
  <2>2. CASE Holds(work[1], f, g)
    <3>1. \/ \E i \in 1..Len(ts) : Holds(ts[i], f, g)
          \/ {f, g} \cap passed' # {}
          \/ \E i \in 1..Len(found') : Lists(found'[i], f, g)
      BY <1>3, <1>5, <2>2 DEF Down
    <3>2. QED
      BY <1>3, <1>4, <3>1
  <2>3. ASSUME NEW i \in 1..Len(work), i # 1, Holds(work[i], f, g)
        PROVE  \E j \in 1..Len(work') : Holds(work'[j], f, g)
    <3>1. i \in 2..Len(work)
      BY <1>3, <2>3
    <3>2. QED
      BY <1>3, <2>3, <3>1
  <2>4. CASE {f, g} \cap passed # {}
    BY <2>4 DEF Down
  <2>5. CASE \E i \in 1..Len(found) : Lists(found[i], f, g)
    BY <2>5, FoundGrows
  <2>6. QED
    BY <2>1, <2>2, <2>3, <2>4, <2>5 DEF Kept
<1>6. QED
  BY <1>1, <1>5 DEF PairsKept, Kept

\* The walk is over when another task is on top.
LEMMA HeadFacts ==
  ASSUME Types, Control, work # <<>>, Head(work).do # "walk"
  PROVE  /\ Head(work) = work[1] /\ Head(work) \in Task /\ 1 \in 1..Len(work)
         /\ ~Walking /\ ~Finished /\ DOMAIN walked = Files /\ DOMAIN content = Files
         /\ \A f \in Files : content[f] \in Contents /\ walked[f] = content[f].size /\ walked[f] \in Keys
<1>1. /\ work \in Seq(Task) /\ content \in Seq(Contents) /\ walked \in Seq(Keys)
  BY DEF Types, TreeTyped, WorkTyped
<1>2. Head(work) = work[1] /\ Head(work) \in Task /\ Len(work) \in Nat \ {0}
  BY <1>1, Stacked
<1>3. ~Walking
  BY <1>2 DEF Control, Walking
<1>4. DOMAIN walked = Files /\ DOMAIN content = Files
  BY <1>1, <1>3 DEF Control, Files
<1>5. \A f \in Files : content[f] \in Contents /\ walked[f] = content[f].size /\ walked[f] \in Keys
  BY <1>1, <1>3, <1>4 DEF Control, Files
<1>6. QED
  BY <1>2, <1>3, <1>4, <1>5 DEF Control

\* Types and control, when a task has been taken down.
LEMMA DownControl ==
  ASSUME NEW ts, Types, Control, Down(ts), cache' \in [Files -> Read \cup {None}]
  PROVE  (Types /\ Control /\ Counted)'
<1>1. work \in Seq(Task) /\ work # <<>> /\ ts \in Seq(Task) /\ work' = ts \o Tail(work)
      /\ Head(work).do # "walk"
  BY DEF Types, WorkTyped, Down
<1>2. ~Walking /\ ~Finished
  BY <1>1, HeadFacts
<1>3. \A i \in 1..Len(work') : \/ i \in 1..Len(ts) /\ work'[i] = ts[i]
                               \/ i - Len(ts) + 1 \in 2..Len(work) /\ work'[i] = work[i - Len(ts) + 1]
  BY <1>1, Stacked
<1>4. Len(work) \in Nat \ {0} /\ work' \in Seq(Task)
  BY <1>1, Stacked
<1>5. ~Walking'
  <2>1. \A i \in 2..Len(work) : i \in 1..Len(work)
    BY <1>4
  <2>2. \A i \in 1..Len(work) : work[i].do # "walk"
    BY <1>2 DEF Walking
  <2>3. \A i \in 1..Len(ts) : ts[i].do # "walk"
    BY DEF Down
  <2>4. \A i \in 1..Len(work') : work'[i].do # "walk"
    BY <1>3, <2>1, <2>2, <2>3
  <2>5. QED
    BY <2>4 DEF Walking
<1>6. /\ content' = content /\ broken' = broken /\ touched' = touched /\ walked' = walked /\ cand' = cand
      /\ exact' = exact /\ tab' = tab /\ out' = out /\ passed' \subseteq Files
  BY DEF Down, disk, counter
<1>7. Files' = Files /\ Filled' = Filled /\ Task' = Task
  BY <1>6 DEF Files, Group, Filled, Task, Tagging
<1>8. TreeTyped'
  BY <1>6, <1>7 DEF Types, TreeTyped
<1>9. CounterTyped'
  BY <1>6 DEF Types, CounterTyped, Degraded
<1>10. WorkTyped'
  BY <1>4, <1>7, FoundGrows DEF WorkTyped
<1>11. Control'
  BY <1>2, <1>5, <1>6 DEF Control, Finished
<1>12. QED
  BY <1>5, <1>8, <1>9, <1>10, <1>11 DEF Types, Counted

\* A step that finds nothing and notes the files of X.
NoteStep(ts, X) ==
  /\ work # <<>> /\ Head(work).do # "walk" /\ work' = ts \o Tail(work)
  /\ UNCHANGED <<disk, walked, counter, cand, out, found>> /\ passed' = passed \cup X
  /\ ts \in Seq(Task) /\ \A i \in 1..Len(ts) : ts[i].do # "walk" /\ ts[i].do # "add"
  /\ \A i \in 1..Len(ts) : ts[i].do = "hash" =>
       \A f \in DOMAIN ts[i].pfx : f \notin touched => ts[i].pfx[f] = content[f].pfx
  /\ \A f \in X : f \in Files /\ Has(Head(work), f)
  /\ \A f \in Files : \A i \in 1..Len(ts) : Has(ts[i], f) => Has(Head(work), f) /\ f \notin X
  /\ \A f \in Files : \A i, j \in 1..Len(ts) : Has(ts[i], f) /\ Has(ts[j], f) => i = j
  /\ \A f, g \in Files \ touched :
       f # g /\ content[f] = content[g] /\ Holds(Head(work), f, g) =>
         (\E i \in 1..Len(ts) : Holds(ts[i], f, g)) \/ {f, g} \cap X # {}

LEMMA NoteDown ==
  ASSUME Types, Control, Fresh, NEW ts, NEW X, NoteStep(ts, X)
  PROVE  Down(ts)
<1> USE DEF NoteStep
<1>1. Head(work) = work[1] /\ 1 \in 1..Len(work)
  BY HeadFacts
<1>2. ASSUME NEW f \in Files, NEW i \in 1..Len(ts), Has(ts[i], f) PROVE ~Settled(f)'
  <2>1. Has(Head(work), f) /\ f \notin X
    BY <1>2
  <2>2. ~Settled(f)
    BY <1>1, <2>1 DEF Fresh
  <2>3. QED
    BY <2>1, <2>2 DEF Settled
<1>3. passed \subseteq passed' /\ passed' \subseteq Files /\ \A f \in passed' : f \in passed \/ Has(Head(work), f)
  BY DEF Types, TreeTyped
<1>4. UNCHANGED <<disk, walked, counter, cand, out>> /\ found' = found
  OBVIOUS
<1>5. \A i \in 1..Len(ts) :
        /\ ts[i].do # "walk"
        /\ ts[i].do = "add" => \A g, h \in ts[i].groups : g # h => g.files \cap h.files = {}
        /\ ts[i].do = "hash" =>
             \A f \in DOMAIN ts[i].pfx : f \notin touched => ts[i].pfx[f] = content[f].pfx
  OBVIOUS
<1>6. \A f \in Files :
        /\ \A i \in 1..Len(ts) : Has(ts[i], f) => Has(Head(work), f) /\ ~Settled(f)'
        /\ \A i, j \in 1..Len(ts) : Has(ts[i], f) /\ Has(ts[j], f) => i = j
  BY <1>2
<1>7. \A f, g \in Files \ touched :
        f # g /\ content[f] = content[g] /\ Holds(Head(work), f, g) =>
          \/ \E i \in 1..Len(ts) : Holds(ts[i], f, g)
          \/ {f, g} \cap passed' # {}
  <2>1. ASSUME NEW f, NEW g, {f, g} \cap X # {} PROVE {f, g} \cap passed' # {}
    BY <2>1
  <2>2. QED
    BY <2>1
<1>8. work # <<>> /\ Head(work).do # "walk" /\ work' = ts \o Tail(work) /\ ts \in Seq(Task)
  OBVIOUS
<1> HIDE DEF NoteStep
<1>9. QED
  BY <1>3, <1>4, <1>5, <1>6, <1>7, <1>8 DEF Down

-----------------------------------------------------------------------------
(* The lists of tasks a step leaves.                                       *)

\* A task F[x] for every x of T, in order.
Listing(T, F) == [i \in DOMAIN Ascending(T) |-> F[Ascending(T)[i]]]
ListsAll(b, T, F) ==
  /\ b \in Seq(Task)
  /\ \A i \in 1..Len(b) : \E x \in T : b[i] = F[x]
  /\ \A i, j \in 1..Len(b) : i # j => \E x, y \in T : x # y /\ b[i] = F[x] /\ b[j] = F[y]
  /\ \A x \in T : \E i \in 1..Len(b) : b[i] = F[x]

LEMMA Listed ==
  ASSUME NEW T \in SUBSET Nat, IsFiniteSet(T), NEW F, \A x \in T : F[x] \in Task
  PROVE  ListsAll(Listing(T, F), T, F)
<1> DEFINE s == Ascending(T)
           n == Len(s)
           b == Listing(T, F)
<1>1. /\ s \in Seq(T) /\ \A i, j \in 1..Len(s) : s[i] = s[j] => i = j
      /\ \A x \in T : \E i \in 1..Len(s) : s[i] = x
  BY AscendingLists
<1>2. b = [i \in DOMAIN s |-> F[s[i]]]
  BY DEF Listing
<1> HIDE DEF s, b
<1>3. n \in Nat /\ DOMAIN s = 1..n /\ \A i \in 1..n : s[i] \in T
  BY <1>1
<1>4. b \in [1..n -> Task] /\ \A i \in 1..n : b[i] = F[s[i]]
  BY <1>3, <1>2
<1> HIDE DEF n
<1>5. b \in Seq(Task)
  BY <1>3, <1>4, SeqDef
<1>6. Len(b) = n
  BY <1>3, <1>4, <1>5
<1>7. \A i, j \in 1..n : s[i] = s[j] => i = j
  BY <1>1 DEF n
<1>8. \A x \in T : \E i \in 1..n : s[i] = x
  BY <1>1 DEF n
<1>9. \A i \in 1..n : \E x \in T : b[i] = F[x]
  BY <1>3, <1>4
<1>10. ASSUME NEW i \in 1..n, NEW j \in 1..n, i # j
      PROVE  \E x, y \in T : x # y /\ b[i] = F[x] /\ b[j] = F[y]
  <2>1. s[i] \in T /\ s[j] \in T /\ s[i] # s[j] /\ b[i] = F[s[i]] /\ b[j] = F[s[j]]
    BY <1>3, <1>4, <1>7, <1>10
  <2>2. QED
    BY <2>1
<1>11. \A x \in T : \E i \in 1..n : b[i] = F[x]
  BY <1>4, <1>8
<1>12. QED
  BY <1>5, <1>6, <1>9, <1>10, <1>11 DEF b, ListsAll

\* A comparison of S, and then the tasks of b.
Comparison(S) == [do |-> "compare", files |-> S]
RungsOf(ts, S, b) ==
  /\ ts \in Seq(Task)
  /\ \A i \in 1..Len(ts) : ts[i] = Comparison(S) \/ \E j \in 1..Len(b) : ts[i] = b[j]
  /\ \A f \in Files : \A i, j \in 1..Len(ts) : Has(ts[i], f) /\ Has(ts[j], f) => i = j
  /\ \A j \in 1..Len(b) : \E i \in 1..Len(ts) : ts[i] = b[j]
  /\ \A f, g \in S : f # g => \E i \in 1..Len(ts) : ts[i] = Comparison(S)

LEMMA Rungs ==
  ASSUME TreeTyped, NEW S \in SUBSET Files, NEW b \in Seq(Task),
         \A f \in Files : \A i \in 1..Len(b) : Has(b[i], f) => f \notin S,
         \A f \in Files : \A i, j \in 1..Len(b) : Has(b[i], f) /\ Has(b[j], f) => i = j,
         NEW ts, ts = CompareTask(S) \o b
  PROVE  RungsOf(ts, S, b)
<1> DEFINE a == CompareTask(S)
           c == Comparison(S)
           m == Len(a)
           n == Len(b)
<1>1. /\ a \in Seq(Task) /\ m \in {0, 1} /\ \A i \in 1..m : a[i] = c
      /\ \A f, g \in S : f # g => m = 1
  BY CompareTasks DEF Comparison
<1>2. \A f \in Files : Has(c, f) => f \in S
  BY DEF Has, Comparison
<1> HIDE DEF a, c
<1>3. /\ ts \in Seq(Task) /\ Len(ts) = m + n /\ n \in Nat
      /\ \A i \in 1..(m + n) : ts[i] = IF i <= m THEN a[i] ELSE b[i - m]
  <2>1. ts = a \o b
    BY DEF a
  <2>2. QED
    BY <1>1, <2>1, ConcatProperties
<1> HIDE DEF m
<1>4. \A i \in 1..m : i = 1 /\ i \in 1..(m + n) /\ ts[i] = c
  <2>1. \A i \in 1..m : i = 1 /\ i \in 1..(m + n) /\ i <= m
    BY <1>1, <1>3
  <2>2. QED
    BY <1>1, <1>3, <2>1
<1>5. \A i \in 1..(m + n) : i \notin 1..m => i - m \in 1..n /\ ts[i] = b[i - m]
  <2>1. \A i \in 1..(m + n) : i \notin 1..m => i - m \in 1..n /\ ~(i <= m)
    BY <1>1, <1>3
  <2>2. QED
    BY <1>3, <2>1
<1>6. \A j \in 1..n : m + j \in 1..(m + n) /\ ts[m + j] = b[j]
  <2>1. \A j \in 1..n : m + j \in 1..(m + n) /\ ~(m + j <= m) /\ (m + j) - m = j
    BY <1>1, <1>3
  <2>2. QED
    BY <1>3, <2>1
<1>7. ASSUME NEW f \in Files, NEW i \in 1..(m + n), NEW j \in 1..(m + n), Has(ts[i], f), Has(ts[j], f)
      PROVE  i = j
  <2>1. CASE i \in 1..m /\ j \in 1..m
    BY <1>4, <2>1
  <2>2. CASE i \in 1..m /\ j \notin 1..m
    BY <1>2, <1>4, <1>5, <1>7, <2>2
  <2>3. CASE i \notin 1..m /\ j \in 1..m
    BY <1>2, <1>4, <1>5, <1>7, <2>3
  <2>4. CASE i \notin 1..m /\ j \notin 1..m
    <3>1. i - m = j - m
      BY <1>5, <1>7, <2>4
    <3>2. i \in Int /\ j \in Int /\ m \in Int
      BY <1>1
    <3>3. QED
      BY <3>1, <3>2
  <2>5. QED
    BY <2>1, <2>2, <2>3, <2>4
<1>8. \A f, g \in S : f # g => \E i \in 1..(m + n) : ts[i] = c
  <2>1. m = 1 => 1 \in 1..m
    OBVIOUS
  <2>2. QED
    BY <1>1, <1>4, <2>1
<1>9. \A i \in 1..(m + n) : ts[i] = c \/ \E j \in 1..n : ts[i] = b[j]
  BY <1>4, <1>5
<1>10. \A j \in 1..n : \E i \in 1..(m + n) : ts[i] = b[j]
  BY <1>6
<1>11. QED
  BY <1>3, <1>7, <1>8, <1>9, <1>10 DEF c, RungsOf

\* One task for each part of the tags: every tagged file is in one of them.
PartsOf(ts, tags) ==
  /\ ts \in Seq(Task) /\ \A i \in 1..Len(ts) : ts[i].do \in {"prefix", "bucket"} /\ ts[i].tags = tags
  /\ \A f : \A i \in 1..Len(ts) : Has(ts[i], f) => f \in DOMAIN tags
  /\ \A f : \A i, j \in 1..Len(ts) : Has(ts[i], f) /\ Has(ts[j], f) => i = j
  /\ \A f, g \in DOMAIN tags : tags[f] = tags[g] =>
       \E i \in 1..Len(ts) : Has(ts[i], f) /\ Has(ts[i], g)

PartsListing(do, tags, n) ==
  [i \in 1..Parts(n) |-> [do |-> do, tags |-> tags, part |-> i - 1, parts |-> Parts(n)]]

LEMMA PartsList ==
  ASSUME NEW tags \in Tagging, NEW n \in Nat, NEW do \in {"prefix", "bucket"}
  PROVE  PartsOf(PartsListing(do, tags, n), tags)
<1> DEFINE m == Parts(n)
           ts == PartsListing(do, tags, n)
<1>1. m \in Nat \ {0}
  BY PartsSplit
<1>2. \A f \in DOMAIN tags : tags[f] \in Nat
  BY DEF Tagging
<1>3. \A f \in DOMAIN tags : /\ \E p \in 1..m : InPart(tags[f], p - 1, m)
                             /\ \A p, q \in 1..m : InPart(tags[f], p - 1, m) /\ InPart(tags[f], q - 1, m) => p = q
  BY <1>2, PartsSplit
<1>4. ts = [i \in 1..m |-> [do |-> do, tags |-> tags, part |-> i - 1, parts |-> m]]
  BY DEF PartsListing
<1> HIDE DEF m, ts
<1>5. \A i \in 1..m : [do |-> do, tags |-> tags, part |-> i - 1, parts |-> m] \in Task
  <2>1. \A i \in 1..m : i - 1 \in Nat
    BY <1>1
  <2>2. QED
    BY <1>1, <2>1 DEF Task
<1>6. ts \in Seq(Task) /\ Len(ts) = m
  <2>1. ts \in [1..m -> Task] /\ DOMAIN ts = 1..m
    BY <1>4, <1>5
  <2>2. ts \in Seq(Task)
    <3>1. \A k \in Nat : [1..k -> Task] \subseteq Seq(Task)
      BY SeqDef
    <3>2. QED
      BY <1>1, <2>1, <3>1
  <2>3. Len(ts) = m
    <3>1. Len(ts) \in Nat /\ DOMAIN ts = 1..Len(ts)
      BY <2>2, LenProperties
    <3> DEFINE k == Len(ts)
    <3>2. k \in Nat /\ 1..k = 1..m
      BY <2>1, <3>1
    <3> HIDE DEF k
    <3>3. k = m
      BY <1>1, <3>2
    <3>4. QED
      BY <3>3 DEF k
  <2>4. QED
    BY <2>2, <2>3
<1>7. ASSUME NEW i \in 1..m
      PROVE  /\ ts[i].do = do /\ ts[i].tags = tags /\ ts[i].part = i - 1 /\ ts[i].parts = m
  <2>1. ts[i] = [do |-> do, tags |-> tags, part |-> i - 1, parts |-> m]
    BY <1>4
  <2>2. QED
    BY <2>1
<1>8. ASSUME NEW i \in 1..m, NEW f
      PROVE  Has(ts[i], f) <=> f \in DOMAIN tags /\ InPart(tags[f], i - 1, m)
  <2>1. \/ do = "prefix" \/ do = "bucket"
    OBVIOUS
  <2>2. ts[i].do \in {"prefix", "bucket"}
    BY <1>7, <2>1
  <2>3. Has(ts[i], f) <=> f \in DOMAIN ts[i].tags /\ InPart(ts[i].tags[f], ts[i].part, ts[i].parts)
    BY <2>2 DEF Has
  <2>4. QED
    BY <1>7, <2>3
<1>9. \A f : \A i, j \in 1..m : Has(ts[i], f) /\ Has(ts[j], f) => i = j
  BY <1>3, <1>8
<1>10. ASSUME NEW f \in DOMAIN tags, NEW g \in DOMAIN tags, tags[f] = tags[g]
       PROVE  \E i \in 1..m : Has(ts[i], f) /\ Has(ts[i], g)
  <2>1. PICK p \in 1..m : InPart(tags[f], p - 1, m)
    BY <1>3
  <2>2. Has(ts[p], f) /\ Has(ts[p], g)
    BY <1>8, <1>10, <2>1
  <2>3. QED
    BY <2>2
<1>11. QED
  BY <1>6, <1>7, <1>8, <1>9, <1>10 DEF PartsOf, ts

\* A comparison of C, and then one task for each tag of T: those of the files
\* of S that have it.
LadderOf(ts, S, C, tag, T) ==
  /\ ts \in Seq(Task)
  /\ \A i \in 1..Len(ts) : ts[i].do # "walk" /\ ts[i].do # "add" /\ ts[i].do # "hash"
  /\ \A f \in Files : \A i \in 1..Len(ts) : Has(ts[i], f) => f \in S /\ (f \in C \/ tag[f] \in T)
  /\ \A f \in Files : \A i, j \in 1..Len(ts) : Has(ts[i], f) /\ Has(ts[j], f) => i = j
  /\ \A f, g \in S : f # g /\ tag[f] = tag[g] /\ ((f \in C /\ g \in C) \/ tag[f] \in T) =>
       \E i \in 1..Len(ts) : Holds(ts[i], f, g)

LEMMA Ladder ==
  ASSUME TreeTyped, NEW S \in SUBSET Files, NEW C \in SUBSET S, NEW tag,
         NEW T \in SUBSET Nat, IsFiniteSet(T), NEW F,
         \A x \in T : F[x] \in Task /\ F[x].do \in {"skew", "deep", "slice"},
         \A x \in T : \A f \in Files : Has(F[x], f) <=> f \in S /\ tag[f] = x,
         \A f \in C : tag[f] \notin T,
         NEW ts, ts = CompareTask(C) \o Listing(T, F)
  PROVE  LadderOf(ts, S, C, tag, T)
<1> DEFINE b == Listing(T, F)
           c == Comparison(C)
<1>1. /\ b \in Seq(Task)
      /\ \A i \in 1..Len(b) : \E x \in T : b[i] = F[x]
      /\ \A i, j \in 1..Len(b) : i # j => \E x, y \in T : x # y /\ b[i] = F[x] /\ b[j] = F[y]
      /\ \A x \in T : \E i \in 1..Len(b) : b[i] = F[x]
  <2>1. ListsAll(Listing(T, F), T, F)
    BY Listed
  <2>2. QED
    BY <2>1 DEF ListsAll
<1>2. ts = CompareTask(C) \o b
  OBVIOUS
<1> HIDE DEF b
<1>3. \A f \in Files : \A i \in 1..Len(b) : Has(b[i], f) => f \in S /\ tag[f] \in T
  BY <1>1
<1>4. ASSUME NEW f \in Files, NEW i \in 1..Len(b), NEW j \in 1..Len(b), Has(b[i], f), Has(b[j], f), i # j
      PROVE  FALSE
  <2>1. PICK x \in T, y \in T : x # y /\ b[i] = F[x] /\ b[j] = F[y]
    BY <1>1, <1>4
  <2>2. tag[f] = x /\ tag[f] = y
    BY <1>4, <2>1
  <2>3. QED
    BY <2>1, <2>2
<1>5. \A f \in Files : \A i \in 1..Len(b) : Has(b[i], f) => f \notin C
  BY <1>3
<1>6. C \in SUBSET Files
  OBVIOUS
<1>7. \A f : Has(c, f) <=> f \in C
  BY DEF Has, Comparison
<1>8. c.do = "compare"
  BY DEF Comparison
<1> HIDE DEF c
<1>9. /\ ts \in Seq(Task)
      /\ \A i \in 1..Len(ts) : ts[i] = c \/ \E j \in 1..Len(b) : ts[i] = b[j]
      /\ \A f \in Files : \A i, j \in 1..Len(ts) : Has(ts[i], f) /\ Has(ts[j], f) => i = j
      /\ \A j \in 1..Len(b) : \E i \in 1..Len(ts) : ts[i] = b[j]
      /\ \A f, g \in C : f # g => \E i \in 1..Len(ts) : ts[i] = c
  <2>1. b \in Seq(Task) /\ \A f \in Files : \A i, j \in 1..Len(b) : Has(b[i], f) /\ Has(b[j], f) => i = j
    BY <1>1, <1>4
  <2>2. RungsOf(ts, C, b)
    BY <1>2, <1>5, <1>6, <2>1, Rungs
  <2>3. QED
    BY <2>2 DEF RungsOf, c
<1>10. ASSUME NEW i \in 1..Len(ts) PROVE ts[i].do \in {"skew", "deep", "slice", "compare"}
  <2>1. CASE ts[i] = c
    BY <1>8, <2>1
  <2>2. ASSUME NEW j \in 1..Len(b), ts[i] = b[j] PROVE ts[i].do \in {"skew", "deep", "slice"}
    <3>1. PICK x \in T : b[j] = F[x]
      BY <1>1
    <3>2. QED
      BY <2>2, <3>1
  <2>3. QED
    BY <1>9, <2>1, <2>2
<1>11. ASSUME NEW f \in Files, NEW i \in 1..Len(ts), Has(ts[i], f)
       PROVE  f \in S /\ (f \in C \/ tag[f] \in T)
  <2>1. CASE ts[i] = c
    BY <1>7, <1>11, <2>1
  <2>2. ASSUME NEW j \in 1..Len(b), ts[i] = b[j] PROVE f \in S /\ tag[f] \in T
    BY <1>3, <1>11, <2>2
  <2>3. QED
    BY <1>9, <2>1, <2>2
<1>12. ASSUME NEW f \in S, NEW g \in S, f # g, tag[f] = tag[g], (f \in C /\ g \in C) \/ tag[f] \in T
       PROVE  \E i \in 1..Len(ts) : Holds(ts[i], f, g)
  <2>1. \E i \in 1..Len(ts) : Has(ts[i], f) /\ Has(ts[i], g)
    <3>1. CASE f \in C /\ g \in C
      <4>1. f \in Files /\ g \in Files /\ \E i \in 1..Len(ts) : ts[i] = c
        BY <1>9, <1>12, <3>1
      <4>2. QED
        BY <1>7, <3>1, <4>1
    <3>2. CASE tag[f] \in T
      <4>1. PICK j \in 1..Len(b) : b[j] = F[tag[f]]
        BY <1>1, <3>2
      <4>2. Has(b[j], f) /\ Has(b[j], g)
        BY <1>12, <3>2, <4>1
      <4>3. PICK i \in 1..Len(ts) : ts[i] = b[j]
        BY <1>9
      <4>4. QED
        BY <4>2, <4>3
    <3>3. QED
      BY <1>12, <3>1, <3>2
  <2>2. PICK i \in 1..Len(ts) : Has(ts[i], f) /\ Has(ts[i], g)
    BY <2>1
  <2>3. ts[i].do \in {"skew", "deep", "slice", "compare"}
    BY <1>10
  <2>4. Holds(ts[i], f, g)
    BY <2>2, <2>3 DEF Holds
  <2>5. QED
    BY <2>4
<1>13. QED
  <2>1. \A i \in 1..Len(ts) : ts[i].do # "walk" /\ ts[i].do # "add" /\ ts[i].do # "hash"
    BY <1>10
  <2>2. QED
    BY <1>9, <1>11, <1>12, <2>1 DEF LadderOf

\* A step that takes the files S of a task down a ladder, noting those of X.
LadderStep(S, C, X, tag, T, ts) ==
  /\ work # <<>> /\ Head(work).do \notin {"walk", "add"}
  /\ UNCHANGED <<disk, walked, counter, cand, out, found>>
  /\ S \subseteq Files /\ C \subseteq S /\ X \subseteq S
  /\ LadderOf(ts, S, C, tag, T)
  /\ work' = ts \o Tail(work) /\ passed' = passed \cup X
  /\ \A f \in Files : Has(Head(work), f) <=> f \in S
  /\ \A f \in S : f \in X <=> ~(f \in C \/ tag[f] \in T)
  /\ \A f \in C : tag[f] \notin T
  /\ \A f, g \in S \ touched : content[f] = content[g] /\ Holds(Head(work), f, g) => tag[f] = tag[g]

LEMMA LadderDown ==
  ASSUME Types, Control, Fresh, NEW S, NEW C, NEW X, NEW tag, NEW T, NEW ts,
         LadderStep(S, C, X, tag, T, ts)
  PROVE  Down(ts)
<1> USE DEF LadderStep
<1>1. /\ ts \in Seq(Task)
      /\ \A i \in 1..Len(ts) : ts[i].do # "walk" /\ ts[i].do # "add" /\ ts[i].do # "hash"
      /\ \A f \in Files : \A i \in 1..Len(ts) : Has(ts[i], f) => f \in S /\ (f \in C \/ tag[f] \in T)
      /\ \A f \in Files : \A i, j \in 1..Len(ts) : Has(ts[i], f) /\ Has(ts[j], f) => i = j
      /\ \A f, g \in S : f # g /\ tag[f] = tag[g] /\ ((f \in C /\ g \in C) \/ tag[f] \in T) =>
           \E i \in 1..Len(ts) : Holds(ts[i], f, g)
  BY DEF LadderOf
<1>2. \A f \in X : f \in Files /\ Has(Head(work), f)
  OBVIOUS
<1>3. \A f \in Files : \A i \in 1..Len(ts) : Has(ts[i], f) => Has(Head(work), f) /\ f \notin X
  BY <1>1
<1>4. ASSUME NEW f \in Files \ touched, NEW g \in Files \ touched, f # g, content[f] = content[g],
             Holds(Head(work), f, g), {f, g} \cap X = {}
      PROVE  \E i \in 1..Len(ts) : Holds(ts[i], f, g)
  <2>1. f \in S /\ g \in S
    BY <1>4 DEF Holds
  <2>2. tag[f] = tag[g]
    BY <1>4, <2>1
  <2>3. (f \in C /\ g \in C) \/ tag[f] \in T
    BY <1>4, <2>1, <2>2
  <2>4. QED
    BY <1>1, <1>4, <2>1, <2>2, <2>3
<1>5. work # <<>> /\ Head(work).do # "walk" /\ work' = ts \o Tail(work) /\ passed' = passed \cup X
      /\ UNCHANGED <<disk, walked, counter, cand, out, found>>
  OBVIOUS
<1> HIDE DEF LadderStep
<1>6. NoteStep(ts, X)
  BY <1>1, <1>2, <1>3, <1>4, <1>5 DEF NoteStep
<1>7. QED
  BY <1>6, NoteDown

\* A step that tags the files S of a task, as far as they can be read.
PartsStep(S, tags, ts) ==
  /\ work # <<>> /\ Head(work).do \notin {"walk", "add"}
  /\ UNCHANGED <<disk, walked, counter, cand, out, found>>
  /\ S \subseteq Files /\ DOMAIN tags \subseteq S
  /\ PartsOf(ts, tags)
  /\ work' = ts \o Tail(work) /\ passed' = passed \cup (S \ DOMAIN tags)
  /\ \A f \in Files : Has(Head(work), f) <=> f \in S
  /\ \A f, g \in DOMAIN tags \ touched : content[f] = content[g] => tags[f] = tags[g]

LEMMA PartsDown ==
  ASSUME Types, Control, Fresh, NEW S, NEW tags, NEW ts, PartsStep(S, tags, ts)
  PROVE  Down(ts)
<1> USE DEF PartsStep
<1>1. /\ ts \in Seq(Task)
      /\ \A i \in 1..Len(ts) : ts[i].do \in {"prefix", "bucket"} /\ ts[i].tags = tags
      /\ \A f : \A i \in 1..Len(ts) : Has(ts[i], f) => f \in DOMAIN tags
      /\ \A f : \A i, j \in 1..Len(ts) : Has(ts[i], f) /\ Has(ts[j], f) => i = j
      /\ \A f, g \in DOMAIN tags : tags[f] = tags[g] =>
           \E i \in 1..Len(ts) : Has(ts[i], f) /\ Has(ts[i], g)
  BY DEF PartsOf
<1> DEFINE X == S \ DOMAIN tags
<1>2. \A f \in X : f \in Files /\ Has(Head(work), f)
  OBVIOUS
<1>3. \A f \in Files : \A i \in 1..Len(ts) : Has(ts[i], f) => Has(Head(work), f) /\ f \notin X
  BY <1>1
<1>4. ASSUME NEW f \in Files \ touched, NEW g \in Files \ touched, f # g, content[f] = content[g],
             Holds(Head(work), f, g), {f, g} \cap X = {}
      PROVE  \E i \in 1..Len(ts) : Holds(ts[i], f, g)
  <2>1. f \in S /\ g \in S
    BY <1>4 DEF Holds
  <2>2. f \in DOMAIN tags /\ g \in DOMAIN tags /\ tags[f] = tags[g]
    BY <1>4, <2>1
  <2>3. PICK i \in 1..Len(ts) : Has(ts[i], f) /\ Has(ts[i], g)
    BY <1>1, <2>2
  <2>4. ts[i].do \in {"prefix", "bucket"} /\ ts[i].tags = tags
    BY <1>1
  <2>5. Holds(ts[i], f, g)
    BY <2>2, <2>3, <2>4 DEF Holds
  <2>6. QED
    BY <2>5
<1>5. \A i \in 1..Len(ts) : ts[i].do # "walk" /\ ts[i].do # "add" /\ ts[i].do # "hash"
  BY <1>1
<1>6. work # <<>> /\ Head(work).do # "walk" /\ work' = ts \o Tail(work) /\ passed' = passed \cup X
      /\ UNCHANGED <<disk, walked, counter, cand, out, found>>
  OBVIOUS
<1> HIDE DEF X, PartsStep
<1>7. NoteStep(ts, X)
  BY <1>1, <1>2, <1>3, <1>4, <1>5, <1>6 DEF NoteStep
<1>8. QED
  BY <1>7, NoteDown

-----------------------------------------------------------------------------
(* One lemma for each step that takes a task down.                         *)

\* A window: what is over the cap goes down the ladder, what does not fit is
\* noted, and the rest is compared.
LEMMA WindowDown ==
  ASSUME Types, Control, Fresh, Window
  PROVE  \E ts : Down(ts)
<1> DEFINE t == Head(work)
           S == {f \in cand : InPart(walked[f], t.part, t.parts)}
           over == Over(S, walked, KeyCap)
           fit == {f \in S : walked[f] \notin over}
           win == First(fit, WindowMax)
           F == [k \in Nat |-> [do |-> "skew", key |-> k]]
           ts == CompareTask(win) \o Listing(over, F)
<1>1. work # <<>> /\ Head(work).do = "window"
  BY DEF Window, Doing, Tasks
<1>2. S \in SUBSET Files /\ win \in SUBSET fit /\ fit \in SUBSET S /\ TreeTyped
  BY FirstOfThem DEF Types, TreeTyped
<1>3. \A f \in S : walked[f] \in Nat
  BY <1>1, <1>2, HeadFacts, Constants
<1>4. over \in SUBSET Nat /\ IsFiniteSet(over)
  <2> HIDE DEF S
  <2>1. QED
    BY <1>2, <1>3, OverLists
<1>5. work' = ts \o Tail(work) /\ passed' = passed \cup (fit \ win)
  <2> DEFINE L == [i \in DOMAIN Ascending(over) |-> [do |-> "skew", key |-> Ascending(over)[i]]]
  <2>1. work' = (CompareTask(win) \o L) \o Tail(work) /\ passed' = passed \cup (fit \ win)
    BY Zenon DEF Window, Then, Tasks, Note
  <2>2. L = Listing(over, F)
    <3> HIDE DEF over
    <3>1. \A i \in DOMAIN Ascending(over) : Ascending(over)[i] \in Nat
      <4>1. Ascending(over) \in Seq(over)
        BY <1>4, AscendingLists
      <4> DEFINE a == Ascending(over)
      <4> HIDE DEF a
      <4>2. \A T : a \in Seq(T) => \A i \in DOMAIN a : a[i] \in T
        OBVIOUS
      <4>3. QED
        BY <1>4, <4>1, <4>2 DEF a
    <3>2. \A i \in DOMAIN Ascending(over) : F[Ascending(over)[i]] = [do |-> "skew", key |-> Ascending(over)[i]]
      BY <3>1
    <3> HIDE DEF F
    <3>3. QED
      BY <3>2 DEF Listing
  <2> HIDE DEF L, over, win, fit
  <2>3. QED
    BY <2>1, <2>2
<1>6. \A x \in over : \A f \in Files : Has(F[x], f) <=> f \in S /\ walked[f] = x
  <2>1. ASSUME NEW x \in over, NEW f \in Files PROVE Has(F[x], f) <=> f \in cand /\ walked[f] = x
    <3>1. F[x] = [do |-> "skew", key |-> x]
      BY <1>4
    <3>2. QED
      BY <3>1 DEF Has
  <2>2. \A x \in over : \E f \in S : walked[f] = x
    <3>1. \A x \in over : x \in {walked[f] : f \in S}
      BY DEF Over
    <3>2. QED
      BY <3>1
  <2>3. ASSUME NEW f \in cand, NEW g \in S, walked[f] = walked[g] PROVE f \in S
    BY <2>3
  <2>4. \A f \in S : f \in cand
    OBVIOUS
  <2> HIDE DEF S, over, F
  <2>5. QED
    BY <2>1, <2>2, <2>3, <2>4
<1>7. \A x \in over : F[x] \in Task /\ F[x].do \in {"skew", "deep", "slice"}
  <2>1. \A x \in Nat : F[x] = [do |-> "skew", key |-> x]
    OBVIOUS
  <2>2. \A x \in Nat : F[x] \in Task /\ F[x].do = "skew"
    BY <2>1 DEF Task
  <2> HIDE DEF over, F
  <2>3. QED
    BY <1>4, <2>2
<1>8. \A f \in Files : Has(t, f) <=> f \in S
  BY <1>1 DEF Has
<1>9. \A f \in fit : walked[f] \notin over
  OBVIOUS
<1>10. \A f \in S : f \in fit \/ walked[f] \in over
  OBVIOUS
<1>11. UNCHANGED <<disk, walked, counter, cand, out, found>>
  BY DEF Window, Tasks, Note
<1>12. \A f, g \in S : content[f] = content[g] => walked[f] = walked[g]
  BY <1>1, <1>2, HeadFacts
<1> DEFINE X == fit \ win
<1>13. X \in SUBSET S /\ (\A f \in S : f \in X <=> ~(f \in win \/ walked[f] \in over))
       /\ win \in SUBSET S /\ (\A f \in win : walked[f] \notin over)
  BY <1>2, <1>9, <1>10
<1>14. passed' = passed \cup X
  BY <1>5
<1> HIDE DEF S, over, fit, win, F, X
<1>15. LadderOf(ts, S, win, walked, over)
  BY <1>2, <1>3, <1>4, <1>6, <1>7, <1>13, Ladder
<1> HIDE DEF ts
<1>16. LadderStep(S, win, X, walked, over, ts)
  <2>1. Head(work).do \notin {"walk", "add"}
    BY <1>1
  <2>2. work' = ts \o Tail(work)
    BY <1>5
  <2>3. QED
    BY <1>1, <1>2, <1>8, <1>11, <1>12, <1>13, <1>14, <1>15, <2>1, <2>2 DEF LadderStep
<1>17. QED
  BY <1>16, LadderDown

\* What the fields of a task are.
LEMMA TaskFields ==
  ASSUME NEW t \in Task
  PROVE  /\ t.do \in {"prefix", "bucket"} =>
              t.tags \in Tagging /\ DOMAIN t.tags \subseteq Files /\ \A f \in DOMAIN t.tags : t.tags[f] \in Nat
         /\ t.do \in {"deep", "slice", "compare"} => t.files \subseteq Files
         /\ t.do = "hash" => DOMAIN t.pfx \subseteq Files /\ \A f \in DOMAIN t.pfx : t.pfx[f] \in Prints
         /\ t.do = "add" => t.groups \subseteq Filled
<1>1. ASSUME t.do \in {"prefix", "bucket"} PROVE t.tags \in Tagging
  BY <1>1 DEF Task
<1>2. \A m \in Tagging : DOMAIN m \subseteq Files /\ \A f \in DOMAIN m : m[f] \in Nat
  BY DEF Tagging
<1>3. t.do \in {"deep", "slice", "compare"} => t.files \subseteq Files
  BY DEF Task
<1>4. t.do = "hash" => DOMAIN t.pfx \subseteq Files /\ \A f \in DOMAIN t.pfx : t.pfx[f] \in Prints
  BY DEF Task
<1>5. t.do = "add" => t.groups \subseteq Filled
  BY DEF Task
<1>6. QED
  BY <1>1, <1>2, <1>3, <1>4, <1>5

\* What it takes to hold a pair.
LEMMA PlainHolds ==
  ASSUME NEW t, t.do \in {"window", "skew", "deep", "slice", "compare", "hash"}
  PROVE  \A f, g : Holds(t, f, g) <=> Has(t, f) /\ Has(t, g)
  BY DEF Holds

LEMMA TagsHold ==
  ASSUME NEW t, t.do \in {"prefix", "bucket"}
  PROVE  \A f, g : Holds(t, f, g) <=> Has(t, f) /\ Has(t, g) /\ t.tags[f] = t.tags[g]
  BY DEF Holds

LEMMA AscendingIn ==
  ASSUME NEW T \in SUBSET Nat, IsFiniteSet(T)
  PROVE  \A i \in DOMAIN Ascending(T) : Ascending(T)[i] \in T
<1> DEFINE a == Ascending(T)
<1>1. a \in Seq(T)
  BY AscendingLists
<1> HIDE DEF a
<1>2. \A i \in DOMAIN a : a[i] \in T
  BY <1>1
<1>3. QED
  BY <1>2 DEF a

\* A slice: one group, cut at the ceiling.
LEMMA SliceDown ==
  ASSUME Types, Control, Fresh, Slice
  PROVE  \E ts : Down(ts)
<1> DEFINE S == Head(work).files
           kept == First(S, FileCap)
           X == S \ kept
           ts == CompareTask(kept)
<1>1. work # <<>> /\ Head(work).do = "slice" /\ TreeTyped
  BY DEF Slice, Doing, Types
<1>2. S \subseteq Files /\ kept \subseteq S
  BY <1>1, HeadFacts, TaskFields, FirstOfThem
<1>3. work' = ts \o Tail(work) /\ passed' = passed \cup X
      /\ UNCHANGED <<disk, walked, counter, cand, out, found>>
  BY DEF Slice, Note, Then
<1>4. \A f : Has(Head(work), f) <=> f \in S
  BY <1>1 DEF Has
<1>5. /\ ts \in Seq(Task) /\ Len(ts) \in {0, 1}
      /\ \A i \in 1..Len(ts) : ts[i] = [do |-> "compare", files |-> kept]
      /\ \A f, g \in kept : f # g => Len(ts) = 1
  BY <1>1, <1>2, CompareTasks
<1> HIDE DEF S, kept, ts
<1>6. \A i \in 1..Len(ts) : ts[i].do = "compare" /\ \A f : Has(ts[i], f) <=> f \in kept
  BY <1>5 DEF Has
<1>7. \A i, j \in 1..Len(ts) : i = j
  BY <1>5
<1>8. ASSUME NEW f \in Files, NEW g \in Files, f # g, Holds(Head(work), f, g), {f, g} \cap X = {}
      PROVE  \E i \in 1..Len(ts) : Holds(ts[i], f, g)
  <2>1. f \in S /\ g \in S
    BY <1>1, <1>4, <1>8, PlainHolds
  <2>2. f \in kept /\ g \in kept
    BY <1>8, <2>1
  <2>3. 1 \in 1..Len(ts)
    <3>1. Len(ts) = 1
      BY <1>5, <1>8, <2>2
    <3>2. QED
      BY <3>1
  <2>4. Holds(ts[1], f, g)
    BY <1>6, <2>2, <2>3, PlainHolds
  <2>5. QED
    BY <2>3, <2>4
<1>9. \A f \in X : f \in Files /\ Has(Head(work), f)
  BY <1>2, <1>4
<1>10. \A f \in Files : \A i \in 1..Len(ts) : Has(ts[i], f) => Has(Head(work), f) /\ f \notin X
  BY <1>2, <1>4, <1>6
<1>11. \A i \in 1..Len(ts) : ts[i].do # "walk" /\ ts[i].do # "add" /\ ts[i].do # "hash"
  BY <1>6
<1> HIDE DEF X
<1>12. NoteStep(ts, X)
  BY <1>1, <1>3, <1>5, <1>7, <1>8, <1>9, <1>10, <1>11 DEF NoteStep
<1>13. QED
  BY <1>12, NoteDown

\* A partition of the prefixes: it goes down whole when it does not fit.
LEMMA PrefixDown ==
  ASSUME Types, Control, Fresh, Prefix
  PROVE  \E ts : Down(ts)
<1> DEFINE t == Head(work)
           tag == t.tags
           S == {f \in DOMAIN t.tags : InPart(t.tags[f], t.part, t.parts)}
           over == Over(S, t.tags, KeyCap)
           fit == {f \in S : t.tags[f] \notin over}
           F == [x \in over |-> DeepTask({f \in S : t.tags[f] = x})]
<1>1. work # <<>> /\ t.do = "prefix" /\ TreeTyped
  BY DEF Prefix, Doing, Types, PrefixTasks, Tasks
<1>2. S \subseteq DOMAIN tag /\ DOMAIN tag \subseteq Files /\ \A f \in DOMAIN tag : tag[f] \in Nat
  BY <1>1, HeadFacts, TaskFields
<1>3. UNCHANGED <<disk, walked, counter, cand, out, found>> /\ passed' = passed
  BY DEF Prefix, heap, PrefixTasks, Tasks
<1>4. \A f : Has(t, f) <=> f \in S
  BY <1>1 DEF Has
<1>5. CASE Cardinality(fit) > WindowMax
  <2> DEFINE ts == <<DeepTask(S)>>
  <2>1. work' = ts \o Tail(work)
    BY <1>5, Zenon DEF Prefix, PrefixTasks, Then
  <2>2. DeepTask(S) \in Task /\ DeepTask(S).do = "deep" /\ \A f : Has(DeepTask(S), f) <=> f \in S
    BY <1>2 DEF DeepTask, Task, Has
  <2> HIDE DEF S
  <2>3. ts \in Seq(Task) /\ Len(ts) = 1 /\ ts[1] = DeepTask(S)
    BY <2>2
  <2>4. \A f, g : Has(t, f) /\ Has(t, g) => Holds(ts[1], f, g)
    BY <1>4, <2>2, <2>3, PlainHolds
  <2>5. \A f, g : Holds(t, f, g) => Has(t, f) /\ Has(t, g)
    BY <1>1, TagsHold
  <2> HIDE DEF ts
  <2>6. \A i \in 1..Len(ts) : i = 1
    BY <2>3
  <2>7. passed' = passed \cup {}
    BY <1>3
  <2>8. \A i \in 1..Len(ts) : ts[i].do = "deep" /\ \A f : Has(ts[i], f) <=> Has(t, f)
    BY <1>4, <2>2, <2>3, <2>6
  <2>9. 1 \in 1..Len(ts)
    BY <2>3
  <2>10. NoteStep(ts, {})
    BY <1>1, <1>3, <2>1, <2>3, <2>4, <2>5, <2>6, <2>7, <2>8, <2>9 DEF NoteStep
  <2>11. QED
    BY <2>10, NoteDown
<1>6. CASE ~(Cardinality(fit) > WindowMax)
  <2> DEFINE L == [i \in DOMAIN Ascending(over) |-> DeepTask({f \in S : t.tags[f] = Ascending(over)[i]})]
             ts == CompareTask(fit) \o Listing(over, F)
  <2>1. work' = (CompareTask(fit) \o L) \o Tail(work)
    BY <1>6, Zenon DEF Prefix, PrefixTasks, Then, Tasks
  <2>2. over \in SUBSET Nat /\ IsFiniteSet(over)
    <3>1. S \in SUBSET Files /\ \A f \in S : tag[f] \in Nat
      BY <1>2
    <3> HIDE DEF S, tag
    <3>2. Over(S, tag, KeyCap) \in SUBSET Nat /\ IsFiniteSet(Over(S, tag, KeyCap))
      BY <1>1, <3>1, OverLists
    <3>3. QED
      BY <3>2 DEF tag
  <2>3. L = Listing(over, F)
    <3>1. \A i \in DOMAIN Ascending(over) : Ascending(over)[i] \in over
      <4> HIDE DEF over
      <4>1. QED
        BY <2>2, AscendingIn
    <3> HIDE DEF over, S
    <3>2. \A i \in DOMAIN Ascending(over) : F[Ascending(over)[i]] = DeepTask({f \in S : t.tags[f] = Ascending(over)[i]})
      BY <3>1
    <3> HIDE DEF F
    <3>3. QED
      BY <3>2 DEF Listing
  <2>4. \A x \in over : F[x] = DeepTask({f \in S : tag[f] = x})
    OBVIOUS
  <2>5. \A f \in S : f \in fit <=> tag[f] \notin over
    OBVIOUS
  <2>6. fit \in SUBSET S /\ S \in SUBSET Files
    BY <1>2
  <2>7. work' = ts \o Tail(work)
    <3> HIDE DEF L, F, over, fit
    <3>1. QED
      BY <2>1, <2>3
  <2>8. \A f, g : Holds(t, f, g) => tag[f] = tag[g]
    BY <1>1, TagsHold
  <2> HIDE DEF S, fit, F, over, tag
  <2>9. ASSUME NEW x \in over
        PROVE  F[x] \in Task /\ F[x].do \in {"skew", "deep", "slice"}
               /\ \A f \in Files : Has(F[x], f) <=> f \in S /\ tag[f] = x
    <3> DEFINE Y == {f \in S : tag[f] = x}
    <3>1. F[x] = [do |-> "deep", files |-> Y] /\ Y \in SUBSET Files
      BY <2>4, <2>6 DEF DeepTask
    <3>2. \A f : f \in Y <=> f \in S /\ tag[f] = x
      OBVIOUS
    <3> HIDE DEF Y
    <3>3. QED
      BY <3>1, <3>2 DEF Task, Has
  <2>10. LadderOf(ts, S, fit, tag, over)
    BY <1>1, <2>2, <2>5, <2>6, <2>9, Ladder
  <2> HIDE DEF ts
  <2>11. passed' = passed \cup {}
    BY <1>3
  <2>12. LadderStep(S, fit, {}, tag, over, ts)
    BY <1>1, <1>3, <1>4, <2>5, <2>6, <2>7, <2>8, <2>10, <2>11 DEF LadderStep
  <2>13. QED
    BY <2>12, LadderDown
<1>7. QED
  BY <1>5, <1>6

\* A partition of the full hashes: each tag by itself when it does not fit.
LEMMA BucketDown ==
  ASSUME Types, Control, Fresh, Bucket
  PROVE  \E ts : Down(ts)
<1> DEFINE t == Head(work)
           tag == t.tags
           S == {f \in DOMAIN t.tags : InPart(t.tags[f], t.part, t.parts)}
           over == Over(S, t.tags, FileCap)
           fit == {f \in S : t.tags[f] \notin over}
           crowded == Cardinality(fit) > WindowMax
           tags == {t.tags[f] : f \in S}
           T == IF crowded THEN tags ELSE over
           C == IF crowded THEN {} ELSE fit
           F == [x \in T |-> SliceTask({f \in S : t.tags[f] = x})]
           L == [i \in DOMAIN Ascending(T) |-> SliceTask({f \in S : t.tags[f] = Ascending(T)[i]})]
           ts == CompareTask(C) \o Listing(T, F)
<1>0. Doing("bucket") /\ UNCHANGED <<disk, walked, counter, cand, cache, heap, out, passed>>
  BY Zenon DEF Bucket
<1>1. work # <<>> /\ t.do = "bucket" /\ TreeTyped
  BY <1>0 DEF Doing, Types
<1>2. S \subseteq DOMAIN tag /\ DOMAIN tag \subseteq Files /\ \A f \in DOMAIN tag : tag[f] \in Nat
  BY <1>1, HeadFacts, TaskFields
<1>3. UNCHANGED <<disk, walked, counter, cand, out, found>> /\ passed' = passed
  BY <1>0 DEF heap
<1>4. \A f : Has(t, f) <=> f \in S
  BY <1>1 DEF Has
<1>5. work' = (CompareTask(C) \o L) \o Tail(work)
  BY Zenon DEF Bucket, Slices, Then, Tasks
<1>6. over \in SUBSET Nat /\ IsFiniteSet(over) /\ tags \in SUBSET Nat /\ IsFiniteSet(tags)
  <2>1. S \in SUBSET Files /\ \A f \in S : tag[f] \in Nat
    BY <1>2
  <2> HIDE DEF S, tag
  <2>2. /\ Over(S, tag, FileCap) \in SUBSET Nat /\ IsFiniteSet(Over(S, tag, FileCap))
        /\ {tag[f] : f \in S} \in SUBSET Nat /\ IsFiniteSet({tag[f] : f \in S})
    BY <1>1, <2>1, OverLists
  <2>3. QED
    BY <2>2 DEF tag
<1>7. \A f \in S : tag[f] \in tags /\ (f \in fit <=> tag[f] \notin over)
  OBVIOUS
<1>8. fit \in SUBSET S /\ S \in SUBSET Files
  BY <1>2
<1>9. T \in SUBSET Nat /\ IsFiniteSet(T) /\ C \in SUBSET S
      /\ (\A f \in S : f \in C \/ tag[f] \in T) /\ (\A f \in C : tag[f] \notin T)
  <2> HIDE DEF S, over, fit, tags, crowded, tag
  <2>1. QED
    BY <1>6, <1>7, <1>8
<1> HIDE DEF T, C
<1>10. L = Listing(T, F)
  <2>1. \A i \in DOMAIN Ascending(T) : Ascending(T)[i] \in T
    BY <1>9, AscendingIn
  <2> HIDE DEF S
  <2>2. \A i \in DOMAIN Ascending(T) : F[Ascending(T)[i]] = SliceTask({f \in S : t.tags[f] = Ascending(T)[i]})
    BY <2>1
  <2> HIDE DEF F
  <2>3. QED
    BY <2>2 DEF Listing
<1>11. work' = ts \o Tail(work)
  <2> HIDE DEF L, F
  <2>1. QED
    BY <1>5, <1>10
<1>12. \A x \in T : F[x] = SliceTask({f \in S : tag[f] = x})
  OBVIOUS
<1>13. \A f, g : Holds(t, f, g) => tag[f] = tag[g]
  BY <1>1, TagsHold
<1> HIDE DEF S, fit, F, over, tag, tags, crowded
<1>14. ASSUME NEW x \in T
       PROVE  F[x] \in Task /\ F[x].do \in {"skew", "deep", "slice"}
              /\ \A f \in Files : Has(F[x], f) <=> f \in S /\ tag[f] = x
  <2> DEFINE Y == {f \in S : tag[f] = x}
  <2>1. F[x] = [do |-> "slice", files |-> Y] /\ Y \in SUBSET Files
    BY <1>8, <1>12 DEF SliceTask
  <2>2. \A f : f \in Y <=> f \in S /\ tag[f] = x
    OBVIOUS
  <2> HIDE DEF Y
  <2>3. QED
    BY <2>1, <2>2 DEF Task, Has
<1>15. LadderOf(ts, S, C, tag, T)
  BY <1>1, <1>8, <1>9, <1>14, Ladder
<1> HIDE DEF ts
<1>16. passed' = passed \cup {}
  BY <1>3
<1>17. LadderStep(S, C, {}, tag, T, ts)
  BY <1>1, <1>3, <1>4, <1>8, <1>9, <1>11, <1>13, <1>15, <1>16 DEF LadderStep
<1>18. QED
  BY <1>17, LadderDown

\* The first rung of a key: the prefix of every file of it that can be read.
LEMMA SkewDown ==
  ASSUME Types, Control, Fresh, Skew
  PROVE  \E ts : Down(ts)
<1> DEFINE S == {f \in cand : walked[f] = Head(work).key}
           sub == [f \in S \ broken |-> content[f].pfx]
           n == Cardinality(DOMAIN sub)
           ts == PartsListing("prefix", sub, n)
<1>1. work # <<>> /\ Head(work).do = "skew" /\ cand \subseteq Files
  BY DEF Skew, Doing, Types, TreeTyped, PartTasks
<1>2. work' = ts \o Tail(work)
  BY Zenon DEF Skew, Then, PartTasks, PartsListing
<1>3. passed' = passed \cup (S \cap broken) /\ UNCHANGED <<disk, walked, counter, cand, out, found>>
  BY DEF Skew, Note, PartTasks
<1>4. DOMAIN sub = S \ broken /\ \A f \in S \ broken : sub[f] = content[f].pfx
  OBVIOUS
<1>5. \A f : Has(Head(work), f) <=> f \in S
  BY <1>1 DEF Has
<1>6. S \subseteq Files
  BY <1>1
<1>7. \A f \in S : content[f].pfx \in Nat
  BY <1>1, <1>6, HeadFacts, ContentsAssumption
<1> DEFINE D == S \ broken
<1>8. sub \in [D -> Nat] /\ D \in SUBSET Files
  BY <1>6, <1>7
<1> HIDE DEF S, sub
<1>9. sub \in Tagging
  BY <1>8 DEF Tagging
<1>10. n \in Nat
  BY <1>4, <1>8, FilesFinite, FS_Subset, FS_CardinalityType DEF Types
<1>11. PartsOf(ts, sub)
  BY <1>9, <1>10, PartsList
<1>12. passed' = passed \cup (S \ DOMAIN sub)
  BY <1>3, <1>4
<1> HIDE DEF ts
<1>13. PartsStep(S, sub, ts)
  BY <1>1, <1>2, <1>3, <1>4, <1>5, <1>6, <1>11, <1>12 DEF PartsStep
<1>14. QED
  BY <1>13, PartsDown

\* The store answers with a hash, the right one for a file that nobody touched.
LEMMA StoreAnswers ==
  ASSUME TreeTyped, Answers, NEW f \in Files, NEW p \in Prints
  PROVE  /\ FullOf(f, p) \in Fulls
         /\ f \notin touched /\ p = content[f].pfx => FullOf(f, p) = content[f].full
<1>1. content[f] \in Contents /\ cache[f] \in Read \cup {None} /\ p \in Nat
  BY Constants DEF TreeTyped, Files
<1>2. content[f].full \in Fulls
  BY <1>1 DEF Fulls
<1>3. CASE cache[f] = None
  <2>1. ~Hit(f, p)
    BY <1>1, <1>3 DEF Hit, None
  <2>2. QED
    BY <1>2, <2>1 DEF FullOf
<1>4. CASE cache[f] # None
  <2>1. cache[f].full \in Fulls
    BY <1>1, <1>4 DEF Read
  <2>2. f \notin touched => cache[f] = [pfx |-> content[f].pfx, full |-> content[f].full]
    BY <1>4 DEF Answers
  <2>3. f \notin touched => cache[f].full = content[f].full
    BY <2>2
  <2>4. QED
    BY <1>2, <2>1, <2>3 DEF FullOf
<1>5. QED
  BY <1>3, <1>4

\* What is recorded is the truth about a file that nobody touched.
LEMMA StoreKept ==
  ASSUME TreeTyped, Answers, NEW S \in SUBSET Files, NEW p,
         \A f \in S : p[f] \in Prints /\ (f \notin touched => p[f] = content[f].pfx),
         cache' = Recorded(S, p), UNCHANGED disk
  PROVE  cache' \in [Files -> Read \cup {None}] /\ Answers'
<1>1. \A f \in Files : content[f] \in Contents /\ cache[f] \in Read \cup {None}
  BY DEF TreeTyped, Files
<1>2. \A f \in Files : content[f].full \in Fulls
  BY <1>1 DEF Fulls
<1>3. \A f \in Files : cache'[f] = cache[f]
                       \/ (f \in S /\ cache'[f] = [pfx |-> p[f], full |-> content[f].full])
  <2>1. \A f \in Files : cache'[f] = IF f \in S /\ ~Hit(f, p[f])
                                     THEN [pfx |-> p[f], full |-> content[f].full] ELSE cache[f]
    BY DEF Recorded
  <2>2. ASSUME NEW f \in Files PROVE cache'[f] = cache[f]
                       \/ (f \in S /\ cache'[f] = [pfx |-> p[f], full |-> content[f].full])
    <3> DEFINE r == [pfx |-> p[f], full |-> content[f].full]
    <3>1. cache'[f] = IF f \in S /\ ~Hit(f, p[f]) THEN r ELSE cache[f]
      BY <2>1
    <3> HIDE DEF r
    <3>2. cache'[f] = cache[f] \/ (f \in S /\ cache'[f] = r)
      BY <3>1
    <3>3. QED
      BY <3>2 DEF r
  <2>3. QED
    BY <2>2
<1>4. cache' \in [Files -> Read \cup {None}]
  <2>1. ASSUME NEW f \in Files PROVE cache'[f] \in Read \cup {None}
    <3>1. f \in S => [pfx |-> p[f], full |-> content[f].full] \in Read
      BY <1>2 DEF Read
    <3>2. QED
      BY <1>1, <1>3, <3>1
  <2>2. cache' = [f \in Files |-> cache'[f]]
    BY DEF Recorded
  <2>3. QED
    BY <2>1, <2>2
<1>5. content' = content /\ touched' = touched /\ Files' = Files
  BY DEF disk, Files
<1>6. \A f \in Files \ touched :
        cache'[f] \in {None, [pfx |-> content[f].pfx, full |-> content[f].full]}
  BY <1>3 DEF Answers
<1>7. QED
  BY <1>4, <1>5, <1>6 DEF Answers

\* The second rung: the full hash of every file that can be read.
LEMMA DeepDown ==
  ASSUME Types, Control, Answers, Fresh, Deep
  PROVE  (\E ts : Down(ts)) /\ cache' \in [Files -> Read \cup {None}] /\ Answers'
<1> DEFINE S == Head(work).files
           D == S \ broken
           pfx == [f \in S \ broken |-> content[f].pfx]
           full == [f \in S \ broken |-> FullOf(f, pfx[f])]
           n == Cardinality(DOMAIN full)
           ts == PartsListing("bucket", full, n)
<1>1. Doing("deep") /\ UNCHANGED <<disk, walked, counter, cand, acc, dropG, found, out>>
  BY Zenon DEF Deep
<1>2. work # <<>> /\ Head(work).do = "deep" /\ TreeTyped
  BY <1>1 DEF Doing, Types
<1>3. work' = ts \o Tail(work)
  BY Zenon DEF Deep, Then, PartTasks, PartsListing
<1>4. passed' = passed \cup (S \cap broken) /\ cache' = Recorded(DOMAIN full, pfx)
  BY Zenon DEF Deep, Note
<1>5. DOMAIN full = D /\ (\A f \in D : pfx[f] = content[f].pfx /\ full[f] = FullOf(f, pfx[f]))
  OBVIOUS
<1>6. S \subseteq Files /\ D \in SUBSET Files /\ \A f \in Files : content[f] \in Contents
  BY <1>2, HeadFacts, TaskFields
<1>7. \A f : Has(Head(work), f) <=> f \in S
  BY <1>2 DEF Has
<1>8. \A f \in D : pfx[f] \in Prints
  BY <1>5, <1>6 DEF Prints
<1>9. full \in [D -> Nat]
  <2>1. \A f \in D : FullOf(f, pfx[f]) \in Nat
    <3> HIDE DEF pfx, D
    <3>1. QED
      BY <1>2, <1>6, <1>8, StoreAnswers, Constants
  <2>2. QED
    BY <2>1
<1>10. \A f \in D : f \notin touched => full[f] = content[f].full
  <2> HIDE DEF pfx, full, D
  <2>1. QED
    BY <1>2, <1>5, <1>6, <1>8, StoreAnswers
<1> HIDE DEF full
<1>11. cache' = Recorded(D, pfx)
  BY <1>4, <1>5
<1>12. \A f \in D : pfx[f] = content[f].pfx
  BY <1>5
<1> HIDE DEF pfx, D
<1>13. full \in Tagging
  BY <1>6, <1>9 DEF Tagging
<1>14. n \in Nat
  BY <1>2, <1>5, <1>6, FilesFinite, FS_Subset, FS_CardinalityType
<1>15. PartsOf(ts, full)
  BY <1>13, <1>14, PartsList
<1>16. cache' \in [Files -> Read \cup {None}] /\ Answers'
  BY <1>1, <1>2, <1>6, <1>8, <1>11, <1>12, StoreKept
<1>17. DOMAIN full \subseteq S /\ S \cap broken = S \ DOMAIN full
  BY <1>5 DEF D
<1>18. passed' = passed \cup (S \ DOMAIN full)
  BY <1>4, <1>17
<1>19. \A f, g \in DOMAIN full \ touched : content[f] = content[g] => full[f] = full[g]
  BY <1>5, <1>10
<1> HIDE DEF ts, S
<1>20. PartsStep(S, full, ts)
  BY <1>1, <1>2, <1>3, <1>6, <1>7, <1>15, <1>17, <1>18, <1>19 DEF PartsStep
<1>21. QED
  BY <1>16, <1>20, PartsDown

\* The first pass of a comparison: two equal files that nobody touched pass it.
LEMMA CompareDown ==
  ASSUME Types, Control, Fresh, Compare
  PROVE  \E ts : Down(ts)
<1> DEFINE S == Head(work).files
           pending == {f \in S : \E g \in S \ {f} : walked[g] = walked[f]} \ broken
           pfx == [f \in pending |-> content[f].pfx]
           left == {f \in pending : \E g \in pending \ {f} : walked[f] = walked[g] /\ pfx[f] = pfx[g]}
           read == [f \in left |-> pfx[f]]
           t == [do |-> "hash", pfx |-> read]
           ts == IF left = {} THEN <<>> ELSE <<t>>
<1>1. Doing("compare") /\ UNCHANGED <<disk, walked, counter, cand, cache, heap, out, passed>>
  BY Zenon DEF Compare
<1>2. work # <<>> /\ Head(work).do = "compare" /\ TreeTyped
  BY <1>1 DEF Doing, Types
<1>3. UNCHANGED <<disk, walked, counter, cand, out, found>> /\ passed' = passed \cup {}
  BY <1>1 DEF heap
<1>4. work' = ts \o Tail(work)
  BY Zenon DEF Compare, Then
<1>5. S \subseteq Files /\ (\A f \in Files : content[f] \in Contents /\ walked[f] = content[f].size)
  BY <1>2, HeadFacts, TaskFields
<1>6. \A f : Has(Head(work), f) <=> f \in S
  BY <1>2 DEF Has
<1>7. pending \subseteq S /\ left \subseteq pending /\ \A f \in pending : pfx[f] = content[f].pfx
  OBVIOUS
<1>8. \A f \in S, g \in S : f # g /\ walked[f] = walked[g] /\ f \notin broken => f \in pending
  OBVIOUS
<1>9. \A f \in pending, g \in pending : f # g /\ walked[f] = walked[g] /\ pfx[f] = pfx[g] => f \in left
  OBVIOUS
<1> HIDE DEF pending, S
<1>10. DOMAIN read = left /\ \A f \in left : read[f] = pfx[f]
  OBVIOUS
<1>11. read = [f \in left |-> read[f]]
  OBVIOUS
<1> HIDE DEF pfx, left, read
<1>12. \A f \in left : read[f] \in Prints /\ read[f] = content[f].pfx
  BY <1>5, <1>7, <1>10 DEF Prints
<1>13. t \in Task
  <2>1. left \in SUBSET Files /\ read \in [left -> Prints]
    BY <1>5, <1>7, <1>11, <1>12
  <2>2. read \in UNION {[U -> Prints] : U \in SUBSET Files}
    BY <2>1
  <2>3. QED
    BY <2>2 DEF Task
<1>14. t.do = "hash" /\ t.pfx = read /\ \A f : Has(t, f) <=> f \in left
  BY <1>10 DEF Has
<1> HIDE DEF t
<1>15. \A f, g : f \in left /\ g \in left => Holds(t, f, g)
  BY <1>14, PlainHolds
<1>16. /\ ts \in Seq(Task) /\ Len(ts) \in {0, 1} /\ (left # {} => Len(ts) = 1)
       /\ \A i \in 1..Len(ts) : ts[i] = t
  <2>1. CASE left = {}
    BY <2>1
  <2>2. CASE left # {}
    BY <1>13, <2>2
  <2>3. QED
    BY <2>1, <2>2
<1> HIDE DEF ts
<1>17. \A i, j \in 1..Len(ts) : i = j
  BY <1>16
<1>18. ASSUME NEW f \in Files \ touched, NEW g \in Files \ touched, f # g, content[f] = content[g],
              Holds(Head(work), f, g)
       PROVE  \E i \in 1..Len(ts) : Holds(ts[i], f, g)
  <2>1. f \in S /\ g \in S
    BY <1>2, <1>6, <1>18, PlainHolds
  <2>2. f \notin broken /\ g \notin broken
    BY <1>2 DEF TreeTyped
  <2>3. f \in pending /\ g \in pending
    BY <1>5, <1>8, <1>18, <2>1, <2>2
  <2>4. f \in left /\ g \in left
    BY <1>5, <1>7, <1>9, <1>18, <2>3
  <2>5. Len(ts) = 1
    BY <1>16, <2>4
  <2>6. 1 \in 1..Len(ts)
    BY <2>5
  <2>7. QED
    BY <1>15, <1>16, <2>4, <2>6
<1>19. \A f \in Files : \A i \in 1..Len(ts) : Has(ts[i], f) => Has(Head(work), f)
  BY <1>6, <1>7, <1>14, <1>16
<1>20. \A i \in 1..Len(ts) : ts[i].do = "hash" /\ \A f \in DOMAIN ts[i].pfx : ts[i].pfx[f] = content[f].pfx
  BY <1>10, <1>12, <1>14, <1>16
<1>21. NoteStep(ts, {})
  BY <1>2, <1>3, <1>4, <1>16, <1>17, <1>18, <1>19, <1>20 DEF NoteStep
<1>22. QED
  BY <1>21, NoteDown

\* The next group is offered to the accumulator.
LEMMA AddDown ==
  ASSUME Types, Control, Fresh, Apart, Add
  PROVE  \E ts : Down(ts)
<1> DEFINE t == Head(work)
<1>1. Doing("add") /\ UNCHANGED <<disk, walked, counter, cand, cache, out, passed>>
  BY Zenon DEF Add
<1>2. work # <<>> /\ t.do = "add" /\ TreeTyped /\ found \in Seq(Filled)
  BY <1>1 DEF Doing, Types, WorkTyped
<1>3. t = work[1] /\ 1 \in 1..Len(work) /\ t.groups \subseteq Filled
  BY <1>2, HeadFacts, TaskFields
<1>4. PICK g \in t.groups :
        /\ found' = Append(found, g)
        /\ work' = (IF t.groups \ {g} = {} THEN <<>> ELSE <<[do |-> "add", groups |-> t.groups \ {g}]>>) \o Tail(work)
  BY Zenon DEF Add, Then
<1> DEFINE rest == t.groups \ {g}
           r == [do |-> "add", groups |-> rest]
           ts == IF rest = {} THEN <<>> ELSE <<r>>
<1>5. work' = ts \o Tail(work)
  BY <1>4
<1>6. r.do = "add" /\ r.groups = rest /\ r \in Task
  BY <1>3 DEF Task
<1> HIDE DEF r
<1>7. /\ ts \in Seq(Task) /\ Len(ts) \in {0, 1} /\ (rest # {} => Len(ts) = 1)
      /\ \A i \in 1..Len(ts) : ts[i] = r
  <2>1. CASE rest = {}
    BY <2>1
  <2>2. CASE rest # {}
    BY <1>6, <2>2
  <2>3. QED
    BY <2>1, <2>2
<1> HIDE DEF ts
<1>8. \A h, k \in t.groups : h # k => h.files \cap k.files = {}
  BY <1>2, <1>3 DEF Apart
<1>9. Len(found) \in Nat /\ Len(found') = Len(found) + 1 /\ found'[Len(found) + 1] = g
      /\ \A i \in 1..Len(found) : found'[i] = found[i]
  <2>1. g \in Filled
    BY <1>3
  <2>2. QED
    BY <1>2, <1>4, <2>1, AppendProperties
<1>10. \A i \in 1..Len(found') : i \in 1..Len(found) \/ i = Len(found) + 1
  BY <1>9
<1>11. ASSUME NEW f \in Files, NEW i \in 1..Len(ts), Has(ts[i], f) PROVE Has(t, f) /\ ~Settled(f)'
  <2>1. PICK h \in rest : f \in h.files
    BY <1>6, <1>7, <1>11 DEF Has
  <2>2. Has(t, f)
    BY <1>2, <2>1 DEF Has
  <2>3. ~Settled(f)
    BY <1>3, <2>2 DEF Fresh
  <2>4. f \notin g.files
    BY <1>8, <2>1
  <2>5. QED
    BY <1>1, <1>9, <1>10, <2>2, <2>3, <2>4 DEF Settled
<1>12. \A i, j \in 1..Len(ts) : i = j
  BY <1>7
<1>13. ASSUME NEW f \in Files \ touched, NEW x \in Files \ touched, Holds(t, f, x)
       PROVE  \/ \E i \in 1..Len(ts) : Holds(ts[i], f, x)
              \/ \E i \in 1..Len(found') : Lists(found'[i], f, x)
  <2>1. PICK h \in t.groups : Lists(h, f, x)
    BY <1>2, <1>13 DEF Holds
  <2>2. CASE h = g
    <3>1. Len(found) + 1 \in 1..Len(found')
      BY <1>9
    <3>2. QED
      BY <1>9, <2>1, <2>2, <3>1
  <2>3. CASE h # g
    <3>1. h \in rest
      BY <2>3
    <3>2. Len(ts) = 1
      BY <1>7, <3>1
    <3>3. 1 \in 1..Len(ts) /\ ts[1] = r
      BY <1>7, <3>2
    <3>4. Holds(r, f, x)
      BY <1>6, <2>1, <3>1 DEF Holds
    <3>5. QED
      BY <3>3, <3>4
  <2>4. QED
    BY <2>2, <2>3
<1>14. \A i \in 1..Len(ts) :
         /\ ts[i].do = "add"
         /\ \A h, k \in ts[i].groups : h # k => h.files \cap k.files = {}
  BY <1>6, <1>7, <1>8
<1>15. passed \subseteq Files /\ passed' = passed /\ UNCHANGED <<disk, walked, counter, cand, out>>
       /\ \E h \in t.groups : found' = Append(found, h)
  BY <1>1, <1>2, <1>4 DEF TreeTyped
<1>16. Down(ts)
  BY <1>2, <1>5, <1>7, <1>11, <1>12, <1>13, <1>14, <1>15 DEF Down
<1>17. QED
  BY <1>16

\* The second pass: the groups of a comparison share no file, and two equal
\* files that nobody touched are in one, or were cut from one.
LEMMA HashDown ==
  ASSUME Types, Control, Answers, Fresh, ReadRight, Hash
  PROVE  (\E ts : Down(ts)) /\ cache' \in [Files -> Read \cup {None}] /\ Answers'
<1> DEFINE pfx == Head(work).pfx
           read == {f \in DOMAIN pfx : Hit(f, pfx[f]) \/ f \notin broken}
           full == [f \in read |-> FullOf(f, pfx[f])]
           class(f) == {g \in read : walked[g] = walked[f] /\ full[g] = full[f]}
           many == {g \in read : Cardinality(class(g)) >= 2}
           group(f) == [size |-> walked[f], hash |-> full[f], files |-> First(class(f), FileCap),
                        extra |-> Cardinality(class(f) \ First(class(f), FileCap))]
           groups == {group(f) : f \in many}
           t == [do |-> "add", groups |-> groups]
           ts == IF groups = {} THEN <<>> ELSE <<t>>
<1>1. Doing("hash") /\ UNCHANGED <<disk, walked, counter, cand, heap, out, passed>>
  BY Zenon DEF Hash
<1>2. work # <<>> /\ Head(work).do = "hash" /\ TreeTyped /\ Head(work) = work[1] /\ 1 \in 1..Len(work)
  BY <1>1, HeadFacts DEF Doing, Types
<1>3. UNCHANGED <<disk, walked, counter, cand, out, found>> /\ passed' = passed
  BY <1>1 DEF heap
<1>4. work' = ts \o Tail(work) /\ cache' = Recorded(read, pfx)
  BY Zenon DEF Hash, Then
<1>5. DOMAIN pfx \subseteq Files /\ (\A f \in DOMAIN pfx : pfx[f] \in Prints)
      /\ (\A f \in Files : content[f] \in Contents /\ walked[f] = content[f].size /\ walked[f] \in Keys)
  BY <1>2, HeadFacts, TaskFields
<1>6. \A f : Has(Head(work), f) <=> f \in DOMAIN pfx
  BY <1>2 DEF Has
<1>7. \A f \in DOMAIN pfx : f \notin touched => pfx[f] = content[f].pfx
  BY <1>2 DEF ReadRight
<1>8. read \subseteq DOMAIN pfx /\ \A f \in DOMAIN pfx : f \notin broken => f \in read
  OBVIOUS
<1>9. \A f \in read : full[f] = FullOf(f, pfx[f])
  OBVIOUS
<1> HIDE DEF pfx, read, full
<1>10. \A f \in read : full[f] \in Fulls /\ (f \notin touched => full[f] = content[f].full)
  BY <1>2, <1>5, <1>7, <1>8, <1>9, StoreAnswers
<1>11. cache' \in [Files -> Read \cup {None}] /\ Answers'
  <2>1. read \in SUBSET Files /\ \A f \in read : pfx[f] \in Prints /\ (f \notin touched => pfx[f] = content[f].pfx)
    BY <1>5, <1>7, <1>8
  <2>2. QED
    BY <1>1, <1>2, <1>4, <2>1, StoreKept
<1>12. ASSUME NEW f \in read
       PROVE  /\ f \in class(f) /\ class(f) \subseteq read /\ First(class(f), FileCap) \subseteq class(f)
              /\ IsFiniteSet(class(f)) /\ Cardinality(class(f) \ First(class(f), FileCap)) \in Nat
              /\ Cardinality(class(f)) \in Nat
  <2> DEFINE c == class(f)
  <2>1. f \in c /\ c \in SUBSET Files /\ c \subseteq read
    BY <1>5, <1>8
  <2> HIDE DEF c
  <2>2. IsFiniteSet(c)
    BY <1>2, <2>1, FilesFinite, FS_Subset
  <2>3. IsFiniteSet(c \ First(c, FileCap))
    BY <2>2, FS_Difference
  <2>4. First(c, FileCap) \subseteq c
    BY FirstOfThem
  <2>5. Cardinality(c) \in Nat /\ Cardinality(c \ First(c, FileCap)) \in Nat
    BY <2>2, <2>3, FS_CardinalityType
  <2>6. QED
    BY <2>1, <2>2, <2>4, <2>5 DEF c
<1>13. ASSUME NEW f \in read
       PROVE  /\ group(f) \in Group /\ group(f).files \subseteq class(f)
              /\ group(f).extra = Cardinality(class(f) \ First(class(f), FileCap))
              /\ group(f).files = First(class(f), FileCap) /\ group(f).hash = full[f]
  <2> DEFINE k == First(class(f), FileCap)
             e == Cardinality(class(f) \ k)
  <2>1. k \in SUBSET Files /\ k \subseteq class(f) /\ e \in Nat
    BY <1>5, <1>8, <1>12
  <2>2. walked[f] \in Keys /\ full[f] \in {c.full : c \in Contents}
    BY <1>5, <1>8, <1>10 DEF Fulls
  <2>3. group(f) = [size |-> walked[f], hash |-> full[f], files |-> k, extra |-> e]
    OBVIOUS
  <2> HIDE DEF k, e, group
  <2>4. group(f).files = k /\ group(f).extra = e /\ group(f).hash = full[f] /\ group(f) \in Group
    BY <2>1, <2>2, <2>3 DEF Group
  <2>5. QED
    BY <2>1, <2>4 DEF k, e
<1>14. \A f, g \in read : group(f) # group(g) => walked[f] # walked[g] \/ full[f] # full[g]
  <2>1. ASSUME NEW f \in read, NEW g \in read, walked[f] = walked[g], full[f] = full[g]
        PROVE  group(f) = group(g)
    <3>1. class(f) = class(g)
      BY <2>1
    <3> HIDE DEF class
    <3>2. QED
      BY <2>1, <3>1
  <2>2. QED
    BY <2>1
<1>15. \A f : \A g \in class(f) : walked[g] = walked[f] /\ full[g] = full[f]
  OBVIOUS
<1>16. \A f \in read, g \in read : walked[g] = walked[f] /\ full[g] = full[f] => g \in class(f)
  OBVIOUS
<1>17. many \subseteq read /\ \A f \in read : Cardinality(class(f)) >= 2 => f \in many
  OBVIOUS
<1>32. \A f \in many : Cardinality(class(f)) >= 2
  OBVIOUS
<1> HIDE DEF group, class, many
<1>33. ASSUME NEW f \in many PROVE group(f) \in Filled
  <2> DEFINE c == class(f)
             k == First(c, FileCap)
  <2>1. f \in read /\ group(f) \in Group /\ group(f).files = k
    BY <1>13, <1>17
  <2>2. f \in c /\ c \in SUBSET Nat /\ IsFiniteSet(c) /\ Cardinality(c) >= 2 /\ Cardinality(c) \in Nat
    BY <1>2, <1>5, <1>8, <1>12, <1>32, <2>1, FilesFinite
  <2> HIDE DEF c
  <2>3. PICK z \in c : z # f
    <3>1. Cardinality(c \ {f}) = Cardinality(c) - 1
      BY <2>2, FS_RemoveElement
    <3>2. c \ {f} # {}
      BY <2>2, <3>1, FS_EmptySet
    <3>3. QED
      BY <3>2
  <2>4. FileCap >= 2 => \E x, y \in k : x # y
    BY <2>2, <2>3, Constants, TwoFirst
  <2>5. k # {}
    BY <2>2, Constants, SomeFirst
  <2>6. QED
    BY <2>1, <2>4, <2>5 DEF Filled
<1>18. groups \subseteq Filled /\ \A h \in groups : \E f \in many : h = group(f)
  BY <1>33
<1>19. \A f \in many : group(f) \in groups
  OBVIOUS
<1> HIDE DEF groups
<1>20. ASSUME NEW h \in groups, NEW k \in groups, NEW x \in h.files, x \in k.files PROVE h = k
  <2>1. PICK f \in many, g \in many : h = group(f) /\ k = group(g)
    BY <1>18
  <2>2. x \in class(f) /\ x \in class(g)
    BY <1>13, <1>17, <1>20, <2>1
  <2>3. walked[f] = walked[g] /\ full[f] = full[g]
    BY <1>15, <2>2
  <2>4. QED
    BY <1>14, <1>17, <2>1, <2>3
<1>21. ASSUME NEW h \in groups, NEW x \in h.files PROVE x \in DOMAIN pfx
  <2>1. PICK f \in many : h = group(f)
    BY <1>18
  <2>2. x \in class(f) /\ class(f) \subseteq read
    BY <1>12, <1>13, <1>17, <1>21, <2>1
  <2>3. QED
    BY <1>8, <2>2
<1>22. ASSUME NEW f \in Files \ touched, NEW g \in Files \ touched, f # g, content[f] = content[g],
              f \in DOMAIN pfx, g \in DOMAIN pfx
       PROVE  \E h \in groups : Lists(h, f, g)
  <2>1. f \in read /\ g \in read
    BY <1>2, <1>8, <1>22 DEF TreeTyped
  <2>2. full[f] = content[f].full /\ full[g] = full[f] /\ walked[g] = walked[f]
    BY <1>5, <1>10, <1>22, <2>1
  <2>3. f \in class(f) /\ g \in class(f)
    BY <1>12, <1>16, <2>1, <2>2
  <2> DEFINE c == class(f)
             k == First(c, FileCap)
             e == Cardinality(c \ k)
  <2>4. IsFiniteSet(c) /\ Cardinality(c) \in Nat /\ e \in Nat /\ k \subseteq c
    BY <1>12, <2>1
  <2>5. f \in c /\ g \in c
    BY <2>3
  <2> HIDE DEF c
  <2>6. Cardinality(c) >= 2
    BY <1>22, <2>4, <2>5, TwoInIt
  <2>7. f \in many
    BY <1>17, <2>1, <2>6 DEF c
  <2>8. group(f) \in groups
    BY <1>19, <2>7
  <2>9. group(f).files = k /\ group(f).extra = e /\ group(f).hash = content[f].full
    BY <1>13, <2>1, <2>2 DEF c
  <2>10. CASE e = 0
    <3> DEFINE z == c \ k
    <3>1. IsFiniteSet(z) /\ Cardinality(z) = 0
      BY <2>4, <2>10, FS_Difference
    <3> HIDE DEF z
    <3>2. z = {}
      BY <3>1, FS_EmptySet
    <3>3. {f, g} \subseteq k
      BY <2>5, <3>2 DEF z
    <3>4. Lists(group(f), f, g)
      BY <2>9, <3>3 DEF Lists
    <3>5. QED
      BY <2>8, <3>4
  <2>11. CASE e # 0
    <3>1. group(f).extra > 0
      BY <2>4, <2>9, <2>11
    <3>2. Lists(group(f), f, g)
      BY <2>9, <3>1 DEF Lists
    <3>3. QED
      BY <2>8, <3>2
  <2>12. QED
    BY <2>10, <2>11
<1>23. t.do = "add" /\ t.groups = groups /\ t \in Task
  BY <1>18 DEF Task
<1> HIDE DEF t
<1>24. /\ ts \in Seq(Task) /\ Len(ts) \in {0, 1} /\ (groups # {} => Len(ts) = 1)
       /\ \A i \in 1..Len(ts) : ts[i] = t
  <2>1. CASE groups = {}
    BY <2>1
  <2>2. CASE groups # {}
    BY <1>23, <2>2
  <2>3. QED
    BY <2>1, <2>2
<1> HIDE DEF ts
<1>25. \A i, j \in 1..Len(ts) : i = j
  BY <1>24
<1>26. ASSUME NEW f \in Files, NEW i \in 1..Len(ts), Has(ts[i], f) PROVE Has(Head(work), f) /\ ~Settled(f)'
  <2>1. f \in DOMAIN pfx
    BY <1>21, <1>23, <1>24, <1>26 DEF Has
  <2>2. Has(Head(work), f)
    BY <1>6, <2>1
  <2>3. ~Settled(f)
    BY <1>2, <2>2 DEF Fresh
  <2>4. QED
    BY <1>3, <2>2, <2>3 DEF Settled
<1>27. ASSUME NEW f \in Files \ touched, NEW g \in Files \ touched, f # g, content[f] = content[g],
              Holds(Head(work), f, g)
       PROVE  \E i \in 1..Len(ts) : Holds(ts[i], f, g)
  <2>1. f \in DOMAIN pfx /\ g \in DOMAIN pfx
    BY <1>2, <1>6, <1>27, PlainHolds
  <2>2. PICK h \in groups : Lists(h, f, g)
    BY <1>22, <1>27, <2>1
  <2>3. Len(ts) = 1
    BY <1>24, <2>2
  <2>4. 1 \in 1..Len(ts) /\ ts[1] = t
    BY <1>24, <2>3
  <2>5. Holds(t, f, g)
    BY <1>23, <2>2 DEF Holds
  <2>6. QED
    BY <2>4, <2>5
<1>28. \A i \in 1..Len(ts) :
         /\ ts[i].do = "add"
         /\ \A h, k \in ts[i].groups : h # k => h.files \cap k.files = {}
  BY <1>20, <1>23, <1>24
<1>29. passed \subseteq Files
  BY <1>2 DEF TreeTyped
<1>30. Down(ts)
  BY <1>2, <1>3, <1>4, <1>24, <1>25, <1>26, <1>27, <1>28, <1>29 DEF Down
<1>31. QED
  BY <1>11, <1>30

-----------------------------------------------------------------------------
(* The steps keep the invariant.                                           *)

LEMMA DownKeeps ==
  ASSUME DupInv, NEW ts, Down(ts), cache' \in [Files -> Read \cup {None}], Answers'
  PROVE  DupInv'
<1> USE DEF DupInv
<1>1. (Types /\ Control /\ Counted)'
  BY DownControl
<1>2. OneTask' /\ Fresh' /\ Apart' /\ ReadRight'
  BY DownOneTask, DownFresh, DownApart, DownRead
<1>3. OneGroupEach' /\ PairsKept'
  BY DownOneGroup, DownPairs
<1>4. QED
  BY <1>1, <1>2, <1>3

\* A step that asks the store for nothing.
LEMMA DownAlone ==
  ASSUME DupInv, NEW ts, Down(ts), cache' = cache
  PROVE  DupInv'
<1>1. cache' \in [Files -> Read \cup {None}]
  BY DEF DupInv, Types, TreeTyped
<1>2. content' = content /\ touched' = touched /\ Files' = Files /\ Answers
  BY DEF Down, disk, Files, DupInv
<1>3. Answers'
  BY <1>2 DEF Answers
<1>4. QED
  BY <1>1, <1>3, DownKeeps

LEMMA TaskSteps ==
  ASSUME DupInv, Window \/ Skew \/ Prefix \/ Deep \/ Bucket \/ Slice \/ Compare \/ Hash \/ Add
  PROVE  DupInv'
<1>1. Types /\ Control /\ Answers /\ Fresh /\ Apart /\ ReadRight
  BY DEF DupInv
<1>2. ASSUME Window PROVE (\E ts : Down(ts)) /\ cache' = cache
  <2>1. UNCHANGED <<disk, walked, counter, cand, cache, acc, dropG, found, out>>
    BY <1>2, Zenon DEF Window
  <2>2. QED
    BY <1>1, <1>2, <2>1, WindowDown
<1>3. ASSUME Skew PROVE (\E ts : Down(ts)) /\ cache' = cache
  <2>1. UNCHANGED <<disk, walked, counter, cand, cache, acc, dropG, found, out>>
    BY <1>3, Zenon DEF Skew
  <2>2. QED
    BY <1>1, <1>3, <2>1, SkewDown
<1>4. ASSUME Prefix PROVE (\E ts : Down(ts)) /\ cache' = cache
  <2>1. UNCHANGED <<disk, walked, counter, cand, cache, heap, out, passed>>
    BY <1>4, Zenon DEF Prefix
  <2>2. QED
    BY <1>1, <1>4, <2>1, PrefixDown
<1>5. ASSUME Bucket PROVE (\E ts : Down(ts)) /\ cache' = cache
  <2>1. UNCHANGED <<disk, walked, counter, cand, cache, heap, out, passed>>
    BY <1>5, Zenon DEF Bucket
  <2>2. QED
    BY <1>1, <1>5, <2>1, BucketDown
<1>6. ASSUME Slice PROVE (\E ts : Down(ts)) /\ cache' = cache
  <2>1. UNCHANGED <<disk, walked, counter, cand, cache, acc, dropG, found, out>>
    BY <1>6, Zenon DEF Slice
  <2>2. QED
    BY <1>1, <1>6, <2>1, SliceDown
<1>7. ASSUME Compare PROVE (\E ts : Down(ts)) /\ cache' = cache
  <2>1. UNCHANGED <<disk, walked, counter, cand, cache, heap, out, passed>>
    BY <1>7, Zenon DEF Compare
  <2>2. QED
    BY <1>1, <1>7, <2>1, CompareDown
<1>8. ASSUME Add PROVE (\E ts : Down(ts)) /\ cache' = cache
  <2>1. UNCHANGED <<disk, walked, counter, cand, cache, out, passed>>
    BY <1>8, Zenon DEF Add
  <2>2. QED
    BY <1>1, <1>8, <2>1, AddDown
<1>9. ASSUME Deep \/ Hash PROVE DupInv'
  BY <1>1, <1>9, DeepDown, HashDown, DownKeeps
<1>10. QED
  BY <1>2, <1>3, <1>4, <1>5, <1>6, <1>7, <1>8, <1>9, DownAlone

\* Rewriting or breaking a file takes it out of what is promised.
LEMMA TreeChanges ==
  ASSUME DupInv, Rewrite \/ Break
  PROVE  DupInv'
<1>1. PICK x \in Files :
        /\ touched' = touched \cup {x} /\ broken' \subseteq broken \cup {x}
        /\ UNCHANGED <<walked, counter, cand, work, cache, heap, out, passed>>
        /\ work # <<>> /\ Head(work).do # "walk"
        /\ \/ content' = content
           \/ \E c \in Contents : c.size = content[x].size /\ content' = [content EXCEPT ![x] = c]
  <2>1. CASE Rewrite
    <3>1. PICK x \in Files, c \in Contents :
            Touch(x) /\ c.size = content[x].size /\ content' = [content EXCEPT ![x] = c] /\ broken' = broken
      BY <2>1 DEF Rewrite
    <3>2. QED
      BY <3>1 DEF Touch
  <2>2. CASE Break
    <3>1. PICK x \in Files : Touch(x) /\ broken' = broken \cup {x} /\ content' = content
      BY <2>2 DEF Break
    <3>2. QED
      BY <3>1 DEF Touch
  <2>3. QED
    BY <2>1, <2>2
<1>2. /\ walked' = walked /\ exact' = exact /\ tab' = tab /\ cand' = cand /\ work' = work
      /\ cache' = cache /\ found' = found /\ out' = out /\ passed' = passed
  BY <1>1 DEF counter, heap
<1>3. Types /\ Control /\ content \in Seq(Contents)
  BY DEF DupInv, Types, TreeTyped
<1>4. ~Walking /\ ~Finished
  BY <1>1, <1>3, HeadFacts
<1>5. /\ content' \in Seq(Contents) /\ Len(content') = Len(content)
      /\ \A f \in Files : content'[f].size = content[f].size /\ (f # x => content'[f] = content[f])
  <2>1. CASE content' = content
    BY <1>3, <2>1
  <2>2. ASSUME NEW c \in Contents, c.size = content[x].size, content' = [content EXCEPT ![x] = c]
        PROVE  /\ content' \in Seq(Contents) /\ Len(content') = Len(content)
               /\ \A f \in Files : content'[f].size = content[f].size /\ (f # x => content'[f] = content[f])
    <3>1. content' \in Seq(Contents) /\ Len(content') = Len(content)
      <4>1. x \in 1..Len(content)
        BY DEF Files
      <4>2. [content EXCEPT ![x] = c] \in Seq(Contents) /\ Len([content EXCEPT ![x] = c]) = Len(content)
        BY <1>3, <4>1, ExceptSeq
      <4>3. QED
        BY <2>2, <4>2
    <3>2. \A f \in Files : content'[f] = IF f = x THEN c ELSE content[f]
      BY <1>3, <2>2 DEF Files
    <3>3. QED
      BY <2>2, <3>1, <3>2
  <2>3. QED
    BY <1>1, <2>1, <2>2
<1>6. Files' = Files /\ Filled' = Filled /\ Task' = Task
  BY <1>5 DEF Files, Group, Filled, Task, Tagging
<1>7. Types'
  <2>1. TreeTyped'
    <3>1. TreeTyped
      BY <1>3 DEF Types
    <3>2. broken' \subseteq touched' /\ touched' \subseteq Files
      BY <1>1, <3>1 DEF TreeTyped
    <3>3. walked \in Seq(Keys) /\ Len(walked) <= Len(content) /\ cand \subseteq Files /\ passed \subseteq Files
          /\ cache \in [Files -> Read \cup {None}]
      BY <3>1 DEF TreeTyped
    <3>4. QED
      BY <1>2, <1>5, <1>6, <3>2, <3>3 DEF TreeTyped
  <2>2. CounterTyped'
    BY <1>2, <1>3 DEF Types, CounterTyped, Degraded
  <2>3. WorkTyped'
    BY <1>2, <1>3, <1>6 DEF Types, WorkTyped
  <2>4. QED
    BY <2>1, <2>2, <2>3 DEF Types
<1>8. Control' /\ Counted'
  <2>1. ~Walking' /\ ~Finished'
    BY <1>2, <1>4 DEF Walking, Finished
  <2>2. \A f \in 1..Len(walked) : f \in Files /\ walked[f] = content[f].size
    BY <1>3 DEF Types, TreeTyped, Control, Files
  <2>3. \A f \in 1..Len(walked') : walked'[f] = content'[f].size
    BY <1>2, <1>5, <2>2
  <2>4. Len(walked') = Len(content')
    BY <1>2, <1>3, <1>4, <1>5 DEF Control
  <2>5. QED
    BY <2>1, <2>3, <2>4 DEF Control, Counted
<1>9. \A f \in Files \ touched' : f \in Files \ touched /\ content'[f] = content[f]
  BY <1>1, <1>5
<1>10. Answers'
  BY <1>2, <1>6, <1>9 DEF DupInv, Answers
<1>11. \A t, f : Has(t, f)' <=> Has(t, f)
  BY <1>2, HasSame
<1>12. \A f : Settled(f)' <=> Settled(f)
  BY <1>2 DEF Settled
<1>13. OneTask' /\ Fresh' /\ Apart' /\ OneGroupEach'
  BY <1>2, <1>6, <1>11, <1>12 DEF DupInv, OneTask, Fresh, Apart, OneGroupEach
<1>14. ReadRight'
  <2>1. ASSUME NEW i \in 1..Len(work), work[i].do = "hash", NEW f \in DOMAIN work[i].pfx, f \notin touched'
        PROVE  work[i].pfx[f] = content'[f].pfx
    <3>1. work[i] \in Task
      BY <1>3 DEF Types, WorkTyped
    <3>2. f \in Files
      BY <2>1, <3>1, TaskFields
    <3>3. QED
      BY <1>9, <2>1, <3>2 DEF DupInv, ReadRight
  <2>2. QED
    BY <1>2, <2>1 DEF ReadRight
<1>15. PairsKept'
  <2>1. ASSUME NEW f \in Files \ touched', NEW g \in Files \ touched', f # g, content'[f] = content'[g]
        PROVE  Kept(f, g)'
    <3>1. content'[f] = content[f] /\ Kept(f, g)
      BY <1>9, <2>1 DEF DupInv, PairsKept
    <3>2. \A h : Lists(h, f, g)' <=> Lists(h, f, g)
      BY <3>1 DEF Lists
    <3>3. \A t : Holds(t, f, g)' <=> Holds(t, f, g)
      BY <1>11, <3>2 DEF Holds
    <3>4. QED
      BY <1>2, <3>1, <3>2, <3>3 DEF Kept
  <2>2. QED
    BY <1>6, <2>1 DEF PairsKept
<1>16. QED
  BY <1>7, <1>8, <1>10, <1>13, <1>14, <1>15 DEF DupInv

-----------------------------------------------------------------------------
(* The counter never counts a key short.                                   *)

LEMMA UpToTwoCounts ==
  ASSUME NEW S
  PROVE  /\ UpToTwo(S) \in 0..2
         /\ \A x \in S : UpToTwo(S) >= 1
         /\ \A x, y \in S : x # y => UpToTwo(S) >= 2
  BY DEF UpToTwo

LEMMA Slots ==
  ASSUME NEW k \in Keys
  PROVE  SlotA(k) \in 1..TableSize /\ SlotB(k) \in 1..TableSize
<1>1. k \in Nat /\ Mix[k] \in Nat /\ TableSize \in Nat \ {0}
  BY Constants, BoundsAssumption
<1>2. ASSUME NEW n \in Nat, NEW d \in Nat \ {0} PROVE 1 + (n % d) \in 1..d
  <2>1. n % d \in 0..(d - 1)
    BY <1>2
  <2>2. QED
    BY <2>1
<1>3. QED
  BY <1>1, <1>2 DEF SlotA, SlotB

Slotted == [1..TableSize -> 0..2]

LEMMA BumpCounts ==
  ASSUME NEW t \in Slotted, NEW k \in Keys
  PROVE  /\ Bump(t, k) \in Slotted
         /\ \A p \in 1..TableSize : Bump(t, k)[p] >= t[p]
         /\ \A p \in {SlotA(k), SlotB(k)} : Bump(t, k)[p] >= 1 /\ (t[p] >= 1 => Bump(t, k)[p] >= 2)
<1>1. ASSUME NEW u \in Slotted, NEW p \in 1..TableSize
      PROVE  /\ BumpAt(u, p) \in Slotted /\ \A q \in 1..TableSize : BumpAt(u, p)[q] >= u[q]
             /\ BumpAt(u, p)[p] >= 1 /\ (u[p] >= 1 => BumpAt(u, p)[p] >= 2)
  <2>1. \A n \in 0..2 : Saturated(n) \in 0..2 /\ Saturated(n) >= n /\ Saturated(n) >= 1
                        /\ (n >= 1 => Saturated(n) >= 2)
    BY DEF Saturated
  <2>2. \A q \in 1..TableSize : u[q] \in 0..2 /\ BumpAt(u, p)[q] = IF q = p THEN Saturated(u[p]) ELSE u[q]
    BY DEF BumpAt, Slotted
  <2>3. BumpAt(u, p) \in Slotted
    BY <2>1 DEF BumpAt, Slotted
  <2>4. QED
    BY <2>1, <2>2, <2>3
<1> DEFINE b == SlotA(k)
           a == SlotB(k)
           u == BumpAt(t, b)
           v == BumpAt(u, a)
<1>2. Bump(t, k) = v
  BY DEF Bump
<1>3. a \in 1..TableSize /\ b \in 1..TableSize
  BY Slots
<1> HIDE DEF a, b
<1>4. /\ u \in Slotted /\ (\A q \in 1..TableSize : u[q] >= t[q])
      /\ u[b] >= 1 /\ (t[b] >= 1 => u[b] >= 2)
  BY <1>1, <1>3
<1> HIDE DEF u
<1>5. /\ v \in Slotted /\ (\A q \in 1..TableSize : v[q] >= u[q])
      /\ v[a] >= 1 /\ (u[a] >= 1 => v[a] >= 2)
  BY <1>1, <1>3, <1>4
<1> HIDE DEF v
<1>6. \A q \in 1..TableSize : t[q] \in 0..2 /\ u[q] \in 0..2 /\ v[q] \in 0..2
  BY <1>4, <1>5 DEF Slotted
<1>7. (\A q \in 1..TableSize : v[q] >= t[q]) /\ v[b] >= 1 /\ (t[b] >= 1 => v[b] >= 2)
      /\ (t[a] >= 1 => u[a] >= 1)
  BY <1>3, <1>4, <1>5, <1>6
<1>8. QED
  BY <1>5, <1>7, <1>2 DEF a, b

LEMMA DegradeCounts ==
  ASSUME NEW e \in [Keys -> 0..2]
  PROVE  /\ Degrade(e) \in Slotted
         /\ \A k \in Keys : \A p \in {SlotA(k), SlotB(k)} :
              (e[k] >= 1 => Degrade(e)[p] >= 1) /\ (e[k] >= 2 => Degrade(e)[p] >= 2)
<1>1. \A p \in 1..TableSize : Degrade(e)[p] = UpToTwo(Marks(e, p))
  BY DEF Degrade
<1>2. Degrade(e) \in Slotted
  BY UpToTwoCounts DEF Degrade, Slotted
<1>3. ASSUME NEW k \in Keys, NEW s \in {"a", "b"}, NEW p, p = IF s = "a" THEN SlotA(k) ELSE SlotB(k)
      PROVE  (e[k] >= 1 => Degrade(e)[p] >= 1) /\ (e[k] >= 2 => Degrade(e)[p] >= 2)
  <2> DEFINE m(n) == [key |-> k, slot |-> s, bump |-> n]
  <2>1. p \in 1..TableSize /\ e[k] \in 0..2
    BY <1>3, Slots
  <2>2. ASSUME NEW n \in 1..2, e[k] >= n PROVE m(n) \in Marks(e, p)
    <3>1. m(n) \in [key : Keys, slot : {"a", "b"}, bump : 1..2]
      OBVIOUS
    <3>2. m(n).key = k /\ m(n).slot = s /\ m(n).bump = n
      OBVIOUS
    <3> HIDE DEF m
    <3>3. QED
      BY <1>3, <2>2, <3>1, <3>2 DEF Marks
  <2>3. m(1) # m(2)
    OBVIOUS
  <2>4. 1 \in 1..2 /\ 2 \in 1..2
    OBVIOUS
  <2> HIDE DEF m
  <2>5. QED
    BY <1>1, <2>1, <2>2, <2>3, <2>4, UpToTwoCounts
<1>4. ASSUME NEW k \in Keys
      PROVE  \A p \in {SlotA(k), SlotB(k)} :
               (e[k] >= 1 => Degrade(e)[p] >= 1) /\ (e[k] >= 2 => Degrade(e)[p] >= 2)
  BY <1>3
<1>5. QED
  BY <1>2, <1>4

\* A key that is counted is known from now on, and is hot the second time; no
\* other key is forgotten.
LEMMA CountCounts ==
  ASSUME CounterTyped, NEW k \in Keys, Count(k)
  PROVE  /\ CounterTyped'
         /\ AtLeast(k, 1)' /\ (AtLeast(k, 1) => AtLeast(k, 2)')
         /\ \A j \in Keys : (AtLeast(j, 1) => AtLeast(j, 1)') /\ (AtLeast(j, 2) => AtLeast(j, 2)')
<1>1. /\ exact \in [Keys -> 0..2] /\ tab \in Seq(0..2) /\ Len(tab) \in {0, TableSize}
      /\ IsFiniteSet({j \in Keys : exact[j] > 0}) /\ TableSize \in Nat \ {0} /\ ExactMax \in Nat
  BY Constants DEF CounterTyped
<1>2. \A j \in Keys : SlotA(j) \in 1..TableSize /\ SlotB(j) \in 1..TableSize
  BY Slots
<1>3. \A t \in Slotted : t \in Seq(0..2) /\ Len(t) = TableSize /\ Len(t) > 0
  <2>1. ASSUME NEW t \in Slotted PROVE t \in Seq(0..2)
    <3>1. \A n \in Nat : [1..n -> 0..2] \subseteq Seq(0..2)
      BY SeqDef
    <3>2. QED
      BY <1>1, <3>1 DEF Slotted
  <2>2. ASSUME NEW t \in Slotted PROVE Len(t) = TableSize
    <3>1. t \in Seq(0..2) /\ DOMAIN t = 1..TableSize
      BY <2>1 DEF Slotted
    <3>2. Len(t) \in Nat /\ 1..Len(t) = 1..TableSize
      BY <3>1
    <3>3. QED
      BY <1>1, <3>2
  <2>3. QED
    BY <1>1, <2>1, <2>2
<1>4. CASE Degraded
  <2>1. tab \in Slotted
    <3>1. Len(tab) = TableSize
      BY <1>1, <1>4 DEF Degraded
    <3>2. QED
      BY <1>1, <3>1 DEF Slotted
  <2>2. tab' = Bump(tab, k) /\ exact' = exact
    BY <1>4 DEF Count
  <2>3. /\ tab' \in Slotted
        /\ \A p \in 1..TableSize : tab'[p] >= tab[p]
        /\ \A p \in {SlotA(k), SlotB(k)} : tab'[p] >= 1 /\ (tab[p] >= 1 => tab'[p] >= 2)
    BY <2>1, <2>2, BumpCounts
  <2>4. Degraded' /\ CounterTyped'
    BY <1>1, <1>3, <2>2, <2>3 DEF Degraded, CounterTyped
  <2>5. \A p \in 1..TableSize : tab[p] \in 0..2 /\ tab'[p] \in 0..2
    BY <2>1, <2>3 DEF Slotted
  <2>6. AtLeast(k, 1)' /\ (AtLeast(k, 1) => AtLeast(k, 2)')
    BY <1>4, <2>3, <2>4 DEF AtLeast, Reached
  <2>7. ASSUME NEW j \in Keys, NEW n \in 1..2, AtLeast(j, n) PROVE AtLeast(j, n)'
    <3>1. tab[SlotA(j)] >= n /\ tab[SlotB(j)] >= n
      BY <1>4, <2>7 DEF AtLeast, Reached
    <3>2. tab'[SlotA(j)] >= n /\ tab'[SlotB(j)] >= n
      BY <1>2, <2>3, <2>5, <3>1
    <3>3. QED
      BY <2>4, <3>2 DEF AtLeast, Reached
  <2>8. QED
    BY <2>4, <2>6, <2>7
<1>5. CASE ~Degraded
  <2> DEFINE e == [exact EXCEPT ![k] = Saturated(@)]
             P == {j \in Keys : e[j] > 0}
  <2>1. exact' = e /\ tab' = IF Cardinality(P) > ExactMax THEN Degrade(e) ELSE tab
    BY <1>5 DEF Count
  <2>2. e \in [Keys -> 0..2] /\ (\A j \in Keys : e[j] >= exact[j]) /\ e[k] >= 1 /\ (exact[k] >= 1 => e[k] >= 2)
    <3>1. \A n \in 0..2 : Saturated(n) \in 0..2 /\ Saturated(n) >= n /\ Saturated(n) >= 1
                          /\ (n >= 1 => Saturated(n) >= 2)
      BY DEF Saturated
    <3>2. \A j \in Keys : exact[j] \in 0..2 /\ e[j] = IF j = k THEN Saturated(exact[k]) ELSE exact[j]
      BY <1>1
    <3>3. e \in [Keys -> 0..2]
      BY <1>1, <3>1
    <3>4. QED
      BY <3>1, <3>2, <3>3
  <2>3. IsFiniteSet(P) /\ Cardinality(P) \in Nat
    <3>1. P \subseteq {j \in Keys : exact[j] > 0} \cup {k}
      <4>1. \A j \in Keys : j # k => e[j] = exact[j]
        BY <1>1
      <4> HIDE DEF e
      <4>2. QED
        BY <4>1
    <3>2. IsFiniteSet({j \in Keys : exact[j] > 0} \cup {k})
      BY <1>1, FS_AddElement
    <3> HIDE DEF P
    <3>3. QED
      BY <3>1, <3>2, FS_Subset, FS_CardinalityType
  <2>4. \A j \in Keys : exact[j] \in 0..2 /\ e[j] \in 0..2
    BY <1>1, <2>2
  <2>5. IsFiniteSet({j \in Keys : exact'[j] > 0}) /\ Cardinality({j \in Keys : exact'[j] > 0}) = Cardinality(P)
    BY <2>1, <2>3
  <2> HIDE DEF e, P
  <2>6. \A j \in Keys : \A n \in 1..2 : AtLeast(j, n) <=> exact[j] >= n
    BY <1>5 DEF AtLeast, Reached
  <2>7. CASE Cardinality(P) > ExactMax
    <3>1. tab' = Degrade(e) /\ exact' = e
      BY <2>1, <2>7
    <3>2. /\ tab' \in Slotted
          /\ \A j \in Keys : \A p \in {SlotA(j), SlotB(j)} :
               (e[j] >= 1 => tab'[p] >= 1) /\ (e[j] >= 2 => tab'[p] >= 2)
      BY <2>2, <3>1, DegradeCounts
    <3>3. Degraded' /\ CounterTyped'
      BY <1>1, <1>3, <2>2, <2>5, <3>1, <3>2 DEF Degraded, CounterTyped
    <3>4. \A j \in Keys : (e[j] >= 1 => AtLeast(j, 1)') /\ (e[j] >= 2 => AtLeast(j, 2)')
      BY <3>2, <3>3 DEF AtLeast, Reached
    <3>5. QED
      BY <2>2, <2>4, <2>6, <3>3, <3>4
  <2>8. CASE ~(Cardinality(P) > ExactMax)
    <3>1. tab' = tab /\ exact' = e /\ ~Degraded'
      BY <1>5, <2>1, <2>8 DEF Degraded
    <3>2. CounterTyped'
      BY <1>1, <2>2, <2>3, <2>5, <2>8, <3>1 DEF CounterTyped
    <3>3. \A j \in Keys : \A n \in 1..2 : AtLeast(j, n)' <=> e[j] >= n
      BY <3>1 DEF AtLeast, Reached
    <3>4. QED
      BY <2>2, <2>4, <2>6, <3>2, <3>3
  <2>9. QED
    BY <2>7, <2>8
<1>6. QED
  BY <1>4, <1>5

-----------------------------------------------------------------------------
(* The walk, the beginning and the end.                                    *)

\* A file is walked.
LEMMA WalkOn ==
  ASSUME DupInv, Doing("walk"), Len(walked) + 1 \in Files,
         walked' = Append(walked, content[Len(walked) + 1].size),
         Count(content[Len(walked) + 1].size),
         UNCHANGED <<disk, cand, work, cache, heap, out, passed>>
  PROVE  DupInv'
<1> DEFINE n == Len(walked)
<1>1. Types /\ Control /\ work \in Seq(Task) /\ TreeTyped /\ CounterTyped /\ WorkTyped
  BY DEF DupInv, Types, WorkTyped
<1>2. Len(work) \in Nat \ {0} /\ work[1].do = "walk" /\ Walking
  <2>1. work # <<>> /\ Head(work).do = "walk"
    BY DEF Doing
  <2>2. Head(work) = work[1] /\ Len(work) \in Nat \ {0}
    BY <1>1, <2>1, Stacked
  <2>3. 1 \in 1..Len(work)
    BY <2>2
  <2>4. QED
    BY <2>1, <2>2, <2>3 DEF Walking
<1>3. Len(work) = 1 /\ touched = {} /\ passed = {} /\ found = <<>>
  BY <1>1, <1>2 DEF Control
<1>4. /\ content' = content /\ broken' = broken /\ touched' = touched /\ cand' = cand /\ work' = work
      /\ cache' = cache /\ found' = found /\ out' = out /\ passed' = passed
  BY DEF disk, heap
<1>5. Files' = Files /\ Filled' = Filled /\ Task' = Task
  BY <1>4 DEF Files, Group, Filled, Task, Tagging
<1>6. content \in Seq(Contents) /\ walked \in Seq(Keys) /\ n \in Nat /\ Len(content) \in Nat /\ n + 1 <= Len(content)
      /\ content[n + 1] \in Contents /\ content[n + 1].size \in Keys
  <2>1. content \in Seq(Contents) /\ walked \in Seq(Keys) /\ n + 1 \in 1..Len(content)
    BY <1>1 DEF TreeTyped, Files
  <2>2. content[n + 1] \in Contents
    BY <2>1
  <2>3. content[n + 1].size \in Keys
    BY <2>2 DEF Keys
  <2>4. QED
    BY <2>1, <2>2, <2>3
<1> PICK k \in Keys : k = content[n + 1].size
  BY <1>6
<1>7. walked' \in Seq(Keys) /\ Len(walked') = n + 1 /\ walked'[n + 1] = k /\ \A f \in 1..n : walked'[f] = walked[f]
  <2>1. walked \in Seq(Keys) /\ walked' = Append(walked, k)
    BY <1>6
  <2>2. QED
    BY <2>1, AppendProperties
<1>8. Count(k)
  OBVIOUS
<1>9. /\ CounterTyped'
      /\ AtLeast(k, 1)' /\ (AtLeast(k, 1) => AtLeast(k, 2)')
      /\ \A j \in Keys : (AtLeast(j, 1) => AtLeast(j, 1)') /\ (AtLeast(j, 2) => AtLeast(j, 2)')
  BY <1>1, <1>6, <1>8, CountCounts
<1>10. /\ \A f \in 1..n : walked[f] \in Keys
       /\ \A f \in 1..(n + 1) : f \in 1..n \/ f = n + 1
  BY <1>6
<1>11. k = content[n + 1].size
  OBVIOUS
<1> HIDE DEF n
<1> DEFINE Was(j, m) == Reached(Degraded, exact, tab, j, m)
           Now(j, m) == Reached(Degraded', exact', tab', j, m)
<1>12. /\ Now(k, 1) /\ (Was(k, 1) => Now(k, 2))
       /\ \A j \in Keys : (Was(j, 1) => Now(j, 1)) /\ (Was(j, 2) => Now(j, 2))
  BY <1>9 DEF AtLeast
<1>13. /\ \A f \in 1..n : Was(walked[f], 1)
       /\ \A f, g \in 1..n : f # g /\ walked[f] = walked[g] => Was(walked[f], 2)
  BY <1>2 DEF DupInv, Counted, AtLeast, n
<1> HIDE DEF Was, Now
<1>14. \A f \in 1..(n + 1) : Now(walked'[f], 1)
  BY <1>7, <1>10, <1>12, <1>13
<1>15. ASSUME NEW f \in 1..(n + 1), NEW g \in 1..(n + 1), f # g, walked'[f] = walked'[g]
       PROVE  Now(walked'[f], 2)
  <2>1. CASE f \in 1..n /\ g \in 1..n
    BY <1>7, <1>10, <1>12, <1>13, <1>15, <2>1
  <2>2. CASE f = n + 1 /\ g \in 1..n
    BY <1>7, <1>12, <1>13, <1>15, <2>2
  <2>3. CASE g = n + 1 /\ f \in 1..n
    BY <1>7, <1>12, <1>13, <1>15, <2>3
  <2>4. QED
    BY <1>10, <1>15, <2>1, <2>2, <2>3
<1>16. Counted'
  <2>1. Len(walked') = n + 1
    BY <1>7
  <2>2. QED
    BY <1>14, <1>15, <2>1 DEF Counted, AtLeast, Now
<1>17. Types'
  <2>1. TreeTyped'
    <3>1. /\ content \in Seq(Contents) /\ broken \subseteq touched /\ touched \subseteq Files
          /\ cand \subseteq Files /\ passed \subseteq Files
          /\ cache \in [Files -> Read \cup {None}]
      BY <1>1 DEF TreeTyped
    <3>2. Len(walked') <= Len(content')
      BY <1>4, <1>6, <1>7
    <3>3. QED
      BY <1>4, <1>5, <1>7, <3>1, <3>2 DEF TreeTyped
  <2>2. WorkTyped'
    BY <1>1, <1>4, <1>5 DEF WorkTyped
  <2>3. QED
    BY <1>9, <2>1, <2>2 DEF Types
<1>18. Control'
  <2>1. \A f \in 1..n : walked[f] = content[f].size
    BY <1>1 DEF Control, n
  <2>2. \A f \in 1..(n + 1) : walked'[f] = content'[f].size
    BY <1>4, <1>7, <1>11, <1>10, <2>1
  <2>3. ~Finished
    <3>1. work # <<>>
      BY DEF Doing
    <3>2. QED
      BY <1>1, <3>1 DEF Control
  <2>4. Walking' /\ ~Finished'
    BY <1>2, <1>4, <2>3 DEF Walking, Finished
  <2>5. QED
    BY <1>3, <1>4, <1>7, <2>2, <2>4 DEF Control
<1>19. Answers'
  BY <1>4, <1>5 DEF DupInv, Answers
<1>20. work'[1].do = "walk" /\ Len(work') = 1 /\ passed' = {} /\ found' = <<>> /\ Len(found') = 0
  BY <1>2, <1>3, <1>4
<1>21. \A i \in 1..Len(work') : i = 1
  BY <1>20
<1>22. OneTask' /\ Apart' /\ ReadRight'
  BY <1>20, <1>21 DEF OneTask, Apart, ReadRight
<1>23. Fresh' /\ OneGroupEach'
  BY <1>20 DEF Fresh, Settled, OneGroupEach
<1>24. PairsKept'
  <2>1. \A f, g : Holds(work[1], f, g)'
    BY <1>20, <1>4 DEF Holds, Has
  <2>2. 1 \in 1..Len(work')
    BY <1>20
  <2>3. QED
    BY <1>4, <2>1, <2>2 DEF PairsKept, Kept
<1>25. QED
  BY <1>16, <1>17, <1>18, <1>19, <1>22, <1>23, <1>24 DEF DupInv

\* The windows the walk leaves behind.
LEMMA WindowTasks ==
  ASSUME NEW m \in Nat \ {0}
  PROVE  /\ WindowTask(m) \in Seq(Task) /\ Len(WindowTask(m)) = m
         /\ \A i \in 1..m : /\ WindowTask(m)[i].do = "window"
                            /\ WindowTask(m)[i].part = i - 1 /\ WindowTask(m)[i].parts = m
<1> DEFINE ts == WindowTask(m)
<1>1. ts = [i \in 1..m |-> [do |-> "window", part |-> i - 1, parts |-> m]]
  BY DEF WindowTask
<1> HIDE DEF ts
<1>2. \A i \in 1..m : [do |-> "window", part |-> i - 1, parts |-> m] \in Task
  <2>1. \A i \in 1..m : i - 1 \in Nat
    OBVIOUS
  <2>2. QED
    BY <2>1 DEF Task
<1>3. ts \in [1..m -> Task]
  BY <1>1, <1>2
<1>4. ts \in Seq(Task)
  <2>1. \A k \in Nat : [1..k -> Task] \subseteq Seq(Task)
    BY SeqDef
  <2>2. QED
    BY <1>3, <2>1
<1>5. Len(ts) = m
  <2>1. Len(ts) \in Nat /\ DOMAIN ts = 1..Len(ts)
    BY <1>4, LenProperties
  <2>2. PICK k \in Nat : k = Len(ts) /\ 1..k = 1..m
    BY <1>3, <2>1
  <2>3. QED
    BY <2>2
<1>6. ASSUME NEW i \in 1..m PROVE ts[i].do = "window" /\ ts[i].part = i - 1 /\ ts[i].parts = m
  <2>1. ts[i] = [do |-> "window", part |-> i - 1, parts |-> m]
    BY <1>1
  <2>2. QED
    BY <2>1
<1>7. QED
  BY <1>4, <1>5, <1>6 DEF ts

\* The walk is over: what the counter calls hot goes into the windows.
LEMMA WalkEnd ==
  ASSUME DupInv, Doing("walk"), Len(walked) + 1 \notin Files,
         cand' = {g \in Files : Hot(walked[g])},
         Then(WindowTask(Parts(Cardinality(cand')))),
         exact' = [k \in Keys |-> 0], tab' = <<>>, walked' = walked,
         UNCHANGED <<disk, cache, heap, out, passed>>
  PROVE  DupInv'
<1>1. Types /\ Control /\ work \in Seq(Task) /\ TreeTyped /\ CounterTyped /\ WorkTyped
  BY DEF DupInv, Types, WorkTyped
<1>2. work # <<>> /\ Head(work) = work[1] /\ Len(work) \in Nat \ {0} /\ work[1].do = "walk" /\ Walking
  <2>1. work # <<>> /\ Head(work).do = "walk"
    BY DEF Doing
  <2>2. Head(work) = work[1] /\ Len(work) \in Nat \ {0}
    BY <1>1, <2>1, Stacked
  <2>3. 1 \in 1..Len(work)
    BY <2>2
  <2>4. QED
    BY <2>1, <2>2, <2>3 DEF Walking
<1>3. Len(work) = 1 /\ touched = {} /\ passed = {} /\ found = <<>>
  BY <1>1, <1>2 DEF Control
<1>4. /\ content' = content /\ broken' = broken /\ touched' = touched
      /\ cache' = cache /\ found' = found /\ out' = out /\ passed' = passed
  BY DEF disk, heap
<1>5. Files' = Files /\ Filled' = Filled /\ Task' = Task
  BY <1>4 DEF Files, Group, Filled, Task, Tagging
<1>6. /\ Files = 1..Len(walked) /\ Len(walked) = Len(content)
      /\ \A f \in Files : walked[f] \in Keys /\ walked[f] = content[f].size
  <2>1. content \in Seq(Contents) /\ walked \in Seq(Keys) /\ Len(walked) <= Len(content)
    BY <1>1 DEF TreeTyped
  <2>2. Len(content) \in Nat /\ Len(walked) \in Nat /\ Len(walked) + 1 \notin 1..Len(content)
    BY <2>1 DEF Files
  <2>3. Len(walked) = Len(content)
    BY <2>1, <2>2
  <2>4. Files = 1..Len(walked)
    BY <2>3 DEF Files
  <2>5. \A f \in 1..Len(walked) : walked[f] \in Keys
    BY <2>1
  <2>6. \A f \in 1..Len(walked) : walked[f] = content[f].size
    BY <1>1 DEF Control
  <2>7. QED
    BY <2>3, <2>4, <2>5, <2>6
<1>7. cand' \subseteq Files /\ IsFiniteSet(cand') /\ Cardinality(cand') \in Nat
  <2>1. cand' \subseteq Files
    OBVIOUS
  <2>2. QED
    BY <1>1, <2>1, FilesFinite, FS_Subset, FS_CardinalityType
<1>8. PICK m \in Nat \ {0} : m = Parts(Cardinality(cand'))
  BY <1>7, PartsSplit
<1>9. work' \in Seq(Task) /\ Len(work') = m /\ \A i \in 1..m : work'[i] = WindowTask(m)[i]
  <2>1. WindowTask(m) \in Seq(Task) /\ Len(WindowTask(m)) = m
    BY WindowTasks
  <2>2. work' = WindowTask(m) \o Tail(work)
    BY <1>8 DEF Then
  <2>3. PICK ts \in Seq(Task) : ts = WindowTask(m) /\ Len(ts) = m
    BY <2>1
  <2>4. /\ ts \o Tail(work) \in Seq(Task)
        /\ Len(ts \o Tail(work)) = Len(ts) + Len(work) - 1
        /\ \A i \in 1..Len(ts) : (ts \o Tail(work))[i] = ts[i]
    BY <1>1, <1>2, Stacked
  <2>5. QED
    BY <1>3, <2>2, <2>3, <2>4
<1>10. \A i \in 1..m : work'[i].do = "window" /\ work'[i].part = i - 1 /\ work'[i].parts = m
  <2>1. \A i \in 1..m : /\ WindowTask(m)[i].do = "window"
                        /\ WindowTask(m)[i].part = i - 1 /\ WindowTask(m)[i].parts = m
    BY WindowTasks
  <2>2. QED
    BY <1>9, <2>1
<1>11. ~Walking'
  BY <1>9, <1>10 DEF Walking
<1>12. Types'
  <2>1. TreeTyped'
    BY <1>1, <1>4, <1>5, <1>7 DEF TreeTyped
  <2>2. CounterTyped'
    <3>1. \A k \in Keys : exact'[k] = 0
      OBVIOUS
    <3>2. {k \in Keys : exact'[k] > 0} = {}
      BY <3>1
    <3>3. IsFiniteSet({}) /\ Cardinality({}) = 0
      BY FS_EmptySet
    <3>4. exact' \in [Keys -> 0..2]
      OBVIOUS
    <3>5. tab' \in Seq(0..2) /\ Len(tab') = 0
      OBVIOUS
    <3>6. IsFiniteSet({k \in Keys : exact'[k] > 0}) /\ Cardinality({k \in Keys : exact'[k] > 0}) = 0
      BY <3>2, <3>3
    <3>7. QED
      BY <3>4, <3>5, <3>6, Constants DEF CounterTyped
  <2>3. WorkTyped'
    BY <1>1, <1>4, <1>5, <1>9 DEF WorkTyped
  <2>4. QED
    BY <2>1, <2>2, <2>3 DEF Types
<1>13. Control'
  <2>1. ~Finished'
    BY <1>1, <1>2, <1>4 DEF Control, Finished
  <2>2. QED
    BY <1>1, <1>4, <1>6, <1>11, <2>1 DEF Control
<1>14. Counted' /\ Answers'
  BY <1>4, <1>5, <1>11 DEF DupInv, Counted, Answers
<1>15. /\ \A i \in 1..Len(work') : work'[i].do = "window"
       /\ passed' = {} /\ found' = <<>> /\ Len(found') = 0
  BY <1>3, <1>4, <1>9, <1>10
<1>16. Apart' /\ ReadRight'
  BY <1>15 DEF Apart, ReadRight
<1>17. Fresh' /\ OneGroupEach'
  BY <1>15 DEF Fresh, Settled, OneGroupEach
<1>18. \A i \in 1..m : \A f : Has(work[i], f)' <=> f \in cand' /\ InPart(walked[f], i - 1, m)
  BY <1>10 DEF Has
<1>19. \A f \in Files : /\ \E p \in 1..m : InPart(walked[f], p - 1, m)
                        /\ \A p, q \in 1..m : InPart(walked[f], p - 1, m) /\ InPart(walked[f], q - 1, m) => p = q
  <2>1. \A f \in Files : walked[f] \in Nat
    BY <1>6, Constants
  <2>2. PICK n \in Nat : m = Parts(n)
    BY <1>7, <1>8
  <2>3. QED
    BY <2>1, <2>2, PartsSplit
<1>20. OneTask'
  BY <1>5, <1>9, <1>18, <1>19 DEF OneTask
<1>21. PairsKept'
  <2>1. SUFFICES ASSUME NEW f \in Files, NEW g \in Files, f # g, content[f] = content[g]
                 PROVE  \E i \in 1..Len(work') : Holds(work[i], f, g)'
    BY <1>4, <1>5 DEF PairsKept, Kept
  <2>2. walked[f] = walked[g] /\ walked[f] \in Keys
    BY <1>6, <2>1
  <2>3. AtLeast(walked[f], 2) /\ AtLeast(walked[g], 2)
    BY <1>2, <1>6, <2>1, <2>2 DEF DupInv, Counted
  <2>4. f \in cand' /\ g \in cand'
    BY <2>3 DEF AtLeast, Reached, Hot
  <2>5. PICK p \in 1..m : InPart(walked[f], p - 1, m) /\ InPart(walked[g], p - 1, m)
    BY <1>19, <2>2
  <2>6. Has(work[p], f)' /\ Has(work[p], g)'
    BY <1>18, <2>4, <2>5
  <2>7. Holds(work[p], f, g)'
    BY <1>10, <2>6 DEF Holds
  <2>8. QED
    BY <1>9, <2>7
<1>22. QED
  BY <1>12, <1>13, <1>14, <1>16, <1>17, <1>20, <1>21 DEF DupInv

\* The listing changes nothing else.
LEMMA OutOnly ==
  ASSUME DupInv, Finished' => work = <<>>,
         UNCHANGED <<disk, walked, counter, cand, work, cache, heap, passed>>
  PROVE  DupInv'
<1>1. /\ content' = content /\ broken' = broken /\ touched' = touched /\ walked' = walked
      /\ exact' = exact /\ tab' = tab /\ cand' = cand /\ work' = work
      /\ cache' = cache /\ found' = found /\ passed' = passed
  BY DEF disk, counter, heap
<1>2. Files' = Files /\ Filled' = Filled /\ Task' = Task
  BY <1>1 DEF Files, Group, Filled, Task, Tagging
<1>3. Walking' <=> Walking
  BY <1>1 DEF Walking
<1>4. Types'
  <2>1. TreeTyped'
    BY <1>1, <1>2 DEF DupInv, Types, TreeTyped
  <2>2. CounterTyped'
    BY <1>1 DEF DupInv, Types, CounterTyped, Degraded
  <2>3. WorkTyped'
    BY <1>1, <1>2 DEF DupInv, Types, WorkTyped
  <2>4. QED
    BY <2>1, <2>2, <2>3 DEF Types
<1>5. Control'
  BY <1>1, <1>3 DEF DupInv, Control
<1>6. Counted'
  BY <1>1, <1>3 DEF DupInv, Counted, AtLeast, Degraded
<1>7. Answers' /\ Apart' /\ ReadRight' /\ OneGroupEach'
  BY <1>1, <1>2 DEF DupInv, Answers, Apart, ReadRight, OneGroupEach
<1>9. OneTask' /\ Fresh'
  BY <1>1, <1>2 DEF DupInv, OneTask, Fresh, Has, Settled
<1>10. PairsKept'
  <2>1. SUFFICES ASSUME NEW f \in Files \ touched, NEW g \in Files \ touched, f # g, content[f] = content[g]
                 PROVE  Kept(f, g)'
    BY <1>1, <1>2 DEF PairsKept
  <2>2. Kept(f, g)
    BY <2>1 DEF DupInv, PairsKept
  <2>3. \A i \in 1..Len(work) : Holds(work[i], f, g)' <=> Holds(work[i], f, g)
    BY <1>1 DEF Holds, Has, Lists
  <2>4. \A i \in 1..Len(found) : Lists(found[i], f, g)' <=> Lists(found[i], f, g)
    BY <1>1 DEF Lists
  <2>5. QED
    BY <1>1, <2>2, <2>3, <2>4 DEF Kept
<1>11. QED
  BY <1>4, <1>5, <1>6, <1>7, <1>9, <1>10 DEF DupInv

LEMMA InitKeeps ==
  ASSUME Init
  PROVE  DupInv
<1>1. /\ content \in Seq(Contents) /\ broken = {} /\ touched = {} /\ walked = <<>>
      /\ exact = [k \in Keys |-> 0] /\ tab = <<>> /\ cand = {} /\ work = <<[do |-> "walk"]>>
      /\ cache = [f \in Files |-> None] /\ found = <<>> /\ passed = {} /\ out = Pending
  BY ContentsAssumption DEF Init
<1>2. [do |-> "walk"] \in Task /\ [do |-> "walk"].do = "walk"
  BY DEF Task
<1>3. work \in Seq(Task) /\ Len(work) = 1 /\ work[1].do = "walk" /\ work # <<>>
  BY <1>1, <1>2
<1>4. Len(walked) = 0 /\ Len(found) = 0
  BY <1>1
<1>5. \A i \in 1..Len(work) : i = 1
  BY <1>3
<1>6. Walking
  <2>1. 1 \in 1..Len(work)
    BY <1>3
  <2>2. QED
    BY <1>3, <2>1 DEF Walking
<1>7. Types
  <2>1. TreeTyped
    <3>1. Len(content) \in Nat
      BY <1>1
    <3>2. cache \in [Files -> Read \cup {None}]
      BY <1>1
    <3>3. QED
      BY <1>1, <3>1, <3>2 DEF TreeTyped
  <2>2. CounterTyped
    <3>1. \A k \in Keys : exact[k] = 0
      BY <1>1
    <3>2. {k \in Keys : exact[k] > 0} = {}
      BY <3>1
    <3>3. IsFiniteSet({}) /\ Cardinality({}) = 0
      BY FS_EmptySet
    <3>4. IsFiniteSet({k \in Keys : exact[k] > 0}) /\ Cardinality({k \in Keys : exact[k] > 0}) = 0
      BY <3>2, <3>3
    <3>5. exact \in [Keys -> 0..2] /\ tab \in Seq(0..2) /\ Len(tab) = 0
      BY <1>1
    <3>6. QED
      BY <3>4, <3>5, Constants DEF CounterTyped
  <2>3. WorkTyped
    BY <1>1, <1>3 DEF WorkTyped
  <2>4. QED
    BY <2>1, <2>2, <2>3 DEF Types
<1>8. Control
  BY <1>1, <1>3, <1>4, <1>6 DEF Control, Finished
<1>9. Counted /\ Answers
  BY <1>1, <1>4 DEF Counted, Answers
<1>10. OneTask /\ Apart /\ ReadRight
  BY <1>3, <1>5 DEF OneTask, Apart, ReadRight
<1>11. Fresh /\ OneGroupEach
  BY <1>1, <1>4 DEF Fresh, Settled, OneGroupEach
<1>12. PairsKept
  <2>1. \A f, g : Holds(work[1], f, g)
    BY <1>3 DEF Holds, Has
  <2>2. 1 \in 1..Len(work)
    BY <1>3
  <2>3. QED
    BY <2>1, <2>2 DEF PairsKept, Kept
<1>13. QED
  BY <1>7, <1>8, <1>9, <1>10, <1>11, <1>12 DEF DupInv

LEMMA NextKeeps ==
  ASSUME DupInv, [Next]_vars
  PROVE  DupInv'
<1>1. CASE Walk
  <2>1. CASE Len(walked) + 1 \in Files
    <3>1. /\ Doing("walk") /\ walked' = Append(walked, content[Len(walked) + 1].size)
          /\ Count(content[Len(walked) + 1].size)
          /\ UNCHANGED <<disk, cand, work, cache, heap, out, passed>>
      BY <1>1, <2>1 DEF Walk
    <3>2. QED
      BY <2>1, <3>1, WalkOn
  <2>2. CASE Len(walked) + 1 \notin Files
    <3>1. /\ Doing("walk") /\ cand' = {g \in Files : Hot(walked[g])}
          /\ Then(WindowTask(Parts(Cardinality(cand'))))
          /\ exact' = [k \in Keys |-> 0] /\ tab' = <<>> /\ walked' = walked
          /\ UNCHANGED <<disk, cache, heap, out, passed>>
      BY <1>1, <2>2 DEF Walk
    <3>2. QED
      BY <2>2, <3>1, WalkEnd
  <2>3. QED
    BY <2>1, <2>2
<1>2. CASE Final
  <2>1. work = <<>> /\ UNCHANGED <<disk, walked, counter, cand, work, cache, heap, passed>>
    BY <1>2 DEF Final
  <2>2. QED
    BY <2>1, OutOnly
<1>3. CASE UNCHANGED vars
  <2>1. out' = out /\ UNCHANGED <<disk, walked, counter, cand, work, cache, heap, passed>>
    BY <1>3 DEF vars
  <2>2. Finished' => work = <<>>
    BY <2>1 DEF DupInv, Control, Finished
  <2>3. QED
    BY <2>1, <2>2, OutOnly
<1>4. CASE Window \/ Skew \/ Prefix \/ Deep \/ Bucket \/ Slice \/ Compare \/ Hash \/ Add
  BY <1>4, TaskSteps
<1>5. CASE Rewrite \/ Break
  BY <1>5, TreeChanges
<1>6. QED
  BY <1>1, <1>2, <1>3, <1>4, <1>5 DEF Next, Pass

-----------------------------------------------------------------------------
(* The theorems.                                                           *)

\* Whatever is rewritten or broken under the scan, the tasks on the stack
\* share no file, two equal files that nobody touched stay together from one
\* task to the next, and the counter never counts a key for less than it is.
THEOREM Inductive == Spec => []DupInv
<1>1. Init => DupInv
  BY InitKeeps
<1>2. DupInv /\ [Next]_vars => DupInv'
  BY NextKeeps
<1>3. QED
  BY <1>1, <1>2, PTL DEF Spec

\* However the windows and the ladder split a key, no file is in two groups,
\* or both in a group and noted as left out.
THEOREM NoFileTwice == Spec => []OneGroupEach
<1>1. DupInv => OneGroupEach
  BY DEF DupInv
<1>2. QED
  BY <1>1, Inductive, PTL

\* Two equal files that nobody touched are in one group by the time the
\* listing is there, unless one of them was noted as left out or their group
\* was cut at its own ceiling.
THEOREM NoPairLost == Spec => []NothingLost
<1>1. DupInv => NothingLost
  <2>1. SUFFICES ASSUME DupInv, Finished, NEW f \in Files \ touched, NEW g \in Files \ touched,
                        f # g, content[f] = content[g]
                 PROVE  \/ \E h \in Range(found) : {f, g} \subseteq h.files
                        \/ {f, g} \cap passed # {}
                        \/ \E h \in Range(found) : h.extra > 0 /\ h.hash = content[f].full
    BY DEF NothingLost
  <2>2. Kept(f, g)
    BY <2>1 DEF DupInv, PairsKept
  <2>3. Len(work) = 0
    BY <2>1 DEF DupInv, Control
  <2>4. {f, g} \cap passed # {} \/ \E i \in 1..Len(found) : Lists(found[i], f, g)
    BY <2>2, <2>3 DEF Kept
  <2>5. \A i \in 1..Len(found) : found[i] \in Range(found)
    <3>1. found \in Seq(Filled)
      BY <2>1 DEF DupInv, Types, WorkTyped
    <3>2. DOMAIN found = 1..Len(found)
      BY <3>1, LenProperties
    <3>3. QED
      BY <3>2 DEF Range
  <2>6. QED
    BY <2>4, <2>5 DEF Lists
<1>2. QED
  BY <1>1, Inductive, PTL

-----------------------------------------------------------------------------
(* Sums over finite sets.                                                  *)

\* One step of the fold, which takes the elements in an order nobody knows.
Pick(s) == CHOOSE x \in s : TRUE
Step(h, S, u) ==
  [s \in SUBSET S |-> IF s = {} THEN 0 ELSE h[Pick(s)] + u[s \ {Pick(s)}]]
Fold(h, S) == CHOOSE u : u = Step(h, S, u)

LEMMA SumUnfolds == ASSUME NEW h, NEW S PROVE SumFunctionOnSet(h, S) = Fold(h, S)[S]
  BY Zenon DEF SumFunctionOnSet, FoldFunctionOnSet, MapThenFoldSet, Fold, Step, Pick

LEMMA Picked == ASSUME NEW s, s # {} PROVE Pick(s) \in s
  BY DEF Pick

LEMMA FoldExists ==
  ASSUME NEW S, IsFiniteSet(S), NEW h, \A x \in S : h[x] \in Nat
  PROVE  Fold(h, S) = Step(h, S, Fold(h, S))
<1> DEFINE Small(n) == {s \in SUBSET S : Cardinality(s) <= n}
           Next1(u, s) == IF s = {} THEN 0 ELSE h[Pick(s)] + u[s \ {Pick(s)}]
           Folds(n) == \E u \in [Small(n) -> Nat] : \A s \in Small(n) : u[s] = Next1(u, s)
           Bad == {n \in Nat : ~Folds(n)}
<1>1. \A s \in SUBSET S : IsFiniteSet(s) /\ Cardinality(s) \in Nat /\ (Cardinality(s) = 0 <=> s = {})
  BY FS_Subset, FS_CardinalityType, FS_EmptySet
<1>2. \A s \in SUBSET S : s # {} =>
        Pick(s) \in s /\ s \ {Pick(s)} \in SUBSET S /\ Cardinality(s \ {Pick(s)}) = Cardinality(s) - 1
  BY <1>1, Picked, FS_RemoveElement
<1>3. Bad = {}
  <2>1. SUFFICES ASSUME Bad # {} PROVE FALSE
    OBVIOUS
  <2>2. PICK n \in Bad : \A m \in Bad : n <= m
    <3>1. Bad \in SUBSET Nat
      OBVIOUS
    <3> HIDE DEF Bad
    <3>2. \E n \in Bad : \A m \in Bad : n <= m
      BY <2>1, <3>1, LeastIn
    <3>3. QED
      BY <3>2
  <2>3. CASE n = 0
    <3> DEFINE u == [s \in Small(n) |-> 0]
    <3>1. \A s \in Small(n) : s = {}
      BY <1>1, <2>3
    <3>2. u \in [Small(n) -> Nat] /\ \A s \in Small(n) : u[s] = Next1(u, s)
      BY <3>1
    <3>3. Folds(n)
      BY <3>2
    <3>4. QED
      BY <3>3
  <2>4. CASE n # 0
    <3>1. n - 1 \in Nat /\ n \in Nat /\ n - 1 \notin Bad
      <4>1. n \in Nat
        OBVIOUS
      <4> HIDE DEF Bad
      <4>2. n - 1 \in Nat /\ ~(n <= n - 1)
        BY <2>4, <4>1
      <4>3. QED
        BY <2>2, <4>1, <4>2
    <3>2. Folds(n - 1)
      BY <3>1
    <3>3. PICK v \in [Small(n - 1) -> Nat] : \A s \in Small(n - 1) : v[s] = Next1(v, s)
      BY <3>2
    <3> DEFINE u == [s \in Small(n) |-> Next1(v, s)]
    <3>4. \A s \in Small(n) : s # {} => Pick(s) \in S /\ s \ {Pick(s)} \in Small(n - 1) /\ s \ {Pick(s)} \in Small(n)
      BY <1>1, <1>2, <3>1
    <3>5. u \in [Small(n) -> Nat]
      <4>1. \A s \in Small(n) : Next1(v, s) \in Nat
        <5> HIDE DEF Small, Bad
        <5>1. \A s \in Small(n) : s # {} => h[Pick(s)] \in Nat /\ v[s \ {Pick(s)}] \in Nat
          BY <3>3, <3>4
        <5>2. \A s \in Small(n) : s # {} => h[Pick(s)] + v[s \ {Pick(s)}] \in Nat
          BY <5>1
        <5>3. QED
          BY <5>2
      <4> HIDE DEF Next1, Small
      <4>2. QED
        BY <4>1
    <3>6. \A s \in Small(n - 1) : s \in Small(n) /\ u[s] = v[s]
      <4>1. \A s \in Small(n - 1) : s \in Small(n)
        BY <1>1, <3>1
      <4> HIDE DEF Small, Next1
      <4>2. QED
        BY <3>3, <4>1
    <3>7. \A s \in Small(n) : u[s] = Next1(u, s)
      <4>1. \A s \in Small(n) : u[s] = Next1(v, s)
        OBVIOUS
      <4> HIDE DEF Small, u
      <4>2. QED
        BY <3>4, <3>6, <4>1
    <3>8. Folds(n)
      <4> HIDE DEF u, Small, Next1
      <4>1. QED
        BY <3>5, <3>7
    <3>9. QED
      BY <3>8
  <2>5. QED
    BY <2>3, <2>4
<1>4. Folds(Cardinality(S))
  <2>1. Cardinality(S) \in Nat
    BY <1>1
  <2> HIDE DEF Folds
  <2>2. QED
    BY <1>3, <2>1
<1>5. Small(Cardinality(S)) = SUBSET S
  <2>1. \A s \in SUBSET S : Cardinality(s) <= Cardinality(S)
    BY FS_Subset
  <2>2. QED
    BY <2>1
<1>6. PICK u \in [SUBSET S -> Nat] : \A s \in SUBSET S : u[s] = Next1(u, s)
  <2> HIDE DEF Small, Next1
  <2>1. QED
    BY <1>4, <1>5
<1>7. u = Step(h, S, u)
  <2>1. u = [s \in SUBSET S |-> Next1(u, s)]
    <3> HIDE DEF Next1
    <3>1. QED
      BY <1>6
  <2>2. QED
    BY <2>1 DEF Step
<1>8. QED
  BY <1>7, Zenon DEF Fold

LEMMA Smallest ==
  ASSUME NEW S, IsFiniteSet(S), NEW B \in SUBSET SUBSET S, B # {}
  PROVE  \E s \in B : IsFiniteSet(s) /\ \A x \in s : s \ {x} \notin B
<1> DEFINE Sizes == {Cardinality(s) : s \in B}
<1>1. \A s \in SUBSET S : IsFiniteSet(s) /\ Cardinality(s) \in Nat
  BY FS_Subset, FS_CardinalityType
<1>2. Sizes \in SUBSET Nat /\ Sizes # {}
  BY <1>1
<1>3. PICK s \in B : \A t \in B : Cardinality(s) <= Cardinality(t)
  <2>1. \E n \in Sizes : \A m \in Sizes : n <= m
    <3> HIDE DEF Sizes
    <3>1. QED
      BY <1>2, LeastIn
  <2>2. QED
    BY <2>1
<1>4. ASSUME NEW x \in s PROVE s \ {x} \notin B
  <2>1. Cardinality(s \ {x}) = Cardinality(s) - 1
    BY <1>1, FS_RemoveElement
  <2>2. QED
    BY <1>1, <1>3, <2>1
<1>5. QED
  BY <1>1, <1>3, <1>4

\* What is taken from a sum is what it has there.
Sums(h, S) ==
  /\ SumFunctionOnSet(h, {}) = 0
  /\ \A T \in SUBSET S : SumFunctionOnSet(h, T) \in Nat
  /\ \A T \in SUBSET S : \A x \in T :
       SumFunctionOnSet(h, T) = h[x] + SumFunctionOnSet(h, T \ {x})

LEMMA SumTakes ==
  ASSUME NEW S, IsFiniteSet(S), NEW h, \A x \in S : h[x] \in Nat
  PROVE  Sums(h, S)
<1> DEFINE U(s) == SumFunctionOnSet(h, s)
           F == Fold(h, S)
<1>1. \A T \in SUBSET S : U(T) = Fold(h, T)[T]
  BY SumUnfolds
<1>2. ASSUME NEW T \in SUBSET S
      PROVE  \A s \in SUBSET T : Fold(h, T)[s] = IF s = {} THEN 0 ELSE h[Pick(s)] + Fold(h, T)[s \ {Pick(s)}]
  <2>1. IsFiniteSet(T) /\ \A x \in T : h[x] \in Nat
    BY FS_Subset
  <2>2. Fold(h, T) = Step(h, T, Fold(h, T))
    BY <2>1, FoldExists
  <2>3. QED
    BY <2>2 DEF Step
<1>3. \A s \in SUBSET S : s # {} => Pick(s) \in s
  BY Picked
<1>4. ASSUME NEW T \in SUBSET S, NEW s \in SUBSET T PROVE Fold(h, T)[s] = F[s]
  <2> DEFINE G == Fold(h, T)
             B == {t \in SUBSET T : G[t] # F[t]}
  <2>1. SUFFICES ASSUME B # {} PROVE FALSE
    OBVIOUS
  <2>2. IsFiniteSet(T) /\ B \in SUBSET SUBSET T
    BY FS_Subset
  <2>3. PICK t \in B : \A x \in t : t \ {x} \notin B
    <3> HIDE DEF B
    <3>1. \E t \in B : IsFiniteSet(t) /\ \A x \in t : t \ {x} \notin B
      BY <2>1, <2>2, Smallest
    <3>2. QED
      BY <3>1
  <2>4. /\ G[t] = IF t = {} THEN 0 ELSE h[Pick(t)] + G[t \ {Pick(t)}]
        /\ F[t] = IF t = {} THEN 0 ELSE h[Pick(t)] + F[t \ {Pick(t)}]
    <3>1. t \in SUBSET T /\ t \in SUBSET S
      OBVIOUS
    <3>2. QED
      BY <1>2, <3>1
  <2>5. t # {} /\ G[t \ {Pick(t)}] # F[t \ {Pick(t)}]
    <3>1. G[t] # F[t]
      OBVIOUS
    <3> HIDE DEF G, F
    <3>2. QED
      BY <2>4, <3>1
  <2>6. t \ {Pick(t)} \in B
    <3>1. t \ {Pick(t)} \in SUBSET T
      OBVIOUS
    <3> HIDE DEF G, F
    <3>2. QED
      BY <2>5, <3>1
  <2>7. Pick(t) \in t
    BY <2>5, Picked
  <2>8. QED
    BY <2>3, <2>6, <2>7
<1>5. \A T \in SUBSET S : U(T) = F[T]
  BY <1>1, <1>4
<1>6. \A s \in SUBSET S : F[s] = IF s = {} THEN 0 ELSE h[Pick(s)] + F[s \ {Pick(s)}]
  BY <1>2
<1>7. \A T \in SUBSET S : U(T) = IF T = {} THEN 0 ELSE h[Pick(T)] + U(T \ {Pick(T)})
  <2>1. \A T \in SUBSET S : T \ {Pick(T)} \in SUBSET S
    OBVIOUS
  <2> HIDE DEF U, F
  <2>2. QED
    BY <1>5, <1>6, <2>1
<1> HIDE DEF U, F
<1>10. U({}) = 0
  <2>1. {} \in SUBSET S
    OBVIOUS
  <2>2. QED
    BY <1>7, <2>1
<1>8. \A T \in SUBSET S : U(T) \in Nat
  <2> DEFINE B == {t \in SUBSET S : U(t) \notin Nat}
  <2>1. SUFFICES ASSUME B # {} PROVE FALSE
    OBVIOUS
  <2>2. B \in SUBSET SUBSET S
    OBVIOUS
  <2>3. PICK t \in B : \A x \in t : t \ {x} \notin B
    <3> HIDE DEF B
    <3>1. \E t \in B : IsFiniteSet(t) /\ \A x \in t : t \ {x} \notin B
      BY <2>1, <2>2, Smallest
    <3>2. QED
      BY <3>1
  <2>4. t # {}
    BY <1>10
  <2>5. Pick(t) \in t /\ U(t \ {Pick(t)}) \in Nat
    BY <1>3, <2>3, <2>4
  <2>6. U(t) \in Nat
    BY <1>7, <2>4, <2>5
  <2>7. QED
    BY <2>6
<1>9. ASSUME NEW T \in SUBSET S, NEW x \in T PROVE U(T) = h[x] + U(T \ {x})
  <2> DEFINE Good(t) == \A y \in t : U(t) = h[y] + U(t \ {y})
             B == {t \in SUBSET S : ~Good(t)}
  <2>1. SUFFICES ASSUME B # {} PROVE FALSE
    OBVIOUS
  <2>2. B \in SUBSET SUBSET S
    OBVIOUS
  <2>3. PICK t \in B : \A y \in t : t \ {y} \notin B
    <3> HIDE DEF B
    <3>1. \E t \in B : IsFiniteSet(t) /\ \A y \in t : t \ {y} \notin B
      BY <2>1, <2>2, Smallest
    <3>2. QED
      BY <3>1
  <2>4. PICK y \in t : U(t) # h[y] + U(t \ {y})
    OBVIOUS
  <2> DEFINE z == Pick(t)
  <2>5. z \in t /\ U(t) = h[z] + U(t \ {z})
    BY <1>3, <1>7
  <2> HIDE DEF z
  <2>6. y # z
    BY <2>4, <2>5
  <2>7. Good(t \ {y}) /\ Good(t \ {z})
    <3>1. t \ {y} \in SUBSET S /\ t \ {z} \in SUBSET S
      OBVIOUS
    <3> HIDE DEF Good
    <3>2. QED
      BY <2>3, <2>5, <3>1
  <2>8. U(t \ {y}) = h[z] + U((t \ {y}) \ {z}) /\ U(t \ {z}) = h[y] + U((t \ {z}) \ {y})
    BY <2>5, <2>6, <2>7
  <2>9. (t \ {y}) \ {z} = (t \ {z}) \ {y}
    OBVIOUS
  <2>10. h[y] \in Nat /\ h[z] \in Nat /\ U((t \ {z}) \ {y}) \in Nat
    BY <1>8, <2>5
  <2>11. QED
    BY <2>4, <2>5, <2>8, <2>9, <2>10
<1>11. QED
  BY <1>8, <1>9, <1>10 DEF Sums, U

LEMMA SumSame ==
  ASSUME NEW S, IsFiniteSet(S), NEW h, NEW k, \A x \in S : h[x] \in Nat /\ k[x] = h[x]
  PROVE  SumFunctionOnSet(h, S) = SumFunctionOnSet(k, S)
<1> DEFINE U(s) == SumFunctionOnSet(h, s)
           V(s) == SumFunctionOnSet(k, s)
           B == {t \in SUBSET S : U(t) # V(t)}
<1>1. Sums(h, S) /\ Sums(k, S)
  BY SumTakes
<1>2. /\ U({}) = 0 /\ V({}) = 0
      /\ \A T \in SUBSET S : \A x \in T : U(T) = h[x] + U(T \ {x}) /\ V(T) = h[x] + V(T \ {x})
  BY <1>1 DEF Sums
<1> HIDE DEF U, V
<1>3. B = {}
  <2>1. SUFFICES ASSUME B # {} PROVE FALSE
    OBVIOUS
  <2>2. B \in SUBSET SUBSET S
    OBVIOUS
  <2>3. PICK t \in B : \A y \in t : t \ {y} \notin B
    <3> HIDE DEF B
    <3>1. \E t \in B : IsFiniteSet(t) /\ \A y \in t : t \ {y} \notin B
      BY <2>1, <2>2, Smallest
    <3>2. QED
      BY <3>1
  <2>4. PICK x : x \in t
    BY <1>2
  <2>5. t \ {x} \in SUBSET S /\ t \ {x} \notin B
    BY <2>3, <2>4
  <2>6. U(t \ {x}) = V(t \ {x})
    BY <2>5
  <2>7. U(t) = V(t)
    BY <1>2, <2>4, <2>6
  <2>8. QED
    BY <2>7
<1>4. QED
  BY <1>3 DEF U, V

LEMMA SumAdds ==
  ASSUME NEW S, IsFiniteSet(S), NEW h, NEW k, NEW m,
         \A x \in S : h[x] \in Nat /\ k[x] \in Nat /\ m[x] = h[x] + k[x]
  PROVE  SumFunctionOnSet(m, S) = SumFunctionOnSet(h, S) + SumFunctionOnSet(k, S)
<1> DEFINE U(s) == SumFunctionOnSet(h, s)
           V(s) == SumFunctionOnSet(k, s)
           W(s) == SumFunctionOnSet(m, s)
           B == {t \in SUBSET S : W(t) # U(t) + V(t)}
<1>1. \A x \in S : m[x] \in Nat
  OBVIOUS
<1>2. Sums(h, S) /\ Sums(k, S) /\ Sums(m, S)
  BY <1>1, SumTakes
<1>3. /\ U({}) = 0 /\ V({}) = 0 /\ W({}) = 0
      /\ \A T \in SUBSET S : U(T) \in Nat /\ V(T) \in Nat /\ W(T) \in Nat
      /\ \A T \in SUBSET S : \A x \in T :
           U(T) = h[x] + U(T \ {x}) /\ V(T) = k[x] + V(T \ {x}) /\ W(T) = m[x] + W(T \ {x})
  BY <1>2 DEF Sums
<1> HIDE DEF U, V, W
<1>4. B = {}
  <2>1. SUFFICES ASSUME B # {} PROVE FALSE
    OBVIOUS
  <2>2. B \in SUBSET SUBSET S
    OBVIOUS
  <2>3. PICK t \in B : \A y \in t : t \ {y} \notin B
    <3> HIDE DEF B
    <3>1. \E t \in B : IsFiniteSet(t) /\ \A y \in t : t \ {y} \notin B
      BY <2>1, <2>2, Smallest
    <3>2. QED
      BY <3>1
  <2>4. PICK x : x \in t
    <3>1. t \in B
      BY <2>3
    <3>2. W({}) = U({}) + V({})
      BY <1>3
    <3>3. W(t) # U(t) + V(t)
      BY <3>1
    <3>4. t # {}
      BY <3>2, <3>3
    <3>5. QED
      BY <3>4
  <2>5. t \ {x} \in SUBSET S /\ t \ {x} \notin B
    BY <2>3, <2>4
  <2>6. W(t \ {x}) = U(t \ {x}) + V(t \ {x})
    BY <2>5
  <2>7. h[x] \in Nat /\ k[x] \in Nat /\ m[x] = h[x] + k[x]
    BY <2>4
  <2>8. W(t) = m[x] + W(t \ {x}) /\ U(t) = h[x] + U(t \ {x}) /\ V(t) = k[x] + V(t \ {x})
        /\ U(t \ {x}) \in Nat /\ V(t \ {x}) \in Nat
    BY <1>3, <2>4, <2>5
  <2>9. W(t) = U(t) + V(t)
    BY <2>6, <2>7, <2>8
  <2>10. QED
    BY <2>9
<1>5. QED
  BY <1>4 DEF U, V, W

\* A part of a sum, and the least a sum can be.
LEMMA SumPart ==
  ASSUME NEW S, IsFiniteSet(S), NEW h, \A x \in S : h[x] \in Nat, NEW P \in SUBSET S
  PROVE  SumFunctionOnSet(h, P) <= SumFunctionOnSet(h, S)
<1> DEFINE U(s) == SumFunctionOnSet(h, s)
           B == {t \in SUBSET S : P \subseteq t /\ ~(U(P) <= U(t))}
<1>1. Sums(h, S)
  BY SumTakes
<1>2. /\ \A T \in SUBSET S : U(T) \in Nat
      /\ \A T \in SUBSET S : \A x \in T : U(T) = h[x] + U(T \ {x})
  BY <1>1 DEF Sums
<1> HIDE DEF U
<1>3. B = {}
  <2>1. SUFFICES ASSUME B # {} PROVE FALSE
    OBVIOUS
  <2>2. B \in SUBSET SUBSET S
    OBVIOUS
  <2>3. PICK t \in B : \A y \in t : t \ {y} \notin B
    <3> HIDE DEF B
    <3>1. \E t \in B : IsFiniteSet(t) /\ \A y \in t : t \ {y} \notin B
      BY <2>1, <2>2, Smallest
    <3>2. QED
      BY <3>1
  <2>4. t # P
    BY <1>2
  <2>5. PICK x \in t : x \notin P
    BY <2>4
  <2>6. t \ {x} \in SUBSET S /\ P \subseteq t \ {x} /\ t \ {x} \notin B
    BY <2>3, <2>5
  <2>7. U(P) <= U(t \ {x})
    BY <2>6
  <2>8. h[x] \in Nat /\ U(t) = h[x] + U(t \ {x}) /\ U(P) \in Nat /\ U(t \ {x}) \in Nat
    BY <1>2, <2>6
  <2>9. U(P) <= U(t)
    BY <2>7, <2>8
  <2>10. QED
    BY <2>9
<1>4. QED
  BY <1>3 DEF U

LEMMA SumFloor ==
  ASSUME NEW S, IsFiniteSet(S), NEW h, NEW c \in {1, 2}, \A x \in S : h[x] \in Nat /\ h[x] >= c
  PROVE  SumFunctionOnSet(h, S) >= c * Cardinality(S)
<1> DEFINE U(s) == SumFunctionOnSet(h, s)
           B == {t \in SUBSET S : ~(U(t) >= c * Cardinality(t))}
<1>1. Sums(h, S)
  BY SumTakes
<1>2. /\ U({}) = 0
      /\ \A T \in SUBSET S : U(T) \in Nat
      /\ \A T \in SUBSET S : \A x \in T : U(T) = h[x] + U(T \ {x})
  BY <1>1 DEF Sums
<1> HIDE DEF U
<1>3. B = {}
  <2>1. SUFFICES ASSUME B # {} PROVE FALSE
    OBVIOUS
  <2>2. B \in SUBSET SUBSET S
    OBVIOUS
  <2>3. PICK t \in B : IsFiniteSet(t) /\ \A y \in t : t \ {y} \notin B
    <3> HIDE DEF B
    <3>1. \E t \in B : IsFiniteSet(t) /\ \A y \in t : t \ {y} \notin B
      BY <2>1, <2>2, Smallest
    <3>2. QED
      BY <3>1
  <2>4. t # {}
    BY <1>2, FS_EmptySet
  <2>5. PICK x : x \in t
    BY <2>4
  <2>6. t \ {x} \in SUBSET S /\ t \ {x} \notin B
    BY <2>3, <2>5
  <2>7. U(t \ {x}) >= c * Cardinality(t \ {x})
    BY <2>6
  <2>8. h[x] \in Nat /\ h[x] >= c /\ U(t) = h[x] + U(t \ {x}) /\ U(t \ {x}) \in Nat
    BY <1>2, <2>5, <2>6
  <2>9. Cardinality(t \ {x}) = Cardinality(t) - 1 /\ Cardinality(t) \in Nat
    BY <2>3, <2>5, FS_RemoveElement, FS_CardinalityType
  <2>10. U(t) >= c * Cardinality(t)
    <3>1. CASE c = 1
      BY <2>7, <2>8, <2>9, <3>1
    <3>2. CASE c = 2
      BY <2>7, <2>8, <2>9, <3>2
    <3>3. QED
      BY <3>1, <3>2
  <2>11. QED
    BY <2>10
<1>4. QED
  BY <1>3 DEF U

\* A sum along a list is the sum over what it lists.
UpTo(s, c) == {s[i] : i \in 1..c}
Along(S, h, n, s, k) ==
  /\ n \in Nat /\ (\A x \in S : h[x] \in Nat)
  /\ (\A i \in 1..n : s[i] \in S) /\ (\A i, j \in 1..n : i # j => s[i] # s[j])
  /\ \A i \in 1..n : k[i] = h[s[i]]
LEMMA SumAlong ==
  ASSUME NEW S, NEW h, NEW n, NEW s, NEW k, Along(S, h, n, s, k)
  PROVE  SumFunctionOnSet(k, 1..n) = SumFunctionOnSet(h, UpTo(s, n))
<1> USE DEF Along
<1> DEFINE I == {s[i] : i \in 1..n}
           W(T) == SumFunctionOnSet(k, T)
           U(T) == SumFunctionOnSet(h, T)
           Image(T) == {s[i] : i \in T}
           B == {T \in SUBSET (1..n) : W(T) # U(Image(T))}
<1>1. IsFiniteSet(1..n)
  BY FS_Interval
<1>2. IsFiniteSet(I) /\ I \subseteq S
  <2> DEFINE g == [i \in 1..n |-> s[i]]
  <2>1. g \in Surjection(1..n, I)
    BY DEF Surjection
  <2> HIDE DEF g, I
  <2>2. IsFiniteSet(I)
    BY <1>1, <2>1, FS_Surjection
  <2>3. QED
    BY <2>2 DEF I
<1>3. Sums(k, 1..n) /\ Sums(h, I)
  <2>1. \A i \in 1..n : k[i] \in Nat
    OBVIOUS
  <2>2. \A x \in I : h[x] \in Nat
    OBVIOUS
  <2> HIDE DEF I
  <2>3. QED
    BY <1>1, <1>2, <2>1, <2>2, SumTakes
<1>4. /\ W({}) = 0 /\ U({}) = 0
      /\ \A T \in SUBSET (1..n) : \A i \in T : W(T) = k[i] + W(T \ {i})
      /\ \A T \in SUBSET I : \A x \in T : U(T) = h[x] + U(T \ {x})
  BY <1>3 DEF Sums
<1>5. \A T \in SUBSET (1..n) : /\ Image(T) \in SUBSET I
                              /\ \A i \in T : s[i] \in Image(T) /\ Image(T \ {i}) = Image(T) \ {s[i]}
  OBVIOUS
<1>6. Image({}) = {}
  OBVIOUS
<1> HIDE DEF U, W, Image, I
<1>7. B = {}
  <2>1. SUFFICES ASSUME B # {} PROVE FALSE
    OBVIOUS
  <2>2. B \in SUBSET SUBSET (1..n)
    OBVIOUS
  <2>3. PICK t \in B : \A y \in t : t \ {y} \notin B
    <3> HIDE DEF B
    <3>1. \E t \in B : IsFiniteSet(t) /\ \A y \in t : t \ {y} \notin B
      BY <1>1, <2>1, <2>2, Smallest
    <3>2. QED
      BY <3>1
  <2>4. PICK i : i \in t
    BY <1>4, <1>6
  <2>5. t \in SUBSET (1..n) /\ t \ {i} \in SUBSET (1..n) /\ t \ {i} \notin B /\ i \in 1..n
    BY <2>3, <2>4
  <2>6. W(t \ {i}) = U(Image(t \ {i}))
    BY <2>5
  <2>7. W(t) = k[i] + W(t \ {i}) /\ U(Image(t)) = h[s[i]] + U(Image(t \ {i})) /\ k[i] = h[s[i]]
    BY <1>4, <1>5, <2>4, <2>5
  <2>8. QED
    BY <2>6, <2>7
<1>8. 1..n \in SUBSET (1..n) /\ Image(1..n) = I
  BY DEF Image, I
<1>9. QED
  BY <1>7, <1>8 DEF U, W, I, UpTo

-----------------------------------------------------------------------------
(* The heap.                                                               *)

\* The files of the groups in S, those that are stored, and those of the list s.
MembersIn(S) == SumFunctionOnSet([g \in S |-> Members(g)], S)
StoredIn(S)  == SumFunctionOnSet([g \in S |-> Stored(g)], S)
Offered(s)   == SumFunctionOnSet([i \in DOMAIN s |-> Members(s[i])], DOMAIN s)

\* What the heap holds has been found, and fits; what it dropped and what was
\* noted are counted; and a group it dropped is worse than all it holds.
HeapFits ==
  /\ acc \subseteq Range(found) /\ IsFiniteSet(acc) /\ Cardinality(acc) <= Limit
  /\ dropG \in Nat /\ dropF \in Nat
Accounts ==
  /\ dropG + Cardinality(acc) = Len(found)
  /\ dropF + MembersIn(acc) = Offered(found) + Cardinality(passed)
BestKept ==
  \A h \in Range(found) \ acc : Cardinality(acc) = Limit /\ \A a \in acc : Better(a, h)
HeapInv == HeapFits /\ Accounts /\ BestKept

Ordered(S) ==
  /\ \A a, b \in S : a # b => Better(a, b) \/ Better(b, a)
  /\ \A a, b \in S : Better(a, b) => ~Better(b, a)
  /\ \A a, b, c \in S : Better(a, b) /\ Better(b, c) => Better(a, c)

Lowest(S, g) == \A h \in S \ {g} : Better(h, g)

LEMMA LowestOf ==
  ASSUME NEW S, IsFiniteSet(S), S # {}, Ordered(S)
  PROVE  \E g \in S : Lowest(S, g)
<1> DEFINE Bad == {T \in SUBSET S : T # {} /\ ~\E g \in T : Lowest(T, g)}
<1> SUFFICES ASSUME Bad # {} PROVE FALSE
  OBVIOUS
<1>1. PICK T \in Bad : \A x \in T : T \ {x} \notin Bad
  <2>1. Bad \in SUBSET SUBSET S
    OBVIOUS
  <2> HIDE DEF Bad
  <2>2. \E T \in Bad : IsFiniteSet(T) /\ \A x \in T : T \ {x} \notin Bad
    BY <2>1, Smallest
  <2>3. QED
    BY <2>2
<1>4. T \subseteq S /\ T # {} /\ \A g \in T : ~Lowest(T, g)
  OBVIOUS
<1>5. PICK x \in T : TRUE
  BY <1>4
<1> DEFINE U == T \ {x}
<1>7. U \in SUBSET S /\ U \notin Bad
  BY <1>1, <1>4
<1>8. U # {}
  <2>1. SUFFICES ASSUME U = {} PROVE FALSE
    OBVIOUS
  <2>2. T \ {x} = {}
    BY <2>1
  <2>3. Lowest(T, x)
    BY <2>2 DEF Lowest
  <2>4. QED
    BY <1>4, <2>3
<1>9. PICK y \in U : Lowest(U, y)
  BY <1>7, <1>8
<1>10. y \in T /\ y # x /\ y \in S /\ x \in S
  BY <1>4
<1>11. \A h \in T : h # x /\ h # y => Better(h, y)
  BY <1>9 DEF Lowest
<1>12. CASE Better(x, y)
  <2>1. Lowest(T, y)
    BY <1>11, <1>12 DEF Lowest
  <2>2. QED
    BY <1>4, <1>10, <2>1
<1>13. CASE Better(y, x)
  <2>1. \A h \in T : h # x => Better(h, x)
    BY <1>4, <1>10, <1>11, <1>13 DEF Ordered
  <2>2. Lowest(T, x)
    BY <2>1 DEF Lowest
  <2>3. QED
    BY <1>4, <2>2
<1>14. QED
  BY <1>10, <1>12, <1>13 DEF Ordered

\* The parts of a group that its place in the listing depends on.
LEMMA Graded ==
  ASSUME TreeTyped, NEW g \in Filled
  PROVE  /\ Weight(g) \in Nat /\ Members(g) \in Nat /\ g.hash \in Nat
         /\ Min(g.files) \in Nat /\ Min(g.files) \in g.files
<1>1. /\ g.size \in Nat /\ g.hash \in Nat /\ g.extra \in Nat
      /\ g.files \in SUBSET Files /\ g.files # {}
  BY Constants DEF Filled, Group, Fulls
<1>2. IsFiniteSet(g.files) /\ g.files \in SUBSET Nat
  BY <1>1, FilesFinite, FS_Subset
<1>3. Cardinality(g.files) \in Nat
  BY <1>2, FS_CardinalityType
<1>4. Cardinality(g.files) # 0
  BY <1>1, <1>2, FS_EmptySet
<1>5. PICK c \in Nat : c + 1 = Cardinality(g.files)
  <2>1. Cardinality(g.files) - 1 \in Nat
    BY <1>3, <1>4
  <2>2. QED
    BY <1>3, <2>1
<1>6. \A a, b \in Nat : a * b \in Nat
  OBVIOUS
<1>7. Weight(g) \in Nat
  <2>1. Cardinality(g.files) - 1 = c
    BY <1>5
  <2>2. g.size * c \in Nat /\ g.size * g.extra \in Nat
    BY <1>1, <1>6
  <2>3. Weight(g) = g.size * c + g.size * g.extra
    BY <2>1 DEF Weight
  <2>4. QED
    BY <2>2, <2>3
<1>8. Members(g) \in Nat
  BY <1>1, <1>3 DEF Members
<1>9. Min(g.files) \in g.files
  <2>1. \E x \in g.files : \A y \in g.files : x <= y
    BY <1>1, <1>2, LeastIn
  <2>2. QED
    BY <2>1 DEF Min
<1>10. QED
  BY <1>1, <1>2, <1>7, <1>8, <1>9

\* Groups that share no file are listed in one order only.
LEMMA GroupsOrdered ==
  ASSUME TreeTyped, NEW S \in SUBSET Filled,
         \A a, b \in S : a # b => a.files \cap b.files = {}
  PROVE  Ordered(S)
<1>1. \A g \in S : /\ Weight(g) \in Nat /\ g.hash \in Nat
                   /\ Min(g.files) \in Nat /\ Min(g.files) \in g.files
  BY Graded
<1>2. \A a, b \in S : a # b => Min(a.files) # Min(b.files)
  BY <1>1
<1>3. \A a, b \in S : a # b => Better(a, b) \/ Better(b, a)
  BY <1>1, <1>2 DEF Better
<1>4. \A a, b, c \in S : Better(a, b) /\ Better(b, c) => Better(a, c)
  BY <1>1 DEF Better
<1>5. \A a, b \in S : Better(a, b) => ~Better(b, a)
  BY <1>1 DEF Better
<1>6. QED
  BY <1>3, <1>4, <1>5 DEF Ordered

\* Groups that share no file, listed, are as many as the list is long.
FilesApart(s) == \A i, j \in DOMAIN s : i # j => s[i].files \cap s[j].files = {}
LEMMA Founds ==
  ASSUME TreeTyped, NEW s \in Seq(Filled), FilesApart(s)
  PROVE  /\ Range(s) \in SUBSET Filled /\ IsFiniteSet(Range(s)) /\ Ordered(Range(s))
         /\ \A i, j \in DOMAIN s : i # j => s[i] # s[j]
<1>1. /\ Len(s) \in Nat /\ DOMAIN s = 1..Len(s) /\ (\A i \in DOMAIN s : s[i] \in Filled)
      /\ \A x : x \in Range(s) <=> \E i \in DOMAIN s : x = s[i]
  <2>1. Len(s) \in Nat /\ DOMAIN s = 1..Len(s) /\ \A i \in DOMAIN s : s[i] \in Filled
    BY LenProperties
  <2>2. QED
    BY <2>1 DEF Range
<1>2. IsFiniteSet(Range(s))
  <2> DEFINE f == [i \in 1..Len(s) |-> s[i]]
  <2>1. f \in Surjection(1..Len(s), Range(s))
    BY <1>1 DEF Surjection
  <2>2. IsFiniteSet(1..Len(s))
    BY <1>1, FS_Interval
  <2> HIDE DEF f
  <2>3. QED
    BY <2>1, <2>2, FS_Surjection
<1>3. \A a, b \in Range(s) : a # b => a.files \cap b.files = {}
  BY <1>1 DEF FilesApart
<1>4. Range(s) \in SUBSET Filled
  BY <1>1
<1>5. \A i, j \in DOMAIN s : i # j => s[i] # s[j]
  <2>1. \A g \in Filled : g.files # {}
    BY DEF Filled
  <2>2. QED
    BY <1>1, <2>1 DEF FilesApart
<1>6. QED
  BY <1>2, <1>3, <1>4, <1>5, GroupsOrdered

\* The sums over groups take them one at a time.
LEMMA MembersTake ==
  ASSUME TreeTyped, NEW S \in SUBSET Filled, IsFiniteSet(S)
  PROVE  /\ MembersIn({}) = 0 /\ MembersIn(S) \in Nat
         /\ \A x \in S : MembersIn(S) = Members(x) + MembersIn(S \ {x}) /\ MembersIn(S \ {x}) \in Nat
<1> DEFINE h == [g \in S |-> Members(g)]
<1>1. \A g \in S : h[g] \in Nat /\ h[g] = Members(g)
  BY Graded
<1>2. ASSUME NEW T \in SUBSET S PROVE SumFunctionOnSet(h, T) = MembersIn(T)
  <2> DEFINE k == [g \in T |-> Members(g)]
  <2>1. IsFiniteSet(T) /\ \A g \in T : h[g] \in Nat /\ k[g] = h[g]
    BY <1>1, FS_Subset
  <2>2. SumFunctionOnSet(k, T) = MembersIn(T)
    BY DEF MembersIn
  <2> HIDE DEF h, k
  <2>3. SumFunctionOnSet(h, T) = SumFunctionOnSet(k, T)
    BY <2>1, SumSame
  <2>4. QED
    BY <2>2, <2>3
<1> HIDE DEF h
<1>3. Sums(h, S)
  BY <1>1, SumTakes
<1>4. {} \in SUBSET S /\ S \in SUBSET S /\ \A x \in S : S \ {x} \in SUBSET S
  OBVIOUS
<1>5. QED
  BY <1>1, <1>2, <1>3, <1>4 DEF Sums

LEMMA OfferedGrows ==
  ASSUME TreeTyped, NEW s \in Seq(Filled), NEW g \in Filled
  PROVE  Offered(s) \in Nat /\ Offered(Append(s, g)) = Members(g) + Offered(s)
<1> DEFINE t == Append(s, g)
           n == Len(s)
<1>1. /\ n \in Nat /\ DOMAIN s = 1..n /\ DOMAIN t = 1..(n + 1) /\ t[n + 1] = g
      /\ (\A i \in 1..n : t[i] = s[i]) /\ \A i \in 1..(n + 1) : t[i] \in Filled
  <2>1. /\ t \in Seq(Filled) /\ Len(t) = n + 1 /\ t[n + 1] = g
        /\ (\A i \in 1..n : t[i] = s[i]) /\ n \in Nat /\ DOMAIN s = 1..n
    BY AppendProperties, LenProperties
  <2> HIDE DEF t
  <2>2. DOMAIN t = 1..(n + 1) /\ \A i \in 1..(n + 1) : t[i] \in Filled
    BY <2>1, LenProperties
  <2>3. QED
    BY <2>1, <2>2
<1> HIDE DEF t, n
<1> DEFINE h == [i \in DOMAIN s |-> Members(s[i])]
           k == [i \in DOMAIN t |-> Members(t[i])]
<1>2. \A i \in 1..(n + 1) : k[i] \in Nat
  BY <1>1, Graded
<1>3. (\A i \in 1..n : i \in 1..(n + 1)) /\ n + 1 \in 1..(n + 1) /\ (1..(n + 1)) \ {n + 1} = 1..n
  BY <1>1
<1>4. (\A i \in 1..n : h[i] \in Nat /\ k[i] = h[i]) /\ k[n + 1] = Members(g)
  <2>1. \A i \in 1..n : h[i] = Members(s[i]) /\ k[i] = Members(s[i])
    BY <1>1, <1>3
  <2>2. \A i \in 1..n : h[i] = k[i]
    BY <2>1
  <2>3. k[n + 1] = Members(g)
    BY <1>1, <1>3
  <2> HIDE DEF h, k
  <2>4. QED
    BY <1>2, <1>3, <2>2, <2>3
<1>5. Offered(s) = SumFunctionOnSet(h, 1..n) /\ Offered(t) = SumFunctionOnSet(k, 1..(n + 1))
  BY <1>1 DEF Offered
<1> HIDE DEF h, k
<1>6. IsFiniteSet(1..n) /\ IsFiniteSet(1..(n + 1))
  BY <1>1, FS_Interval
<1>7. SumFunctionOnSet(h, 1..n) = SumFunctionOnSet(k, 1..n)
  BY <1>4, <1>6, SumSame
<1>8. Sums(k, 1..(n + 1))
  BY <1>2, <1>6, SumTakes
<1>9. /\ SumFunctionOnSet(k, 1..(n + 1)) = k[n + 1] + SumFunctionOnSet(k, 1..n)
      /\ SumFunctionOnSet(k, 1..n) \in Nat
  <2>1. 1..(n + 1) \in SUBSET (1..(n + 1)) /\ 1..n \in SUBSET (1..(n + 1))
    BY <1>3
  <2>2. SumFunctionOnSet(k, 1..(n + 1)) = k[n + 1] + SumFunctionOnSet(k, (1..(n + 1)) \ {n + 1})
    BY <1>3, <1>8, <2>1 DEF Sums
  <2>3. QED
    BY <1>3, <1>8, <2>1, <2>2 DEF Sums
<1>10. QED
  BY <1>4, <1>5, <1>7, <1>9 DEF t

LEMMA LimitHolds == Limit \in Nat \ {0} /\ 2 * Limit > FileCap
<1>1. \A n \in Nat : n \div 2 \in Nat /\ 2 * (n \div 2 + 1) > n
  OBVIOUS
<1>2. QED
  BY <1>1, Constants DEF Limit

\* The heap makes room for a group by dropping the worst.
LEMMA KeepFits ==
  ASSUME TreeTyped, NEW g, NEW S \in SUBSET Filled, S = acc \cup {g}, g \notin acc,
         IsFiniteSet(acc), Cardinality(acc) <= Limit, Ordered(S)
  PROVE  /\ Keep(g) \subseteq S /\ IsFiniteSet(Keep(g)) /\ Cardinality(Keep(g)) <= Limit
         /\ Cardinality(Lost(g)) \in Nat /\ MembersIn(Lost(g)) \in Nat
         /\ Cardinality(Keep(g)) + Cardinality(Lost(g)) = Cardinality(acc) + 1
         /\ MembersIn(Keep(g)) + MembersIn(Lost(g)) = MembersIn(acc) + Members(g)
         /\ Lost(g) = S \ Keep(g)
         /\ (Lost(g) # {} \/ Cardinality(acc) = Limit) =>
              Cardinality(Keep(g)) = Limit /\ \E w \in S : Lost(g) = {w} /\ \A a \in Keep(g) : Better(a, w)
<1>1. /\ IsFiniteSet(S) /\ S # {} /\ Cardinality(acc) \in Nat
      /\ Cardinality(S) = Cardinality(acc) + 1 /\ S \ {g} = acc /\ Lost(g) = S \ Keep(g)
  BY FS_AddElement, FS_CardinalityType DEF Lost
<1>2. /\ MembersIn({}) = 0 /\ MembersIn(S) \in Nat /\ MembersIn(S) = Members(g) + MembersIn(acc)
      /\ \A x \in S : /\ MembersIn(S) = Members(x) + MembersIn(S \ {x})
                      /\ MembersIn(S \ {x}) \in Nat /\ Members(x) \in Nat
  <2>1. /\ MembersIn({}) = 0 /\ MembersIn(S) \in Nat
        /\ \A x \in S : MembersIn(S) = Members(x) + MembersIn(S \ {x}) /\ MembersIn(S \ {x}) \in Nat
    BY <1>1, MembersTake
  <2>2. \A x \in S : Members(x) \in Nat
    BY Graded
  <2>3. g \in S
    OBVIOUS
  <2>4. QED
    BY <1>1, <2>1, <2>2, <2>3
<1>3. CASE Cardinality(acc) < Limit
  <2>1. Keep(g) = S /\ Lost(g) = {}
    BY <1>1, <1>3 DEF Keep
  <2>2. Cardinality(Keep(g)) <= Limit /\ IsFiniteSet(Keep(g))
    BY <1>1, <1>3, <2>1, LimitHolds
  <2>3. Cardinality(Lost(g)) = 0
    BY <2>1, FS_EmptySet
  <2>4. MembersIn(Lost(g)) = 0 /\ MembersIn(Keep(g)) = MembersIn(S)
    BY <1>2, <2>1
  <2>5. /\ Cardinality(Keep(g)) + Cardinality(Lost(g)) = Cardinality(acc) + 1
        /\ MembersIn(Keep(g)) + MembersIn(Lost(g)) = MembersIn(acc) + Members(g)
    <3>1. g \in S /\ S \ {g} = acc
      BY <1>1
    <3>2. MembersIn(acc) \in Nat /\ Members(g) \in Nat
      BY <1>2, <3>1
    <3>3. QED
      BY <1>1, <1>2, <2>1, <2>3, <2>4, <3>2
  <2>6. ~(Lost(g) # {} \/ Cardinality(acc) = Limit)
    BY <1>1, <1>3, <2>1, LimitHolds
  <2>7. QED
    BY <1>1, <2>1, <2>2, <2>3, <2>4, <2>5, <2>6
<1>4. CASE ~(Cardinality(acc) < Limit)
  <2> DEFINE w == Worst(S)
  <2>1. w \in S /\ Lowest(S, w)
    <3>1. \E h \in S : Lowest(S, h)
      BY <1>1, LowestOf
    <3>2. QED
      BY <3>1 DEF Worst, Lowest
  <2>2. Keep(g) = S \ {w}
    BY <1>4 DEF Keep
  <2> HIDE DEF w
  <2>3. Lost(g) = {w}
    BY <1>1, <2>1, <2>2
  <2>4. IsFiniteSet(S \ {w}) /\ Cardinality(S \ {w}) = Cardinality(S) - 1
    BY <1>1, <2>1, FS_RemoveElement
  <2>5. Cardinality(acc) = Limit /\ Cardinality(Keep(g)) = Limit /\ IsFiniteSet(Keep(g))
    BY <1>1, <1>4, <2>2, <2>4, LimitHolds
  <2>6. Cardinality({w}) = 1 /\ MembersIn({w}) = Members(w)
    <3>1. IsFiniteSet({w}) /\ {w} \in SUBSET Filled /\ {w} \ {w} = {} /\ w \in {w}
      BY <2>1, FS_Singleton
    <3>2. MembersIn({w}) = Members(w) + MembersIn({w} \ {w})
      BY <3>1, MembersTake
    <3>3. MembersIn({w} \ {w}) = 0 /\ Members(w) \in Nat
      BY <1>2, <2>1, <3>1, Zenon
    <3>4. MembersIn({w}) = Members(w)
      BY <3>2, <3>3
    <3>5. Cardinality({w}) = 1
      BY FS_Singleton
    <3>6. QED
      BY <3>4, <3>5
  <2>7. /\ Cardinality(Lost(g)) = 1 /\ MembersIn(Lost(g)) = Members(w) /\ Members(w) \in Nat
        /\ MembersIn(Keep(g)) + MembersIn(Lost(g)) = MembersIn(acc) + Members(g)
    <3>1. g \in S /\ S \ {g} = acc
      BY <1>1
    <3>2. MembersIn(acc) \in Nat /\ Members(g) \in Nat
      BY <1>2, <3>1
    <3>3. MembersIn(S \ {w}) \in Nat /\ Members(w) \in Nat /\ MembersIn(S) = Members(w) + MembersIn(S \ {w})
      BY <1>2, <2>1
    <3>4. QED
      BY <1>2, <2>2, <2>3, <2>6, <3>2, <3>3
  <2>8. \A a \in Keep(g) : Better(a, w)
    BY <2>1, <2>2 DEF Lowest
  <2>9. Limit \in Nat
    BY LimitHolds
  <2>10. QED
    BY <1>1, <2>1, <2>2, <2>3, <2>5, <2>7, <2>8, <2>9
<1>5. QED
  BY <1>3, <1>4

\* What a list holds once a group is added to it.
LEMMA RangeGrows ==
  ASSUME NEW s \in Seq(Filled), NEW g \in Filled
  PROVE  Range(Append(s, g)) = Range(s) \cup {g} /\ Len(Append(s, g)) = Len(s) + 1 /\ Len(s) \in Nat
<1> DEFINE t == Append(s, g)
           n == Len(s)
<1>1. /\ t \in Seq(Filled) /\ Len(t) = n + 1 /\ t[n + 1] = g
      /\ (\A i \in 1..n : t[i] = s[i]) /\ n \in Nat /\ DOMAIN s = 1..n
  BY AppendProperties, LenProperties
<1> HIDE DEF t
<1>2. DOMAIN t = 1..(n + 1)
  BY <1>1, LenProperties
<1> HIDE DEF n
<1>3. \A i \in 1..(n + 1) : i \in 1..n \/ i = n + 1
  BY <1>1
<1>4. n + 1 \in 1..(n + 1) /\ \A i \in 1..n : i \in 1..(n + 1)
  BY <1>1
<1>5. ASSUME NEW x PROVE x \in Range(t) <=> x \in Range(s) \cup {g}
  <2>1. x \in Range(t) <=> \E i \in 1..(n + 1) : x = t[i]
    BY <1>2 DEF Range
  <2>2. x \in Range(s) <=> \E i \in 1..n : x = s[i]
    BY <1>1 DEF Range
  <2>3. QED
    BY <1>1, <1>3, <1>4, <2>1, <2>2
<1>6. QED
  BY <1>1, <1>5 DEF t, n

\* A new group is offered: what it drives out is counted, and is the worst.
LEMMA AddHeap ==
  ASSUME DupInv, OneGroupEach', HeapInv, Add
  PROVE  HeapInv'
<1>1. TreeTyped /\ work \in Seq(Task) /\ found \in Seq(Filled) /\ Fresh
  BY DEF DupInv, Types, WorkTyped
<1>2. Doing("add")
  BY DEF Add
<1>3. work # <<>> /\ Head(work).do = "add"
  BY <1>2 DEF Doing
<1>4. Head(work) = work[1] /\ 1 \in 1..Len(work) /\ Head(work) \in Task
  BY <1>1, <1>3, Stacked
<1>5. PICK g \in Head(work).groups :
        /\ acc' = Keep(g) /\ dropG' = dropG + Cardinality(Lost(g))
        /\ dropF' = dropF + SumFunction([h \in Lost(g) |-> Members(h)])
        /\ found' = Append(found, g)
  BY Zenon DEF Add
<1>6. g \in Filled
  BY <1>3, <1>4, TaskFields
<1>7. passed' = passed
  BY Zenon DEF Add
<1>8. SumFunction([h \in Lost(g) |-> Members(h)]) = MembersIn(Lost(g))
  BY DEF SumFunction, MembersIn
<1> DEFINE S == acc \cup {g}
<1>9. /\ acc \subseteq Range(found) /\ IsFiniteSet(acc) /\ Cardinality(acc) <= Limit
      /\ dropG \in Nat /\ dropF \in Nat
  BY DEF HeapInv, HeapFits
<1>10. Range(found') = Range(found) \cup {g} /\ Len(found') = Len(found) + 1 /\ Len(found) \in Nat
  BY <1>1, <1>5, <1>6, RangeGrows
<1>11. Range(found') \in SUBSET Filled /\ Ordered(Range(found'))
  <2>1. found' \in Seq(Filled)
    BY <1>1, <1>5, <1>6, AppendProperties
  <2>2. FilesApart(found')
    BY DEF OneGroupEach, FilesApart
  <2>3. QED
    BY <1>1, <2>1, <2>2, Founds
<1>12. g \notin Range(found)
  <2>1. SUFFICES ASSUME g \in Range(found) PROVE FALSE
    OBVIOUS
  <2>2. PICK i \in 1..Len(found) : found[i] = g
    BY <1>1, <2>1, LenProperties DEF Range
  <2>3. PICK f \in g.files : f \in Files
    BY <1>6 DEF Filled, Group
  <2>4. Has(work[1], f)
    BY <1>3, <1>4, <2>3 DEF Has
  <2>5. ~Settled(f)
    BY <1>1, <1>4, <2>3, <2>4 DEF Fresh
  <2>6. QED
    BY <2>2, <2>3, <2>5 DEF Settled
<1>13. S \in SUBSET Filled /\ Ordered(S) /\ g \notin acc
  <2>1. S \subseteq Range(found')
    BY <1>9, <1>10
  <2> HIDE DEF S
  <2>2. S \in SUBSET Filled /\ Ordered(S)
    BY <1>11, <2>1 DEF Ordered
  <2>3. QED
    BY <1>9, <1>12, <2>2
<1>14. S = acc \cup {g}
  OBVIOUS
<1> HIDE DEF S
<1>15. /\ Keep(g) \subseteq S /\ IsFiniteSet(Keep(g)) /\ Cardinality(Keep(g)) <= Limit
       /\ Cardinality(Lost(g)) \in Nat /\ MembersIn(Lost(g)) \in Nat
       /\ Cardinality(Keep(g)) + Cardinality(Lost(g)) = Cardinality(acc) + 1
       /\ MembersIn(Keep(g)) + MembersIn(Lost(g)) = MembersIn(acc) + Members(g)
       /\ Lost(g) = S \ Keep(g)
       /\ (Lost(g) # {} \/ Cardinality(acc) = Limit) =>
            Cardinality(Keep(g)) = Limit /\ \E w \in S : Lost(g) = {w} /\ \A a \in Keep(g) : Better(a, w)
  BY <1>1, <1>9, <1>13, <1>14, KeepFits
<1>16. HeapFits'
  <2>1. acc' \subseteq Range(found') /\ IsFiniteSet(acc') /\ Cardinality(acc') <= Limit
    BY <1>5, <1>9, <1>10, <1>14, <1>15
  <2>2. dropG' \in Nat /\ dropF' \in Nat
    BY <1>5, <1>8, <1>9, <1>15
  <2>3. QED
    BY <2>1, <2>2 DEF HeapFits, Limit
<1>17. Accounts'
  <2>1. /\ dropG + Cardinality(acc) = Len(found)
        /\ dropF + MembersIn(acc) = Offered(found) + Cardinality(passed)
    BY DEF HeapInv, Accounts
  <2>2. Offered(found) \in Nat /\ Offered(Append(found, g)) = Members(g) + Offered(found)
    BY <1>1, <1>6, OfferedGrows
  <2>3. /\ Cardinality(acc) \in Nat /\ Cardinality(Keep(g)) \in Nat /\ Cardinality(passed) \in Nat
        /\ MembersIn(acc) \in Nat /\ MembersIn(Keep(g)) \in Nat /\ Members(g) \in Nat
    <3>1. Cardinality(acc) \in Nat /\ Cardinality(Keep(g)) \in Nat
      BY <1>9, <1>15, FS_CardinalityType
    <3>2. Cardinality(passed) \in Nat
      BY <1>1, FilesFinite, FS_Subset, FS_CardinalityType DEF TreeTyped
    <3>3. acc \in SUBSET Filled /\ Keep(g) \in SUBSET Filled
      BY <1>13, <1>14, <1>15
    <3>4. MembersIn(acc) \in Nat /\ MembersIn(Keep(g)) \in Nat
      BY <1>1, <1>9, <1>15, <3>3, MembersTake
    <3>5. QED
      BY <1>1, <1>6, <3>1, <3>2, <3>4, Graded
  <2>8. /\ Cardinality(Lost(g)) \in Nat /\ MembersIn(Lost(g)) \in Nat
        /\ Cardinality(Keep(g)) + Cardinality(Lost(g)) = Cardinality(acc) + 1
        /\ MembersIn(Keep(g)) + MembersIn(Lost(g)) = MembersIn(acc) + Members(g)
    BY <1>15
  <2>9. dropG \in Nat /\ dropF \in Nat /\ Len(found) \in Nat /\ Len(found') = Len(found) + 1
    BY <1>9, <1>10
  <2>10. dropG' = dropG + Cardinality(Lost(g)) /\ Cardinality(acc') = Cardinality(Keep(g))
    BY <1>5
  <2>4. dropG' + Cardinality(acc') = Len(found')
    <3> DEFINE n == Len(found)
               m == Len(found')
    <3>1. n \in Nat /\ m = n + 1 /\ dropG + Cardinality(acc) = n /\ dropG \in Nat
      BY <2>1, <2>9
    <3> HIDE DEF n, m
    <3>2. dropG' + Cardinality(acc') = m
      BY <2>3, <2>8, <2>10, <3>1
    <3>3. QED
      BY <3>2 DEF m
  <2>5. MembersIn(acc)' = MembersIn(Keep(g)) /\ Offered(found)' = Offered(Append(found, g))
    BY <1>5 DEF MembersIn, Members, Offered
  <2>6. dropF' + MembersIn(Keep(g)) = Offered(Append(found, g)) + Cardinality(passed)
    <3>1. dropF' = dropF + MembersIn(Lost(g))
      BY <1>5, <1>8
    <3> DEFINE o == Offered(found)
               q == Offered(Append(found, g))
    <3>2. o \in Nat /\ q = Members(g) + o /\ dropF + MembersIn(acc) = o + Cardinality(passed)
      BY <2>1, <2>2
    <3>3. dropF \in Nat
      BY <2>9
    <3> HIDE DEF o, q
    <3>4. dropF' + MembersIn(Keep(g)) = q + Cardinality(passed)
      BY <2>3, <2>8, <3>1, <3>2, <3>3
    <3>5. QED
      BY <3>4 DEF q
  <2>7. QED
    BY <1>7, <2>4, <2>5, <2>6 DEF Accounts
<1>18. BestKept'
  <2>1. ASSUME NEW h \in Range(found') \ Keep(g)
        PROVE  Cardinality(Keep(g)) = Limit /\ \A a \in Keep(g) : Better(a, h)
    <3>1. CASE h \in S
      BY <1>15, <2>1, <3>1
    <3>2. CASE h \notin S
      <4>1. h \in Range(found) \ acc
        BY <1>10, <1>14, <2>1, <3>2
      <4>2. Cardinality(acc) = Limit /\ \A a \in acc : Better(a, h)
        BY <4>1 DEF HeapInv, BestKept
      <4>3. PICK w \in S : Lost(g) = {w} /\ \A a \in Keep(g) : Better(a, w)
        BY <1>15, <4>2
      <4>4. S \subseteq Range(found')
        BY <1>9, <1>10, <1>14
      <4>5. ASSUME g \in Keep(g) PROVE Better(g, h)
        <5>1. w # g /\ w \in acc
          BY <1>14, <1>15, <4>3, <4>5
        <5>2. Better(g, w) /\ Better(w, h)
          BY <4>2, <4>3, <4>5, <5>1
        <5>3. g \in Range(found') /\ w \in Range(found') /\ h \in Range(found')
          BY <1>14, <2>1, <4>4
        <5>4. QED
          BY <1>11, <5>2, <5>3 DEF Ordered
      <4>6. \A a \in Keep(g) : Better(a, h)
        BY <1>14, <1>15, <4>2, <4>5
      <4>7. QED
        BY <1>15, <4>2, <4>6
    <3>3. QED
      BY <3>1, <3>2
  <2>2. \A a, b : Better(a, b)' <=> Better(a, b)
    BY DEF Better, Weight
  <2>3. Limit' = Limit
    BY DEF Limit
  <2>4. QED
    BY <1>5, <2>1, <2>2, <2>3 DEF BestKept
<1>19. QED
  BY <1>16, <1>17, <1>18 DEF HeapInv

\* What an operation notes is files that the task on top of the stack held.
LEMMA Noted ==
  ASSUME DupInv, Window \/ Skew \/ Deep \/ Slice
  PROVE  /\ UNCHANGED <<content, acc, dropG, found>>
         /\ \E S \in SUBSET Files : Note(S) /\ S \cap passed = {}
<1> DEFINE Notes(X) ==
             /\ UNCHANGED <<content, acc, dropG, found>> /\ work # <<>>
             /\ Note(X) /\ \A f \in X : f \in Files /\ Has(Head(work), f)
<1>1. \E S : Notes(S)
  <2>1. ASSUME Window PROVE \E S : Notes(S)
    <3> DEFINE t == Head(work)
               S == {f \in cand : InPart(walked[f], t.part, t.parts)}
               fit == {f \in S : walked[f] \notin Over(S, walked, KeyCap)}
               X == fit \ First(fit, WindowMax)
    <3>1. /\ Doing("window") /\ Note(X) /\ UNCHANGED <<disk, acc, dropG, found>>
      BY <2>1, Zenon DEF Window
    <3>2. \A f \in X : f \in S
      OBVIOUS
    <3>3. work # <<>> /\ Head(work).do = "window" /\ cand \subseteq Files
      BY <3>1 DEF Doing, DupInv, Types, TreeTyped
    <3>4. \A f \in X : f \in Files /\ Has(Head(work), f)
      BY <3>2, <3>3 DEF Has
    <3> HIDE DEF X
    <3>5. QED
      BY <3>1, <3>3, <3>4 DEF disk
  <2>2. ASSUME Skew PROVE \E S : Notes(S)
    <3> DEFINE X == {f \in cand : walked[f] = Head(work).key} \cap broken
    <3>1. Doing("skew") /\ Note(X) /\ UNCHANGED <<disk, acc, dropG, found>>
      BY <2>2, Zenon DEF Skew
    <3>2. work # <<>> /\ Head(work).do = "skew" /\ cand \subseteq Files
      BY <3>1 DEF Doing, DupInv, Types, TreeTyped
    <3>3. \A f \in X : f \in Files /\ Has(Head(work), f)
      BY <3>2 DEF Has
    <3> HIDE DEF X
    <3>4. QED
      BY <3>1, <3>2, <3>3 DEF disk
  <2>3. ASSUME Deep PROVE \E S : Notes(S)
    <3> DEFINE X == Head(work).files \cap broken
    <3>1. Doing("deep") /\ Note(X) /\ UNCHANGED <<disk, acc, dropG, found>>
      BY <2>3, Zenon DEF Deep
    <3>2. work # <<>> /\ Head(work).do = "deep" /\ Head(work) \in Task
      BY <3>1, HeadFacts DEF Doing, DupInv
    <3>3. \A f \in X : f \in Files /\ Has(Head(work), f)
      BY <3>2, TaskFields DEF Has
    <3> HIDE DEF X
    <3>4. QED
      BY <3>1, <3>2, <3>3 DEF disk
  <2>4. ASSUME Slice PROVE \E S : Notes(S)
    <3> DEFINE X == Head(work).files \ First(Head(work).files, FileCap)
    <3>1. Doing("slice") /\ Note(X) /\ UNCHANGED <<disk, acc, dropG, found>>
      BY <2>4, Zenon DEF Slice
    <3>2. work # <<>> /\ Head(work).do = "slice" /\ Head(work) \in Task
      BY <3>1, HeadFacts DEF Doing, DupInv
    <3>3. \A f \in X : f \in Files /\ Has(Head(work), f)
      BY <3>2, TaskFields DEF Has
    <3> HIDE DEF X
    <3>4. QED
      BY <3>1, <3>2, <3>3 DEF disk
  <2>5. QED
    BY <2>1, <2>2, <2>3, <2>4
<1>2. PICK S : Notes(S)
  BY <1>1
<1>3. Head(work) = work[1] /\ 1 \in 1..Len(work)
  BY <1>1, Stacked DEF DupInv, Types, WorkTyped
<1>4. \A f \in S : f \notin passed
  BY <1>2, <1>3 DEF DupInv, Fresh, Settled
<1>5. S \in SUBSET Files /\ S \cap passed = {}
  BY <1>2, <1>4
<1>6. QED
  BY <1>1, <1>2, <1>5

LEMMA NoteHeap ==
  ASSUME HeapInv, TreeTyped, found \in Seq(Filled), UNCHANGED <<content, acc, dropG, found>>,
         NEW S \in SUBSET Files, Note(S), S \cap passed = {}
  PROVE  HeapInv'
<1>1. IsFiniteSet(S) /\ IsFiniteSet(passed) /\ Cardinality(S) \in Nat /\ Cardinality(passed) \in Nat
  BY FilesFinite, FS_Subset, FS_CardinalityType DEF TreeTyped
<1>2. Cardinality(passed \cup S) = Cardinality(passed) + Cardinality(S)
  <2>1. passed \cap S = {} /\ Cardinality({}) = 0
    BY FS_EmptySet
  <2>2. Cardinality(passed \cup S) = Cardinality(passed) + Cardinality(S) - Cardinality(passed \cap S)
    BY <1>1, FS_Union
  <2> DEFINE a == Cardinality(passed \cup S)
             b == Cardinality(passed \cap S)
  <2>3. b = 0 /\ a = Cardinality(passed) + Cardinality(S) - b
    BY <2>1, <2>2, Zenon
  <2> HIDE DEF a, b
  <2>4. a = Cardinality(passed) + Cardinality(S)
    BY <1>1, <2>3
  <2>5. QED
    BY <2>4 DEF a
<1>3. dropF' = dropF + Cardinality(S) /\ passed' = passed \cup S
  BY DEF Note
<1>4. HeapFits'
  BY <1>1, <1>3 DEF HeapInv, HeapFits, Limit
<1>5. BestKept'
  BY DEF HeapInv, BestKept, Limit, Better, Weight
<1>6. Accounts'
  <2>1. /\ dropG + Cardinality(acc) = Len(found)
        /\ dropF + MembersIn(acc) = Offered(found) + Cardinality(passed)
        /\ dropF \in Nat /\ IsFiniteSet(acc) /\ acc \subseteq Range(found)
    BY DEF HeapInv, HeapFits, Accounts
  <2>2. MembersIn(acc)' = MembersIn(acc) /\ Offered(found)' = Offered(found)
    BY DEF MembersIn, Offered, Members
  <2>3. Range(found) \subseteq Filled
    BY LenProperties DEF Range
  <2>4. MembersIn(acc) \in Nat
    BY <2>1, <2>3, MembersTake
  <2>5. Offered(found) \in Nat
    <3>1. \A i \in DOMAIN found : found[i] \in Filled /\ found \in Seq(Filled)
      BY LenProperties
    <3>2. CASE found = <<>>
      <4> DEFINE h == [i \in DOMAIN found |-> Members(found[i])]
      <4>1. DOMAIN found = {}
        BY <3>2
      <4>2. \A x \in {} : h[x] \in Nat
        OBVIOUS
      <4> HIDE DEF h
      <4>3. Sums(h, {})
        BY <4>2, SumTakes, FS_EmptySet
      <4>4. SumFunctionOnSet(h, {}) = 0
        BY <4>3 DEF Sums
      <4>5. QED
        BY <4>1, <4>4 DEF Offered, h
    <3>3. CASE found # <<>>
      <4>1. found[1] \in Filled
        BY <3>3, LenProperties
      <4>2. QED
        BY <4>1, OfferedGrows
    <3>4. QED
      BY <3>2, <3>3
  <2>6. dropF' + MembersIn(acc) = Offered(found) + Cardinality(passed \cup S)
    BY <1>1, <1>2, <1>3, <2>1, <2>4, <2>5
  <2>7. QED
    BY <1>3, <2>1, <2>2, <2>6 DEF Accounts
<1>7. QED
  BY <1>4, <1>5, <1>6 DEF HeapInv

LEMMA HeapKeeps ==
  ASSUME DupInv, DupInv', HeapInv, [Next]_vars
  PROVE  HeapInv'
<1>1. TreeTyped /\ found \in Seq(Filled) /\ OneGroupEach'
  BY DEF DupInv, Types, WorkTyped
<1>2. ASSUME Window \/ Skew \/ Deep \/ Slice PROVE HeapInv'
  BY <1>1, <1>2, Noted, NoteHeap
<1>3. CASE Add
  BY <1>1, <1>3, AddHeap
<1>4. CASE UNCHANGED heap /\ passed' = passed
  <2>1. HeapFits' /\ BestKept'
    BY <1>4 DEF heap, HeapInv, HeapFits, BestKept, Limit, Better, Weight
  <2>2. Accounts'
    BY <1>4 DEF heap, HeapInv, Accounts, MembersIn, Offered, Members
  <2>3. QED
    BY <2>1, <2>2 DEF HeapInv
<1>5. ASSUME Walk \/ Prefix \/ Bucket \/ Compare \/ Hash PROVE UNCHANGED heap /\ passed' = passed
  <2>1. CASE Walk
    BY <2>1, Zenon DEF Walk
  <2>2. CASE Prefix
    BY <2>2, Zenon DEF Prefix
  <2>3. CASE Bucket
    BY <2>3, Zenon DEF Bucket
  <2>4. CASE Compare
    BY <2>4, Zenon DEF Compare
  <2>5. CASE Hash
    BY <2>5, Zenon DEF Hash
  <2>6. QED
    BY <1>5, <2>1, <2>2, <2>3, <2>4, <2>5
<1>6. ASSUME Final \/ Rewrite \/ Break \/ UNCHANGED vars PROVE UNCHANGED heap /\ passed' = passed
  <2>1. CASE Final
    BY <2>1, Zenon DEF Final
  <2>2. CASE Rewrite
    BY <2>2 DEF Rewrite, Touch
  <2>3. CASE Break
    BY <2>3 DEF Break, Touch
  <2>4. CASE UNCHANGED vars
    BY <2>4 DEF vars
  <2>5. QED
    BY <1>6, <2>1, <2>2, <2>3, <2>4
<1>7. QED
  BY <1>2, <1>3, <1>4, <1>5, <1>6 DEF Next, Pass

-----------------------------------------------------------------------------
(* The listing.                                                            *)

\* Any finite set of groups that have one order can be listed in it.
Ranked(S, s) == s \in [1..Cardinality(S) -> S] /\ \A i, j \in DOMAIN s : i < j => Better(s[i], s[j])
LEMMA Rankable ==
  ASSUME NEW S, IsFiniteSet(S), Ordered(S)
  PROVE  \E s : Ranked(S, s)
<1> DEFINE Bad == {T \in SUBSET S : ~\E s : Ranked(T, s)}
<1> SUFFICES ASSUME Bad # {} PROVE FALSE
  OBVIOUS
<1>1. PICK T \in Bad : IsFiniteSet(T) /\ \A x \in T : T \ {x} \notin Bad
  <2>1. Bad \in SUBSET SUBSET S
    OBVIOUS
  <2> HIDE DEF Bad
  <2>2. \E T \in Bad : IsFiniteSet(T) /\ \A x \in T : T \ {x} \notin Bad
    BY <2>1, Smallest
  <2>3. QED
    BY <2>2
<1>2. T \in SUBSET S /\ ~\E s : Ranked(T, s)
  OBVIOUS
<1>3. CASE T = {}
  <2> DEFINE s == [i \in 1..0 |-> i]
  <2>1. Cardinality(T) = 0 /\ 1..0 = {}
    BY <1>3, FS_EmptySet
  <2>2. s \in [1..Cardinality(T) -> T] /\ DOMAIN s = {}
    BY <2>1
  <2> HIDE DEF s
  <2>3. Ranked(T, s)
    BY <2>2 DEF Ranked
  <2>4. QED
    BY <1>2, <2>3
<1>4. CASE T # {}
  <2>1. Ordered(T)
    BY <1>2 DEF Ordered
  <2>2. PICK w \in T : Lowest(T, w)
    BY <1>1, <1>4, <2>1, LowestOf
  <2> DEFINE U == T \ {w}
             n == Cardinality(U)
  <2>3. IsFiniteSet(U) /\ n \in Nat /\ Cardinality(T) = n + 1
    <3>1. Cardinality(T) \in Nat /\ IsFiniteSet(U) /\ Cardinality(U) = Cardinality(T) - 1 /\ Cardinality(U) \in Nat
      BY <1>1, FS_RemoveElement, FS_CardinalityType
    <3>2. QED
      BY <3>1
  <2>4. U \in SUBSET S /\ U \notin Bad
    BY <1>1, <1>2
  <2>5. PICK s : Ranked(U, s)
    BY <2>4
  <2>6. DOMAIN s = 1..n /\ (\A i \in 1..n : s[i] \in U) /\ \A i, j \in 1..n : i < j => Better(s[i], s[j])
    BY <2>5 DEF Ranked
  <2>7. \A x \in U : x \in T /\ Better(x, w)
    BY <2>2 DEF Lowest
  <2> HIDE DEF U, n, Bad
  <2> DEFINE t == [i \in 1..(n + 1) |-> IF i <= n THEN s[i] ELSE w]
  <2>8. DOMAIN t = 1..(n + 1) /\ (\A i \in 1..n : t[i] = s[i]) /\ t[n + 1] = w
    BY <2>3
  <2>9. \A i \in 1..(n + 1) : i \in 1..n \/ i = n + 1
    BY <2>3
  <2>10. t \in [1..(n + 1) -> T]
    BY <2>6, <2>7
  <2> HIDE DEF t
  <2>11. \A i, j \in 1..(n + 1) : i < j => Better(t[i], t[j])
    <3>1. SUFFICES ASSUME NEW i \in 1..(n + 1), NEW j \in 1..(n + 1), i < j PROVE Better(t[i], t[j])
      OBVIOUS
    <3>2. i \in 1..n
      BY <2>3, <3>1
    <3>3. CASE j \in 1..n
      BY <2>6, <2>8, <3>1, <3>2, <3>3
    <3>4. CASE j = n + 1
      BY <2>6, <2>7, <2>8, <3>2, <3>4
    <3>5. QED
      BY <2>9, <3>3, <3>4
  <2>12. Ranked(T, t)
    BY <2>3, <2>8, <2>10, <2>11 DEF Ranked
  <2>13. QED
    BY <1>2, <2>12
<1>5. QED
  BY <1>3, <1>4

\* The sorted groups are the groups, each at its place.
SortedSo(S, s, n) ==
  /\ n \in Nat /\ n = Cardinality(S) /\ s \in [1..n -> S] /\ Len(s) = n /\ s \in Seq(S)
  /\ \A i, j \in 1..n : i < j => Better(s[i], s[j])
  /\ \A i, j \in 1..n : i # j => s[i] # s[j]
  /\ \A x \in S : \E i \in 1..n : x = s[i]
LEMMA SortedLists ==
  ASSUME NEW S, IsFiniteSet(S), Ordered(S)
  PROVE  SortedSo(S, Sorted(S), Cardinality(S))
<1> DEFINE s == Sorted(S)
           n == Cardinality(S)
<1>1. s \in [1..n -> S] /\ \A i, j \in DOMAIN s : i < j => Better(s[i], s[j])
  <2>1. PICK t : Ranked(S, t)
    BY Rankable
  <2>2. t \in [1..Cardinality(S) -> S] /\ \A i, j \in DOMAIN t : i < j => Better(t[i], t[j])
    BY <2>1 DEF Ranked
  <2>3. QED
    BY <2>2, Zenon DEF Sorted
<1>2. n \in Nat
  BY FS_CardinalityType
<1> HIDE DEF s, n
<1>3. DOMAIN s = 1..n /\ (\A i \in 1..n : s[i] \in S) /\ \A i, j \in 1..n : i < j => Better(s[i], s[j])
  BY <1>1
<1>4. \A i, j \in 1..n : i # j => s[i] # s[j]
  <2>1. \A a \in S : ~Better(a, a)
    BY DEF Ordered
  <2>2. SUFFICES ASSUME NEW i \in 1..n, NEW j \in 1..n, i < j, s[i] = s[j] PROVE FALSE
    BY <1>2
  <2>3. QED
    BY <1>3, <2>1, <2>2
<1>5. \A x \in S : \E i \in 1..n : x = s[i]
  <2> DEFINE I == {s[i] : i \in 1..n}
  <2>1. s \in Surjection(1..n, I) /\ s \in Injection(1..n, I)
    <3>1. s \in [1..n -> I]
      BY <1>1
    <3>2. QED
      BY <1>3, <1>4, <3>1 DEF Injection, Surjection, IsInjective
  <2>2. Cardinality(1..n) = n /\ IsFiniteSet(1..n)
    BY <1>2, FS_Interval
  <2>3. IsFiniteSet(I) /\ Cardinality(I) = n
    <3> HIDE DEF I
    <3>1. QED
      BY <2>1, <2>2, FS_Surjection
  <2>4. I \subseteq S
    BY <1>3
  <2>5. I = S
    <3> HIDE DEF I
    <3>1. QED
      BY <2>3, <2>4, FS_Subset DEF n
  <2>6. QED
    BY <2>5
<1>6. s \in Seq(S) /\ Len(s) = n
  BY <1>1, <1>2
<1>7. QED
  BY <1>1, <1>2, <1>3, <1>4, <1>5, <1>6 DEF SortedSo, s, n

\* What is stored of the groups, and what is not, are the groups' files.
LEMMA StoredGrows ==
  ASSUME TreeTyped, NEW S \in SUBSET Filled, IsFiniteSet(S), NEW T \in SUBSET S
  PROVE  StoredIn(T) \in Nat /\ StoredIn(T) <= StoredIn(S)
<1> DEFINE h == [g \in S |-> Stored(g)]
           k == [g \in T |-> Stored(g)]
<1>1. \A g \in Filled : Stored(g) \in Nat
  BY FilesFinite, FS_Subset, FS_CardinalityType DEF Stored, Filled, Group
<1>2. (\A g \in S : h[g] \in Nat) /\ \A g \in T : h[g] \in Nat /\ k[g] = h[g]
  BY <1>1
<1>3. StoredIn(T) = SumFunctionOnSet(k, T) /\ StoredIn(S) = SumFunctionOnSet(h, S)
  BY DEF StoredIn
<1>4. IsFiniteSet(T)
  BY FS_Subset
<1> HIDE DEF h, k
<1>5. SumFunctionOnSet(h, T) = SumFunctionOnSet(k, T)
  BY <1>2, <1>4, SumSame
<1>6. Sums(h, S)
  BY <1>2, SumTakes
<1>7. SumFunctionOnSet(h, T) <= SumFunctionOnSet(h, S)
  BY <1>2, SumPart
<1>8. QED
  BY <1>3, <1>5, <1>6, <1>7 DEF Sums

\* Two of a group's files are stored at least, where two may be.
LEMMA StoredFloor ==
  ASSUME TreeTyped, NEW S \in SUBSET Filled, IsFiniteSet(S), Cardinality(S) > Limit
  PROVE  StoredIn(S) > FileCap
<1> DEFINE h == [g \in S |-> Stored(g)]
           c == IF FileCap = 1 THEN 1 ELSE 2
<1>1. ASSUME NEW g \in Filled PROVE Stored(g) \in Nat /\ Stored(g) >= c
  <2>1. /\ g.files \in SUBSET Files /\ g.files # {} /\ (FileCap >= 2 => \E x, y \in g.files : x # y)
    BY DEF Filled, Group
  <2>2. IsFiniteSet(g.files) /\ Cardinality(g.files) \in Nat
    BY <2>1, FilesFinite, FS_Subset, FS_CardinalityType
  <2>3. PICK x : x \in g.files
    BY <2>1
  <2>4. IsFiniteSet(g.files \ {x}) /\ Cardinality(g.files \ {x}) = Cardinality(g.files) - 1
    BY <2>2, <2>3, FS_RemoveElement
  <2>5. Cardinality(g.files) # 0
    BY <2>2, <2>3, FS_EmptySet
  <2>6. FileCap >= 2 => Cardinality(g.files) # 1
    <3>1. SUFFICES ASSUME FileCap >= 2, Cardinality(g.files) = 1 PROVE FALSE
      OBVIOUS
    <3>2. g.files \ {x} = {}
      BY <2>4, <3>1, FS_EmptySet
    <3>3. QED
      BY <2>1, <3>1, <3>2
  <2>7. QED
    BY <2>2, <2>5, <2>6, Constants DEF Stored
<1>2. \A g \in S : h[g] \in Nat /\ h[g] >= c
  BY <1>1
<1>3. StoredIn(S) = SumFunctionOnSet(h, S) /\ c \in {1, 2}
  BY DEF StoredIn
<1>4. Cardinality(S) \in Nat
  BY FS_CardinalityType
<1>5. (c = 1 /\ FileCap = 1) \/ c = 2
  OBVIOUS
<1> HIDE DEF h, c
<1>6. SumFunctionOnSet(h, S) >= c * Cardinality(S)
  BY <1>2, <1>3, SumFloor
<1>7. Sums(h, S)
  BY <1>2, SumTakes
<1>8. SumFunctionOnSet(h, S) \in Nat
  BY <1>7 DEF Sums
<1>9. CASE c = 1 /\ FileCap = 1
  BY <1>3, <1>4, <1>6, <1>8, <1>9, LimitHolds
<1>10. CASE c = 2
  BY <1>3, <1>4, <1>6, <1>8, <1>10, LimitHolds, Constants
<1>11. QED
  BY <1>5, <1>9, <1>10

ExtrasIn(S) == SumFunctionOnSet([g \in S |-> g.extra], S)
LEMMA MembersStored ==
  ASSUME TreeTyped, NEW S \in SUBSET Filled, IsFiniteSet(S)
  PROVE  MembersIn(S) = StoredIn(S) + ExtrasIn(S) /\ StoredIn(S) \in Nat /\ ExtrasIn(S) \in Nat
<1> DEFINE h == [g \in S |-> Stored(g)]
           k == [g \in S |-> g.extra]
           m == [g \in S |-> Members(g)]
<1>1. \A g \in Filled : Stored(g) \in Nat /\ g.extra \in Nat /\ Members(g) = Stored(g) + g.extra
  BY FilesFinite, FS_Subset, FS_CardinalityType DEF Stored, Members, Filled, Group
<1>2. \A g \in S : h[g] \in Nat /\ k[g] \in Nat /\ m[g] = h[g] + k[g]
  BY <1>1
<1>3. StoredIn(S) = SumFunctionOnSet(h, S) /\ ExtrasIn(S) = SumFunctionOnSet(k, S) /\ MembersIn(S) = SumFunctionOnSet(m, S)
  BY DEF StoredIn, ExtrasIn, MembersIn
<1> HIDE DEF h, k, m
<1>4. SumFunctionOnSet(m, S) = SumFunctionOnSet(h, S) + SumFunctionOnSet(k, S)
  BY <1>2, SumAdds
<1>5. Sums(h, S) /\ Sums(k, S)
  BY <1>2, SumTakes
<1>6. QED
  BY <1>3, <1>4, <1>5 DEF Sums

\* The total of the first of them is what is stored of those.
StoredList(S, s, n) ==
  /\ n \in Nat /\ DOMAIN s = 1..n /\ \A x \in S : Stored(x) \in Nat
  /\ (\A i \in 1..n : s[i] \in S) /\ \A i, j \in 1..n : i # j => s[i] # s[j]
LEMMA TotalSum ==
  ASSUME NEW S, NEW n, NEW s, StoredList(S, s, n)
  PROVE  Total(s) = StoredIn(UpTo(s, n))
<1> USE DEF StoredList
<1> DEFINE U == {s[i] : i \in 1..n}
           h == [g \in U |-> Stored(g)]
           k == [i \in 1..n |-> Stored(s[i])]
<1>1. Total(s) = SumFunctionOnSet(k, 1..n)
  BY DEF Total, SumFunction
<1>2. StoredIn(UpTo(s, n)) = SumFunctionOnSet(h, U)
  BY DEF StoredIn, UpTo
<1>3. (\A x \in U : h[x] \in Nat) /\ (\A i \in 1..n : s[i] \in U)
  OBVIOUS
<1>4. \A i \in 1..n : k[i] = h[s[i]]
  BY <1>3
<1> HIDE DEF h, k
<1>5. SumFunctionOnSet(k, 1..n) = SumFunctionOnSet(h, UpTo(s, n))
  <2> HIDE DEF U
  <2>1. Along(U, h, n, s, k)
    BY <1>3, <1>4 DEF Along
  <2>2. QED
    BY <2>1, SumAlong
<1>6. U = UpTo(s, n)
  BY DEF UpTo
<1>7. QED
  BY <1>1, <1>2, <1>5, <1>6

LEMMA TotalsAlong ==
  ASSUME TreeTyped, NEW S \in SUBSET Filled, IsFiniteSet(S), NEW n, NEW s, SortedSo(S, s, n)
  PROVE  /\ UpTo(s, n) = S /\ Total(s) = StoredIn(S)
         /\ \A c \in 0..n : /\ Total(SubSeq(s, 1, c)) = StoredIn(UpTo(s, c))
                            /\ Len(SubSeq(s, 1, c)) = c /\ Range(SubSeq(s, 1, c)) = UpTo(s, c)
<1>1. /\ n \in Nat /\ s \in Seq(S) /\ Len(s) = n /\ DOMAIN s = 1..n /\ (\A i \in 1..n : s[i] \in S)
      /\ (\A i, j \in 1..n : i # j => s[i] # s[j]) /\ \A x \in S : \E i \in 1..n : x = s[i]
  BY DEF SortedSo
<1>2. \A g \in S : Stored(g) \in Nat
  BY FilesFinite, FS_Subset, FS_CardinalityType DEF Stored, Filled, Group
<1>3. UpTo(s, n) = S
  BY <1>1 DEF UpTo
<1>4. Total(s) = StoredIn(S)
  <2>1. StoredList(S, s, n)
    BY <1>1, <1>2 DEF StoredList
  <2>2. Total(s) = StoredIn(UpTo(s, n))
    BY <2>1, TotalSum
  <2>3. QED
    BY <1>3, <2>2
<1>5. ASSUME NEW c \in 0..n
      PROVE  /\ Total(SubSeq(s, 1, c)) = StoredIn(UpTo(s, c))
             /\ Len(SubSeq(s, 1, c)) = c /\ Range(SubSeq(s, 1, c)) = UpTo(s, c)
  <2> DEFINE t == SubSeq(s, 1, c)
  <2>1. c \in Nat /\ c <= n
    BY <1>1
  <2>2. DOMAIN t = 1..c /\ Len(t) = c /\ \A i \in 1..c : t[i] = s[i]
    BY <1>1, <2>1
  <2> HIDE DEF t
  <2>3. \A i \in 1..c : i \in 1..n
    BY <1>1, <2>1
  <2>4. (\A i \in 1..c : t[i] \in S) /\ \A i, j \in 1..c : i # j => t[i] # t[j]
    BY <1>1, <2>2, <2>3
  <2>5. Total(t) = StoredIn(UpTo(t, c))
    <3>1. StoredList(S, t, c)
      BY <1>2, <2>1, <2>2, <2>4 DEF StoredList
    <3>2. QED
      BY <3>1, TotalSum
  <2>6. UpTo(t, c) = UpTo(s, c)
    BY <2>2 DEF UpTo
  <2>7. Range(t) = UpTo(s, c)
    BY <2>2, <2>6 DEF Range, UpTo
  <2>8. QED
    BY <2>2, <2>5, <2>6, <2>7 DEF t
<1>6. QED
  BY <1>3, <1>4, <1>5

\* The cut comes right before the first group that the budget has no room for.
LEMMA CutBefore ==
  ASSUME TreeTyped, NEW S \in SUBSET Filled, IsFiniteSet(S), NEW n, NEW s, SortedSo(S, s, n)
  PROVE  /\ CutIndex(s) \in 0..n
         /\ \A i \in 1..n : i <= CutIndex(s) <=> (i = 1 \/ StoredIn(UpTo(s, i)) <= FileCap)
<1> DEFINE P(i) == StoredIn(UpTo(s, i))
           past == {i \in 2..n : Total(SubSeq(s, 1, i)) > FileCap}
<1>1. n \in Nat /\ Len(s) = n /\ (\A i \in 1..n : s[i] \in S) /\ FileCap \in Nat
  BY Constants DEF SortedSo
<1>2. \A i \in 0..n : Total(SubSeq(s, 1, i)) = P(i)
  BY TotalsAlong
<1>3. ASSUME NEW j \in 1..n, NEW i \in 1..n, i <= j PROVE P(i) \in Nat /\ P(i) <= P(j)
  <2>1. UpTo(s, j) \in SUBSET S /\ UpTo(s, i) \in SUBSET UpTo(s, j)
    BY <1>1, <1>3 DEF UpTo
  <2>2. UpTo(s, j) \in SUBSET Filled /\ IsFiniteSet(UpTo(s, j))
    BY <2>1, FS_Subset
  <2>3. QED
    BY <2>1, <2>2, StoredGrows
<1>4. \A i : i \in past <=> i \in 2..n /\ P(i) > FileCap
  <2>1. \A i \in 2..n : i \in 0..n
    BY <1>1
  <2> HIDE DEF P
  <2>2. QED
    BY <1>2, <2>1
<1>5. CutIndex(s) = IF past = {} THEN n ELSE Min(past) - 1
  BY <1>1 DEF CutIndex
<1>6. past \in SUBSET Nat /\ \A i \in 1..n : i = 1 \/ i \in 2..n
  BY <1>1
<1> HIDE DEF P, past
<1>7. CASE past = {}
  <2>1. CutIndex(s) = n
    BY <1>5, <1>7
  <2>2. \A i \in 1..n : i = 1 \/ P(i) <= FileCap
    BY <1>1, <1>3, <1>4, <1>6, <1>7
  <2>3. QED
    BY <1>1, <2>1, <2>2 DEF P
<1>8. CASE past # {}
  <2>1. \E m \in past : \A y \in past : m <= y
    BY <1>6, <1>8, LeastIn
  <2> DEFINE m == Min(past)
  <2>2. m \in past /\ \A y \in past : m <= y
    BY <2>1 DEF Min
  <2>3. CutIndex(s) = m - 1
    BY <1>5, <1>8
  <2> HIDE DEF m
  <2>4. m \in 2..n /\ P(m) > FileCap
    BY <1>4, <2>2
  <2>5. CutIndex(s) \in 0..n
    BY <1>1, <2>3, <2>4
  <2>6. ASSUME NEW i \in 1..n PROVE i <= CutIndex(s) <=> (i = 1 \/ P(i) <= FileCap)
    <3>1. CASE i < m
      <4>1. i = 1 \/ ~(P(i) > FileCap)
        BY <1>4, <1>6, <2>2, <2>4, <3>1
      <4>2. P(i) \in Nat
        BY <1>3
      <4>3. QED
        BY <1>1, <2>3, <2>4, <3>1, <4>1, <4>2
    <3>2. CASE ~(i < m)
      <4>1. m \in 1..n /\ m <= i /\ i # 1
        BY <1>1, <2>4, <3>2
      <4>2. P(m) \in Nat /\ P(m) <= P(i) /\ P(i) \in Nat
        BY <1>3, <4>1
      <4>3. QED
        BY <1>1, <2>3, <2>4, <4>1, <4>2
    <3>3. QED
      BY <3>1, <3>2
  <2>7. QED
    BY <2>5, <2>6 DEF P
<1>9. QED
  BY <1>7, <1>8

\* The groups listed no later than g, of all that were found.
Above(g) == {h \in Range(found) : h = g \/ Better(h, g)}

\* Those that a listing has first are those listed no later than its last.
LEMMA AboveListed ==
  ASSUME Ordered(Range(found)), acc \subseteq Range(found), BestKept, NEW n, NEW s, SortedSo(acc, s, n)
  PROVE  \A i \in 1..n : Above(s[i]) = UpTo(s, i) /\ (UpTo(s, i) = {s[i]} <=> i = 1)
<1>1. /\ n \in Nat /\ (\A i \in 1..n : s[i] \in acc)
      /\ (\A i, j \in 1..n : i < j => Better(s[i], s[j]))
      /\ (\A i, j \in 1..n : i # j => s[i] # s[j])
      /\ \A x \in acc : \E i \in 1..n : x = s[i]
  BY DEF SortedSo
<1>2. \A a, b \in Range(found) : Better(a, b) => ~Better(b, a)
  BY DEF Ordered
<1> SUFFICES ASSUME NEW i \in 1..n PROVE Above(s[i]) = UpTo(s, i) /\ (UpTo(s, i) = {s[i]} <=> i = 1)
  OBVIOUS
<1>3. s[i] \in acc /\ s[i] \in Range(found) /\ i \in Nat
  BY <1>1
<1>4. ASSUME NEW x \in Above(s[i]) PROVE x \in UpTo(s, i)
  <2>1. x \in Range(found) /\ (x = s[i] \/ Better(x, s[i]))
    BY DEF Above
  <2>2. x \in acc
    BY <1>2, <1>3, <2>1 DEF BestKept
  <2>3. PICK j \in 1..n : x = s[j]
    BY <1>1, <2>2
  <2>4. ~(i < j)
    BY <1>1, <1>2, <1>3, <2>1, <2>3
  <2>5. j \in 1..i
    BY <1>3, <2>4
  <2>6. QED
    BY <2>3, <2>5 DEF UpTo
<1>5. ASSUME NEW j \in 1..i PROVE s[j] \in Above(s[i])
  <2>1. j \in 1..n /\ (j = i \/ j < i)
    BY <1>1
  <2>2. s[j] \in Range(found)
    BY <1>1, <2>1
  <2>3. s[j] = s[i] \/ Better(s[j], s[i])
    BY <1>1, <2>1
  <2>4. QED
    BY <2>2, <2>3 DEF Above
<1>6. Above(s[i]) = UpTo(s, i)
  BY <1>4, <1>5 DEF UpTo
<1>7. UpTo(s, i) = {s[i]} <=> i = 1
  <2>1. ASSUME i = 1 PROVE UpTo(s, i) = {s[i]}
    BY <2>1 DEF UpTo
  <2>2. ASSUME i # 1 PROVE UpTo(s, i) # {s[i]}
    <3>1. 1 \in 1..i /\ 1 \in 1..n
      BY <1>1
    <3>2. s[1] \in UpTo(s, i) /\ s[1] # s[i]
      BY <1>1, <2>2, <3>1 DEF UpTo
    <3>3. QED
      BY <3>2
  <2>3. QED
    BY <2>1, <2>2
<1>8. QED
  BY <1>6, <1>7

\* The listing is what sorting all the groups would have given, and says what
\* it leaves out.
LEMMA FinalLists ==
  ASSUME DupInv, HeapInv, Final
  PROVE  CountedOnce' /\ BestListed'
<1> DEFINE gs == Sorted(acc)
           n == Cardinality(acc)
           cut == CutIndex(gs)
           lst == SubSeq(gs, 1, cut)
<1>1. /\ out' = [groups |-> lst,
                 dropG |-> dropG + Len(gs) - cut,
                 dropF |-> dropF + Total(gs) - Total(lst) + SumFunction([g \in acc |-> g.extra])]
      /\ UNCHANGED <<disk, walked, counter, cand, work, cache, heap, passed>>
  BY Zenon DEF Final
<1>2. found' = found /\ passed' = passed
  BY <1>1 DEF heap
<1>3. TreeTyped /\ found \in Seq(Filled) /\ FilesApart(found)
  BY DEF DupInv, Types, WorkTyped, OneGroupEach, FilesApart
<1>4. Range(found) \in SUBSET Filled /\ IsFiniteSet(Range(found)) /\ Ordered(Range(found))
  BY <1>3, Founds
<1>5. /\ acc \subseteq Range(found) /\ IsFiniteSet(acc) /\ n <= Limit /\ dropG \in Nat /\ dropF \in Nat
      /\ BestKept /\ dropG + n = Len(found)
      /\ dropF + MembersIn(acc) = Offered(found) + Cardinality(passed)
  BY DEF HeapInv, HeapFits, Accounts
<1>6. acc \in SUBSET Filled /\ Ordered(acc)
  BY <1>4, <1>5 DEF Ordered
<1>7. SortedSo(acc, gs, n)
  BY <1>5, <1>6, SortedLists
<1> HIDE DEF gs, n
<1>8. n \in Nat /\ Len(gs) = n /\ \A x \in acc : \E i \in 1..n : x = gs[i]
  BY <1>7 DEF SortedSo
<1>9. /\ cut \in 0..n
      /\ \A i \in 1..n : i <= cut <=> (i = 1 \/ StoredIn(UpTo(gs, i)) <= FileCap)
  BY <1>3, <1>5, <1>6, <1>7, CutBefore
<1> HIDE DEF cut
<1>10. /\ Total(gs) = StoredIn(acc) /\ Total(lst) = StoredIn(UpTo(gs, cut))
       /\ Len(lst) = cut /\ Range(lst) = UpTo(gs, cut)
  BY <1>3, <1>5, <1>6, <1>7, <1>9, TotalsAlong
<1> HIDE DEF lst
<1>11. CountedOnce'
  <2>1. SumFunction([g \in acc |-> g.extra]) = ExtrasIn(acc)
    BY DEF SumFunction, ExtrasIn
  <2>2. SumFunction([i \in DOMAIN found |-> Members(found[i])]) = Offered(found)
    BY DEF SumFunction, Offered
  <2>3. /\ MembersIn(acc) = StoredIn(acc) + ExtrasIn(acc)
        /\ StoredIn(acc) \in Nat /\ ExtrasIn(acc) \in Nat
    BY <1>3, <1>5, <1>6, MembersStored
  <2>4. StoredIn(UpTo(gs, cut)) \in Nat
    <3>1. UpTo(gs, cut) \in SUBSET acc
      <4>1. \A i \in 1..cut : gs[i] \in acc
        BY <1>7, <1>8, <1>9 DEF SortedSo
      <4>2. QED
        BY <4>1 DEF UpTo
    <3>2. QED
      BY <1>3, <1>5, <1>6, <3>1, StoredGrows
  <2> DEFINE T == Total(gs)
             L == Total(lst)
             E == SumFunction([g \in acc |-> g.extra])
             m == Len(gs)
             k == Len(lst)
             f == Len(found)
             o == Offered(found)
             p == Cardinality(passed)
  <2>5. /\ T \in Nat /\ L \in Nat /\ E \in Nat /\ m \in Nat /\ k = cut /\ cut \in Nat
        /\ dropF \in Nat /\ dropG \in Nat
        /\ dropG + m = f /\ dropF + (T + E) = o + p
    BY <1>5, <1>8, <1>9, <1>10, <2>1, <2>3, <2>4
  <2>6. out'.groups = lst /\ out'.dropG = dropG + m - cut /\ out'.dropF = dropF + T - L + E
    BY <1>1
  <2> HIDE DEF T, L, E, m, k, f, o, p
  <2>7. out'.dropF + L = o + p /\ out'.dropG + k = f
    BY <2>5, <2>6
  <2>8. /\ out'.dropF + Total(out'.groups) = SumFunction([i \in DOMAIN found |-> Members(found[i])]) + Cardinality(passed)
        /\ out'.dropG + Len(out'.groups) = Len(found)
    BY <2>2, <2>6, <2>7 DEF L, o, p, k, f
  <2>9. CountedOnce' <=> (Finished' => /\ out'.dropF + Total(out'.groups)
                                           = SumFunction([i \in DOMAIN found |-> Members(found[i])]) + Cardinality(passed)
                                       /\ out'.dropG + Len(out'.groups) = Len(found))
    BY <1>2 DEF CountedOnce, Total, Stored, Members
  <2>10. QED
    BY <2>8, <2>9
<1>12. ASSUME NEW g \in Range(found)
       PROVE  g \in Range(lst) <=> (Above(g) = {g} \/ StoredIn(Above(g)) <= FileCap)
  <2>1. CASE g \in acc
    <3>1. PICK i \in 1..n : g = gs[i]
      BY <1>8, <2>1
    <3>2. Above(g) = UpTo(gs, i) /\ (UpTo(gs, i) = {g} <=> i = 1)
      BY <1>4, <1>5, <1>7, <3>1, AboveListed
    <3>3. g \in UpTo(gs, cut) <=> i <= cut
      <4>1. \A j \in 1..cut : gs[j] = gs[i] => j = i
        BY <1>7, <1>8, <1>9 DEF SortedSo
      <4>2. g \in UpTo(gs, cut) <=> i \in 1..cut
        BY <3>1, <4>1 DEF UpTo
      <4>3. QED
        BY <1>8, <1>9, <4>2
    <3>4. QED
      BY <1>9, <1>10, <3>2, <3>3
  <2>2. CASE g \notin acc
    <3>1. n = Limit /\ \A a \in acc : Better(a, g)
      BY <1>5, <2>2 DEF BestKept, n
    <3>2. g \notin Range(lst)
      <4>1. \A i \in 1..cut : gs[i] \in acc
        BY <1>7, <1>8, <1>9 DEF SortedSo
      <4>2. QED
        BY <1>10, <2>2, <4>1 DEF UpTo
    <3> DEFINE S == acc \cup {g}
    <3>3. IsFiniteSet(S) /\ Cardinality(S) = n + 1
      BY <1>5, <2>2, FS_AddElement DEF n
    <3>4. S \subseteq Above(g) /\ Above(g) \in SUBSET Range(found)
      BY <1>5, <3>1 DEF Above
    <3>5. IsFiniteSet(Above(g)) /\ Above(g) \in SUBSET Filled /\ Cardinality(S) <= Cardinality(Above(g))
          /\ Cardinality(Above(g)) \in Nat
      <4> HIDE DEF S
      <4>1. IsFiniteSet(Above(g)) /\ Above(g) \in SUBSET Filled
        BY <1>4, <3>4, FS_Subset
      <4>2. QED
        BY <3>4, <4>1, FS_Subset, FS_CardinalityType
    <3>6. Cardinality(Above(g)) > Limit
      BY <1>8, <3>1, <3>3, <3>5
    <3>7. StoredIn(Above(g)) > FileCap /\ StoredIn(Above(g)) \in Nat
      BY <1>3, <3>5, <3>6, StoredFloor, StoredGrows
    <3>8. Above(g) # {g}
      <4>1. Cardinality({g}) = 1
        BY FS_Singleton
      <4>2. Cardinality(Above(g)) # 1
        BY <3>5, <3>6, LimitHolds
      <4>3. QED
        BY <4>1, <4>2
    <3>9. ~(StoredIn(Above(g)) <= FileCap)
      BY <3>7, Constants
    <3>10. QED
      BY <3>2, <3>8, <3>9
  <2>3. QED
    BY <2>1, <2>2
<1>13. BestListed'
  <2>1. Range(lst) \subseteq Range(found)
    <3>1. \A i \in 1..cut : gs[i] \in acc
      BY <1>7, <1>8, <1>9 DEF SortedSo
    <3>2. QED
      BY <1>5, <1>10, <3>1 DEF UpTo
  <2>2. Range(lst) = {g \in Range(found) : Above(g) = {g} \/ StoredIn(Above(g)) <= FileCap}
    BY <1>12, <2>1
  <2>3. \A g : StoredIn(Above(g)) = SumFunction([h \in Above(g) |-> Stored(h)])
    BY DEF StoredIn, SumFunction
  <2>4. Range(lst) = {g \in Range(found) : Above(g) = {g} \/ SumFunction([h \in Above(g) |-> Stored(h)]) <= FileCap}
    BY <2>2, <2>3
  <2>5. out'.groups = lst
    BY <1>1
  <2>6. BestListed' <=>
          (Finished' => Range(out'.groups)
            = {g \in Range(found) : Above(g) = {g} \/ SumFunction([h \in Above(g) |-> Stored(h)]) <= FileCap})
    BY <1>2, Zenon DEF BestListed, Above, Better, Weight, Stored
  <2>7. QED
    BY <2>4, <2>5, <2>6
<1>14. QED
  BY <1>11, <1>13

\* Nothing moves once the listing is there.
LEMMA ReportKeeps ==
  ASSUME DupInv, HeapInv, CountedOnce, BestListed, [Next]_vars
  PROVE  CountedOnce' /\ BestListed'
<1>1. CASE Final
  BY <1>1, FinalLists
<1>2. ASSUME ~Final, ~UNCHANGED vars PROVE work # <<>> /\ out' = out
  <2>1. ASSUME Walk \/ Window \/ Skew \/ Prefix \/ Deep PROVE work # <<>> /\ out' = out
    <3>1. CASE Walk
      BY <3>1, Zenon DEF Walk, Doing
    <3>2. CASE Window
      BY <3>2, Zenon DEF Window, Doing
    <3>3. CASE Skew
      BY <3>3, Zenon DEF Skew, Doing
    <3>4. CASE Prefix
      BY <3>4, Zenon DEF Prefix, Doing
    <3>5. CASE Deep
      BY <3>5, Zenon DEF Deep, Doing
    <3>6. QED
      BY <2>1, <3>1, <3>2, <3>3, <3>4, <3>5
  <2>2. ASSUME Bucket \/ Slice \/ Compare \/ Hash \/ Add PROVE work # <<>> /\ out' = out
    <3>1. CASE Bucket
      BY <3>1, Zenon DEF Bucket, Doing
    <3>2. CASE Slice
      BY <3>2, Zenon DEF Slice, Doing
    <3>3. CASE Compare
      BY <3>3, Zenon DEF Compare, Doing
    <3>4. CASE Hash
      BY <3>4, Zenon DEF Hash, Doing
    <3>5. CASE Add
      BY <3>5, Zenon DEF Add, Doing
    <3>6. QED
      BY <2>2, <3>1, <3>2, <3>3, <3>4, <3>5
  <2>3. ASSUME Rewrite \/ Break PROVE work # <<>> /\ out' = out
    <3>1. CASE Rewrite
      BY <3>1 DEF Rewrite, Touch
    <3>2. CASE Break
      BY <3>2 DEF Break, Touch
    <3>3. QED
      BY <2>3, <3>1, <3>2
  <2>4. QED
    BY <1>2, <2>1, <2>2, <2>3 DEF Next, Pass
<1>3. CASE work # <<>> /\ out' = out
  <2>1. ~Finished
    BY <1>3 DEF DupInv, Control
  <2>2. ~Finished'
    BY <1>3, <2>1 DEF Finished
  <2>3. QED
    BY <2>2 DEF CountedOnce, BestListed
<1>4. CASE UNCHANGED vars
  <2>1. out' = out /\ found' = found /\ passed' = passed
    BY <1>4 DEF vars, heap
  <2>2. CountedOnce'
    BY <2>1 DEF CountedOnce, Finished, Total, Stored, Members
  <2>3. BestListed'
    BY <2>1 DEF BestListed, Finished, Better, Weight, Stored
  <2>4. QED
    BY <2>2, <2>3
<1>5. QED
  BY <1>1, <1>2, <1>3, <1>4

LEMMA ReportStarts == ASSUME Init PROVE HeapInv /\ CountedOnce /\ BestListed
<1>1. acc = {} /\ dropG = 0 /\ dropF = 0 /\ found = <<>> /\ passed = {} /\ out = Pending
  BY DEF Init
<1>2. IsFiniteSet({}) /\ Cardinality({}) = 0
  BY FS_EmptySet
<1>3. HeapFits
  BY <1>1, <1>2, LimitHolds DEF HeapFits
<1>4. Len(found) = 0 /\ DOMAIN found = {} /\ Range(found) = {}
  BY <1>1 DEF Range
<1>5. MembersIn(acc) = 0 /\ Offered(found) = 0
  <2>1. ASSUME NEW h PROVE SumFunctionOnSet(h, {}) = 0
    <3>1. \A x \in {} : h[x] \in Nat
      OBVIOUS
    <3>2. Sums(h, {})
      BY <1>2, <3>1, SumTakes
    <3>3. QED
      BY <3>2 DEF Sums
  <2>2. MembersIn({}) = 0
    BY <2>1, Zenon DEF MembersIn
  <2>3. Offered(found) = 0
    <3> DEFINE D == DOMAIN found
    <3>1. D = {}
      BY <1>4
    <3>2. Offered(found) = SumFunctionOnSet([i \in D |-> Members(found[i])], D)
      BY DEF Offered
    <3> HIDE DEF D
    <3>3. QED
      BY <2>1, <3>1, <3>2, Zenon
  <2>4. QED
    BY <1>1, <2>2, <2>3
<1>6. Accounts
  BY <1>1, <1>2, <1>4, <1>5 DEF Accounts
<1>7. BestKept /\ CountedOnce /\ BestListed
  BY <1>1, <1>4 DEF BestKept, CountedOnce, BestListed, Finished
<1>8. QED
  BY <1>3, <1>6, <1>7 DEF HeapInv

\* The counters of the heap and its listing, at every moment.
LEMMA Reports == Spec => [](DupInv /\ HeapInv /\ CountedOnce /\ BestListed)
<1>1. Init => HeapInv /\ CountedOnce /\ BestListed
  BY ReportStarts
<1>2. DupInv /\ DupInv' /\ HeapInv /\ CountedOnce /\ BestListed /\ [Next]_vars
        => HeapInv' /\ CountedOnce' /\ BestListed'
  BY HeapKeeps, ReportKeeps
<1>3. QED
  BY <1>1, <1>2, Inductive, PTL DEF Spec

\* The truncation report is exact, whatever was rewritten or broken: what is
\* listed and what is said to be left out add up to all that was grouped or
\* noted (scan.go:796, "No cap here is ever silent").
THEOREM ReportExact == Spec => []CountedOnce
BY Reports, PTL

\* The listing is what sorting every group found and cutting at the budget
\* gives: the bounded heap (groupTop.add) drops nothing that the budget had
\* room for.
THEOREM HeapLosesNothing == Spec => []BestListed
BY Reports, PTL

\* The types and the bounds of memory: the counter's map never outgrows its
\* limit, the heap never holds more groups than the listing can keep, and
\* what it holds has been found.
THEOREM DuplicatesTyped == Spec => []TypeOK
<1>1. DupInv /\ HeapInv => TypeOK
  <2>1. SUFFICES ASSUME DupInv, HeapInv PROVE TypeOK
    OBVIOUS
  <2>2. TreeTyped /\ CounterTyped /\ found \in Seq(Filled)
    BY <2>1 DEF DupInv, Types, WorkTyped
  <2>3. \A f \in Files : cache[f] = None
          \/ cache[f] \in [pfx : {c.pfx : c \in Contents}, full : {c.full : c \in Contents}]
    BY <2>2 DEF TreeTyped, Read, Prints, Fulls
  <2>4. found \in Seq(Group)
    <3>1. Len(found) \in Nat /\ found \in [1..Len(found) -> Filled]
      BY <2>2, LenProperties
    <3>2. found \in [1..Len(found) -> Group]
      BY <3>1 DEF Filled
    <3>3. QED
      BY <3>1, <3>2, SeqDef
  <2>5. Range(found) \subseteq Group
    BY <2>4 DEF Range
  <2>6. acc \subseteq Group /\ acc \subseteq Range(found) /\ Cardinality(acc) <= Limit /\ dropG \in Nat /\ dropF \in Nat
    BY <2>1, <2>5 DEF HeapInv, HeapFits
  <2>7. QED
    BY <2>2, <2>3, <2>4, <2>6 DEF TypeOK, TreeTyped, CounterTyped
<1>2. QED
  BY <1>1, Reports, PTL
=============================================================================
