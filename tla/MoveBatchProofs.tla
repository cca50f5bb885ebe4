---------------------------- MODULE MoveBatchProofs ----------------------------
(***************************************************************************)
(* Proofs about MoveBatch, for any tree, any scopes and any number of       *)
(* scans, batches, acts of the user and lost answers: the types, and the    *)
(* four invariants that its run checks.                                     *)
(***************************************************************************)
EXTENDS MoveBatch, KeepOneRules

(***************************************************************************)
(* The inductive invariant.                                                 *)
(***************************************************************************)

\* What TypeOK leaves out: the moves still under way, the originals, and that
\* nothing has been landed or emptied before a batch moves.
Sides ==
  /\ late \subseteq Places \X Dest \X Ids
  /\ origs \subseteq Places \X Ids /\ soundOrigs \subseteq Places \X Ids
  /\ open \in {"none", "last", "earlier"}
  /\ open = "none" => late = {}
  /\ pc = "check" => open # "last"
  /\ pc # "move" => landPaths = {} /\ landData = {} /\ gone = {}
  /\ appMoved \subseteq outData \cup landData

\* NoPhantomRow, in the middle of a batch.
RowsStand ==
  \A p \in Places \ (touched \cup gone) :
    /\ group[p] # NoId => disk[p] = group[p]
    /\ flat[p] # NoId => disk[p] = flat[p]

\* A row of the published group that is still worth something, and whether it
\* was an original when it was published.
RowLeft(p) == p \in Places /\ p \notin gone /\ group[p] # NoId
Original(p) == <<p, group[p]>> \in origs

\* An original row stands as it was published, sound, and is no moved copy;
\* every other row is one, by a record that no move and no user takes back.
RowsTold ==
  open = "none" /\ origs # {} =>
    \A p \in Places : RowLeft(p) =>
      /\ Original(p) => /\ disk[p] = group[p] /\ group[p] \notin damaged
                        /\ p \notin outPaths \cup landPaths
                        /\ group[p] \notin landData
                        /\ group[p] \notin outData \/ p \in outFrom
      /\ ~Original(p) => p \in outPaths \/ (group[p] \in outData /\ p \notin outFrom)

\* Between the vetting and the reading of the copies that stay, the answer
\* about them is still one about the rows, or there was none.
AnswerHolds ==
  pc = "check" =>
    /\ exists \subseteq {p \in Places : group[p] # NoId}
    /\ open = "none" /\ origs # {} =>
         /\ \A p \in exists : disk[p] \in {group[p], NoId}
         /\ exists # {} => \A p \in Places : group[p] # NoId /\ Original(p) => p \in exists

\* What may not move in the batch under way.
Stays(p) == p \notin requested \/ p \in held \cup keepers \cup Refs

\* An original that is there, that no move under way takes, and that a batch
\* leaves: a row of the group or the survivor of one dissolved before.
Kept(o) ==
  /\ disk[o[1]] = o[2]
  /\ o[1] \notin gone
  /\ \A m \in late : m[1] # o[1]
  /\ group[o[1]] = o[2] \/ o[1] \in keepers
  /\ pc # "idle" => Stays(o[1])

OneKept == open # "earlier" /\ origs # {} => \E o \in origs : Kept(o)

\* The same of the originals that were found sound.
SoundKept(o) ==
  /\ disk[o[1]] = o[2] /\ o[2] \notin damaged
  /\ \A m \in late : m[1] # o[1]
  /\ pc = "move" => Stays(o[1])

OneSoundKept == open # "earlier" /\ soundOrigs # {} => \E o \in soundOrigs : SoundKept(o)

BatchInv == TypeOK /\ Sides /\ RowsStand /\ RowsTold /\ AnswerHolds /\ OneKept /\ OneSoundKept

(***************************************************************************)
(* Facts about the rows and the decision over them.                         *)
(***************************************************************************)

\* The listing is finite, and so are the places in it.
LEMMA PlacesFinite == IsFiniteSet(Places)
<1>1. Order \in [1..Len(Order) -> Places] /\ Len(Order) \in Nat
  BY OrderAssumption
<1>2. Order \in Surjection(1..Len(Order), Places)
  BY <1>1 DEF Surjection, Places
<1>3. IsFiniteSet(1..Len(Order))
  BY <1>1, FS_Interval
<1>4. QED
  BY <1>2, <1>3, FS_Surjection

\* The rows are vetted as the group lists them.
LEMMA VetRows ==
  ASSUME NEW req, NEW there, NEW sound
  PROVE  LET v == VetWith(req, there, sound)
         IN  /\ DOMAIN v.paths \subseteq 1..Len(Order) /\ Len(Order) \in Nat
             /\ Members(v) = {p \in Places : group[p] # NoId}
             /\ v.requested = req /\ v.refs = Refs /\ v.exists = there
             /\ v.out = {p \in Places : IsOut(p)} /\ v.sound = sound
<1> DEFINE v == VetWith(req, there, sound)
<1>1. v.paths = Rows /\ v.requested = req /\ v.refs = Refs /\ v.exists = there
      /\ v.out = {p \in Places : IsOut(p)} /\ v.sound = sound
  BY DEF VetWith
<1>2. Order \in [1..Len(Order) -> Places] /\ Len(Order) \in Nat
  BY OrderAssumption
<1>3. DOMAIN Rows = {j \in DOMAIN Order : group[Order[j]] # NoId}
      /\ \A j \in DOMAIN Rows : Rows[j] = Order[j]
  BY DEF Rows
<1>4. Members(v) = {Rows[j] : j \in DOMAIN Rows}
  BY <1>1 DEF Members
<1>5. \A j \in DOMAIN Rows : Rows[j] \in Places /\ group[Rows[j]] # NoId
  BY <1>2, <1>3
<1>6. \A p \in Places : group[p] # NoId => \E j \in DOMAIN Rows : p = Rows[j]
  BY <1>3 DEF Places
<1>7. Members(v) = {p \in Places : group[p] # NoId}
  BY <1>4, <1>5, <1>6
<1>8. QED
  BY <1>1, <1>2, <1>3, <1>7

\* With an answer, a listed original that is there and sound means that one
\* such stays: it is not requested, or in a reference folder, or held back.
LEMMA AnsweredKeeps ==
  ASSUME NEW req, NEW there, NEW sound,
         \E p \in there \cap sound : p \in Places /\ group[p] # NoId /\ ~IsOut(p)
  PROVE  \E q \in there \cap sound :
           /\ q \in Places /\ group[q] # NoId /\ ~IsOut(q)
           /\ q \notin req \/ q \in Held(VetWith(req, there, sound)) \cup Refs
<1> DEFINE v == VetWith(req, there, sound)
<1>1. /\ DOMAIN v.paths \subseteq 1..Len(Order) /\ Len(Order) \in Nat
      /\ Members(v) = {p \in Places : group[p] # NoId}
      /\ v.requested = req /\ v.refs = Refs /\ v.exists = there
      /\ v.out = {p \in Places : IsOut(p)} /\ v.sound = sound
  BY VetRows
<1> HIDE DEF v
<1>2. KeepsOriginal(v) /\ Left(v) \subseteq Members(v)
  BY <1>1, KeepsOriginalAlways, LeftIsListed
<1>3. PICK q \in Left(v) : q \in v.exists /\ q \in v.sound /\ q \notin v.out
  BY <1>1, <1>2 DEF KeepsOriginal
<1>4. q \in Members(v) /\ (q \notin req \/ q \in Held(v) \cup Refs)
  <2>1. q \in Staying(v) \/ q \in Held(v)
    BY DEF Left
  <2>2. q \in Members(v)
    BY <1>2
  <2>3. QED
    BY <1>1, <2>1, <2>2 DEF Staying
<1>5. QED
  BY <1>1, <1>3, <1>4 DEF v

\* Without one, a listed original means that some listed original stays.
LEMMA UnansweredKeeps ==
  ASSUME NEW req, NEW sound,
         \E p \in Places : group[p] # NoId /\ ~IsOut(p)
  PROVE  \E q \in Places :
           /\ group[q] # NoId /\ ~IsOut(q)
           /\ q \notin req \/ q \in Held(VetWith(req, {}, sound)) \cup Refs
<1> DEFINE v == VetWith(req, {}, sound)
<1>1. /\ DOMAIN v.paths \subseteq 1..Len(Order) /\ Len(Order) \in Nat
      /\ Members(v) = {p \in Places : group[p] # NoId}
      /\ v.requested = req /\ v.refs = Refs /\ v.exists = {}
      /\ v.out = {p \in Places : IsOut(p)}
  BY VetRows
<1> HIDE DEF v
<1>2. Left(v) \ v.out # {} /\ Left(v) \subseteq Members(v)
  BY <1>1, KeepsOriginalUnanswered, LeftIsListed
<1>3. PICK q \in Left(v) : q \notin v.out
  BY <1>2
<1>4. q \in Members(v) /\ (q \notin req \/ q \in Held(v) \cup Refs)
  <2>1. q \in Staying(v) \/ q \in Held(v)
    BY DEF Left
  <2>2. q \in Members(v)
    BY <1>2
  <2>3. QED
    BY <1>1, <2>1, <2>2 DEF Staying
<1>5. QED
  BY <1>1, <1>3, <1>4 DEF v

\* A vetting holds back one path at the most.
LEMMA HeldOne ==
  ASSUME NEW req, NEW there, NEW sound
  PROVE  Cardinality(Held(VetWith(req, there, sound))) <= 1
<1> DEFINE v == VetWith(req, there, sound)
<1>1. DOMAIN v.paths \subseteq 1..Len(Order) /\ Len(Order) \in Nat
  BY VetRows
<1> HIDE DEF v
<1>2. Held(v) = {} \/ \E p : Held(v) = {p}
  BY <1>1, LeftIsListed
<1>3. Cardinality(Held(v)) \in {0, 1}
  BY <1>2, FS_EmptySet, FS_Singleton
<1>4. QED
  BY <1>3 DEF v

(***************************************************************************)
(* The first state.                                                         *)
(***************************************************************************)

\* Nothing is listed, moved or promised at the start.
LEMMA InitInv == Init => BatchInv
<1> SUFFICES ASSUME Init PROVE BatchInv
  OBVIOUS
<1>1. group \in [Places -> Ids \cup {NoId}] /\ flat \in [Places -> Ids \cup {NoId}]
      /\ \A p \in Places : group[p] = NoId /\ flat[p] = NoId
  BY DEF Init, NoRows
<1>2. Cardinality({p \in Places : group[p] # NoId}) = 0 /\ Cardinality({}) <= 1
  <2>1. {p \in Places : group[p] # NoId} = {}
    BY <1>1
  <2>2. QED
    BY <2>1, FS_EmptySet
<1>3. disk \in [Places -> Ids \cup {NoId}]
  BY IdsAssumption DEF Init
<1>4. TypeOK
  BY <1>1, <1>2, <1>3 DEF Init, TypeOK
<1>5. Sides /\ RowsStand /\ RowsTold /\ AnswerHolds /\ OneKept /\ OneSoundKept
  BY <1>1 DEF Init, Sides, RowsStand, RowsTold, AnswerHolds, OneKept, OneSoundKept
<1>6. QED
  BY <1>4, <1>5 DEF BatchInv

(***************************************************************************)
(* Types.                                                                   *)
(***************************************************************************)

\* A file that leaves its place for a free one: every file still stands at one
\* place, and the staged ones at none.
LEMMA Moving ==
  ASSUME TypeOK, NEW p \in Places, NEW q \in Places, disk[p] # NoId, disk[q] = NoId,
         disk' = [disk EXCEPT ![p] = NoId, ![q] = disk[p]]
  PROVE  /\ disk' \in [Places -> Ids \cup {NoId}]
         /\ \A r, s \in Places : disk'[r] = disk'[s] /\ disk'[r] # NoId => r = s
         /\ \A r \in Places : disk'[r] \notin parked
<1>1. p # q /\ disk'[p] = NoId /\ disk'[q] = disk[p]
      /\ \A r \in Places \ {p, q} : disk'[r] = disk[r]
  BY DEF TypeOK
<1>2. disk' \in [Places -> Ids \cup {NoId}]
  BY DEF TypeOK
<1>3. ASSUME NEW r \in Places, NEW s \in Places, disk'[r] = disk'[s], disk'[r] # NoId PROVE r = s
  BY <1>1, <1>3 DEF TypeOK
<1>4. ASSUME NEW r \in Places PROVE disk'[r] \notin parked
  BY <1>1, IdsAssumption DEF TypeOK
<1>5. QED
  BY <1>2, <1>3, <1>4

\* A file that goes missing.
LEMMA Missing ==
  ASSUME TypeOK, NEW p \in Places, disk' = [disk EXCEPT ![p] = NoId]
  PROVE  /\ disk' \in [Places -> Ids \cup {NoId}]
         /\ \A r, s \in Places : disk'[r] = disk'[s] /\ disk'[r] # NoId => r = s
         /\ \A r \in Places : disk'[r] \notin parked
  BY IdsAssumption DEF TypeOK

\* A file that appears at a free place.
LEMMA Appearing ==
  ASSUME TypeOK, NEW q \in Places, disk[q] = NoId,
         NEW f \in Ids, \A r \in Places : disk[r] # f,
         disk' = [disk EXCEPT ![q] = f]
  PROVE  /\ disk' \in [Places -> Ids \cup {NoId}]
         /\ \A r, s \in Places : disk'[r] = disk'[s] /\ disk'[r] # NoId => r = s
         /\ \A r \in Places : disk'[r] \in parked => r = q
         /\ disk'[q] = f
  BY IdsAssumption DEF TypeOK

\* No step leaves the types.
LEMMA TypeStep == TypeOK /\ Sides /\ [Next]_vars => TypeOK'
<1> SUFFICES ASSUME TypeOK, Sides, [Next]_vars PROVE TypeOK'
  OBVIOUS
<1> USE IdsAssumption, PlacesAssumption
<1>1. ASSUME AbortDuplicates PROVE TypeOK'
  <2>1. {p \in Places : group'[p] # NoId} = {}
    BY <1>1 DEF AbortDuplicates, NoRows
  <2>2. Cardinality({p \in Places : group'[p] # NoId}) # 1
    BY <2>1, FS_EmptySet
  <2>3. group' \in [Places -> Ids \cup {NoId}]
    BY <1>1 DEF AbortDuplicates, NoRows
  <2>4. QED
    BY <1>1, <2>2, <2>3 DEF AbortDuplicates, CanScan, TypeOK, world, moveOut, request, vetted, landing
<1>2. ASSUME NEW scope \in Scopes, ScanDuplicates(scope) PROVE TypeOK'
  <2> DEFINE found == {p \in scope : Sound(p)}
             rows == {p \in Places : group'[p] # NoId}
  <2>1. group' = [p \in Places |-> IF p \in found /\ Cardinality(found) >= 2 THEN disk[p] ELSE NoId]
    BY <1>2 DEF ScanDuplicates
  <2>2. group' \in [Places -> Ids \cup {NoId}]
    BY <2>1 DEF TypeOK
  <2>3. rows = {} \/ (Cardinality(found) >= 2 /\ rows = found \cap Places)
    BY <2>1 DEF Sound
  <2>4. found \subseteq Places
    BY ScopesAssumption
  <2>5. Cardinality(rows) # 1
    BY <2>3, <2>4, FS_EmptySet
  <2>6. QED
    BY <1>2, <2>2, <2>5 DEF ScanDuplicates, CanScan, TypeOK, world, moveOut, request, vetted, landing
<1>3. ASSUME ScanTemp PROVE TypeOK'
  BY <1>3 DEF ScanTemp, CanScan, TypeOK, world, moveOut, request, vetted, landing, history
<1>4. ASSUME NEW t \in {"duplicates", "temp_files"}, NEW v \in BOOLEAN,
             NEW req \in SUBSET {p \in Places : group[p] # NoId \/ flat[p] # NoId}, Vet(t, v, req)
      PROVE  TypeOK'
  <2>1. Cardinality(held') <= 1
    BY <1>4, HeldOne DEF Vet
  <2>2. exists' \subseteq Places /\ requested' \subseteq Places /\ todo' \subseteq requested'
    BY <1>4 DEF Vet, Existing
  <2>3. QED
    BY <1>4, <2>1, <2>2 DEF Vet, TypeOK, world, results, moveOut, landing
<1>5. ASSUME CheckStaying PROVE TypeOK'
  <2>1. Cardinality(held') <= 1
    BY <1>5, HeldOne DEF CheckStaying
  <2>2. QED
    BY <1>5, <2>1 DEF CheckStaying, TypeOK, world, results, moveOut, request, landing
<1> USE DEF BatchUnchanged, Take, Movable, world, results, moveOut, request, vetted, landing, history
<1>6. ASSUME NEW p \in todo, Refuse(p) PROVE TypeOK'
  BY <1>6 DEF Refuse, TypeOK
<1>7. ASSUME NEW p \in todo, Park(p) PROVE TypeOK'
  <2>1. p \in Places /\ disk[p] \in Ids
    BY <1>7 DEF Park, TypeOK
  <2>2. /\ disk' \in [Places -> Ids \cup {NoId}]
        /\ \A r, s \in Places : disk'[r] = disk'[s] /\ disk'[r] # NoId => r = s
        /\ parked' \subseteq Ids /\ \A r \in Places : disk'[r] \notin parked'
    BY <1>7, <2>1 DEF Park, TypeOK
  <2>3. QED
    BY <1>7, <2>1, <2>2 DEF Park, TypeOK
<1>8. ASSUME NEW p \in todo, NEW at \in Dest, Move(p, at) PROVE TypeOK'
  <2>1. p \in Places /\ at \in Places /\ disk[p] \in Ids /\ disk[p] # NoId /\ disk[at] = NoId
    BY <1>8 DEF Move, TypeOK
  <2>2. /\ disk' \in [Places -> Ids \cup {NoId}]
        /\ \A r, s \in Places : disk'[r] = disk'[s] /\ disk'[r] # NoId => r = s
        /\ \A r \in Places : disk'[r] \notin parked'
    BY <1>8, <2>1, Moving DEF Move
  <2>3. QED
    BY <1>8, <2>1, <2>2 DEF Move, TypeOK
<1>9. ASSUME NEW p \in todo, NEW at \in Dest, KeepBoth(p, at) PROVE TypeOK'
  <2>1. PICK f \in Ids : /\ \A q \in Places : disk[q] # f
                         /\ f \notin parked
                         /\ disk' = [disk EXCEPT ![at] = f]
                         /\ landData' = landData \cup {f}
                         /\ appMoved' = appMoved \cup {f}
    BY <1>9 DEF KeepBoth
  <2>2. at \in Places /\ disk[at] = NoId
    BY <1>9 DEF KeepBoth
  <2>3. /\ disk' \in [Places -> Ids \cup {NoId}]
        /\ \A r, s \in Places : disk'[r] = disk'[s] /\ disk'[r] # NoId => r = s
        /\ \A r \in Places : disk'[r] \notin parked
    BY <2>1, <2>2, Appearing
  <2>4. QED
    BY <1>9, <2>1, <2>2, <2>3 DEF KeepBoth, TypeOK
<1>10. ASSUME NEW p \in todo, NEW at \in Dest, LeaveUnsettled(p, at) PROVE TypeOK'
  BY <1>10 DEF LeaveUnsettled, TypeOK
<1>11. ASSUME Finish PROVE TypeOK'
  <2> DEFINE left == {p \in Places : group[p] # NoId} \ gone
             rows == {p \in Places : group'[p] # NoId}
  <2>1. group' = Pruned(group, left) /\ keepers' = keepers \cup SurvivorOf(group, left)
    BY <1>11 DEF Finish
  <2>2. rows = {} \/ (Cardinality(left) >= 2 /\ rows = left)
    BY <2>1 DEF Pruned
  <2>3. Cardinality(rows) # 1
    BY <2>2, FS_EmptySet
  <2>4. group' \in [Places -> Ids \cup {NoId}] /\ keepers' \subseteq Places
    BY <2>1 DEF Pruned, SurvivorOf, TypeOK
  <2>5. flat' \in [Places -> Ids \cup {NoId}]
    BY <1>11 DEF Finish, TypeOK
  <2>6. Cardinality(held') <= 1
    BY <1>11, FS_EmptySet DEF Finish
  <2>7. QED
    BY <1>11, <2>3, <2>4, <2>5, <2>6 DEF Finish, TypeOK
<1>12. ASSUME NEW m \in late, LandLate(m) PROVE TypeOK'
  <2>1. m[1] \in Places /\ m[2] \in Places /\ disk[m[1]] = m[3] /\ m[3] # NoId /\ disk[m[2]] = NoId
    BY <1>12 DEF LandLate, Sides
  <2>2. disk' = [disk EXCEPT ![m[1]] = NoId, ![m[2]] = disk[m[1]]]
    BY <1>12, <2>1 DEF LandLate
  <2>3. /\ disk' \in [Places -> Ids \cup {NoId}]
        /\ \A r, s \in Places : disk'[r] = disk'[s] /\ disk'[r] # NoId => r = s
        /\ \A r \in Places : disk'[r] \notin parked
    BY <2>1, <2>2, Moving
  <2>4. QED
    BY <1>12, <2>1, <2>3 DEF LandLate, TypeOK
<1>13. ASSUME NEW m \in late, FailLate(m) PROVE TypeOK'
  BY <1>13 DEF FailLate, TypeOK
<1>14. ASSUME NEW p \in Places, Delete(p) PROVE TypeOK'
  <2>1. /\ disk' \in [Places -> Ids \cup {NoId}]
        /\ \A r, s \in Places : disk'[r] = disk'[s] /\ disk'[r] # NoId => r = s
        /\ \A r \in Places : disk'[r] \notin parked
    BY <1>14, Missing DEF Delete
  <2>2. QED
    BY <1>14, <2>1 DEF Delete, Meddle, TypeOK
<1>15. ASSUME NEW p \in Places, Damage(p) PROVE TypeOK'
  BY <1>15 DEF Damage, Sound, Meddle, TypeOK
<1>16. ASSUME NEW p \in Places, NEW q \in Places, Rename(p, q) PROVE TypeOK'
  <2>1. /\ disk' \in [Places -> Ids \cup {NoId}]
        /\ \A r, s \in Places : disk'[r] = disk'[s] /\ disk'[r] # NoId => r = s
        /\ \A r \in Places : disk'[r] \notin parked
    BY <1>16, Moving DEF Rename
  <2>2. QED
    BY <1>16, <2>1 DEF Rename, Meddle, TypeOK
<1>17. ASSUME NEW f \in parked, NEW q \in Places, Unpark(f, q) PROVE TypeOK'
  <2>1. f \in Ids /\ disk[q] = NoId /\ \A r \in Places : disk[r] # f
    BY <1>17 DEF Unpark, TypeOK
  <2>2. /\ disk' \in [Places -> Ids \cup {NoId}]
        /\ \A r, s \in Places : disk'[r] = disk'[s] /\ disk'[r] # NoId => r = s
        /\ \A r \in Places : disk'[r] \in parked => r = q
        /\ disk'[q] = f
    BY <1>17, <2>1, Appearing DEF Unpark
  <2>3. QED
    BY <1>17, <2>2 DEF Unpark, Meddle, TypeOK
<1>18. ASSUME UNCHANGED vars PROVE TypeOK'
  BY <1>18 DEF vars, TypeOK
<1>19. QED
  BY <1>1, <1>2, <1>3, <1>4, <1>5, <1>6, <1>7, <1>8, <1>9, <1>10, <1>11, <1>12, <1>13,
     <1>14, <1>15, <1>16, <1>17, <1>18 DEF Next, Scan, Batch, World

(***************************************************************************)
(* What stands beside the types, and the rows between batches.              *)
(***************************************************************************)

\* Sides is kept by every step.
LEMMA SidesStep == TypeOK /\ Sides /\ [Next]_vars => Sides'
<1> SUFFICES ASSUME TypeOK, Sides, [Next]_vars PROVE Sides'
  OBVIOUS
<1> USE IdsAssumption, PlacesAssumption
    DEF BatchUnchanged, Take, Movable, world, results, moveOut, request, vetted, landing,
        history, bounds, CanScan, Meddle, Sides
<1>1. ASSUME AbortDuplicates PROVE Sides'
  BY <1>1 DEF AbortDuplicates
<1>2. ASSUME NEW scope \in Scopes, ScanDuplicates(scope) PROVE Sides'
  <2> DEFINE found == {p \in scope : Sound(p)}
  <2>1. group' = [p \in Places |-> IF p \in found /\ Cardinality(found) >= 2 THEN disk[p] ELSE NoId]
    BY <1>2 DEF ScanDuplicates
  <2>2. \A p \in Places : group'[p] # NoId => group'[p] \in Ids
    BY <2>1 DEF TypeOK
  <2>3. origs' = {<<p, group'[p]>> : p \in {q \in Places : group'[q] # NoId /\ ~IsOut(q)}}
    BY <1>2 DEF ScanDuplicates
  <2>4. origs' \subseteq Places \X Ids
    BY <2>2, <2>3
  <2>5. QED
    BY <1>2, <2>4 DEF ScanDuplicates
<1>3. ASSUME ScanTemp PROVE Sides'
  BY <1>3 DEF ScanTemp
<1>4. ASSUME NEW t \in {"duplicates", "temp_files"}, NEW v \in BOOLEAN,
             NEW req \in SUBSET {p \in Places : group[p] # NoId \/ flat[p] # NoId}, Vet(t, v, req)
      PROVE  Sides'
  BY <1>4 DEF Vet
<1>5. ASSUME CheckStaying PROVE Sides'
  <2>1. soundOrigs' \subseteq Places \X Ids
    BY <1>5 DEF CheckStaying, Sound, TypeOK
  <2>2. QED
    BY <1>5, <2>1 DEF CheckStaying
<1>6. ASSUME NEW p \in todo, Refuse(p) PROVE Sides'
  BY <1>6 DEF Refuse
<1>7. ASSUME NEW p \in todo, Park(p) PROVE Sides'
  BY <1>7 DEF Park
<1>8. ASSUME NEW p \in todo, NEW at \in Dest, Move(p, at) PROVE Sides'
  BY <1>8 DEF Move
<1>9. ASSUME NEW p \in todo, NEW at \in Dest, KeepBoth(p, at) PROVE Sides'
  BY <1>9 DEF KeepBoth
<1>10. ASSUME NEW p \in todo, NEW at \in Dest, LeaveUnsettled(p, at) PROVE Sides'
  <2>1. <<p, at, disk[p]>> \in Places \X Dest \X Ids
    BY <1>10 DEF LeaveUnsettled, TypeOK
  <2>2. QED
    BY <1>10, <2>1 DEF LeaveUnsettled
<1>11. ASSUME Finish PROVE Sides'
  BY <1>11 DEF Finish
<1>12. ASSUME NEW m \in late, LandLate(m) \/ FailLate(m) PROVE Sides'
  BY <1>12 DEF LandLate, FailLate
<1>13. ASSUME NEW p \in Places, Delete(p) \/ Damage(p) PROVE Sides'
  BY <1>13 DEF Delete, Damage
<1>14. ASSUME NEW p \in Places, NEW q \in Places, Rename(p, q) PROVE Sides'
  BY <1>14 DEF Rename
<1>15. ASSUME NEW f \in parked, NEW q \in Places, Unpark(f, q) PROVE Sides'
  BY <1>15 DEF Unpark
<1>16. ASSUME UNCHANGED vars PROVE Sides'
  BY <1>16 DEF vars
<1>17. QED
  BY <1>1, <1>2, <1>3, <1>4, <1>5, <1>6, <1>7, <1>8, <1>9, <1>10, <1>11, <1>12, <1>13,
     <1>14, <1>15, <1>16 DEF Next, Scan, Batch, World

\* No place is filled but a free one, whose row a batch has emptied or the user
\* has touched; so the rows stand, but for those a batch has still to prune.
LEMMA RowsStandStep == TypeOK /\ Sides /\ RowsStand /\ [Next]_vars => RowsStand'
<1> SUFFICES ASSUME TypeOK, Sides, RowsStand, [Next]_vars PROVE RowsStand'
  OBVIOUS
<1> USE IdsAssumption, PlacesAssumption
    DEF BatchUnchanged, Take, world, results, moveOut, request, vetted, landing,
        history, bounds, CanScan, Meddle, RowsStand
<1>1. ASSUME AbortDuplicates PROVE RowsStand'
  BY <1>1 DEF AbortDuplicates, NoRows
<1>2. ASSUME NEW scope \in Scopes, ScanDuplicates(scope) PROVE RowsStand'
  BY <1>2 DEF ScanDuplicates
<1>3. ASSUME ScanTemp PROVE RowsStand'
  BY <1>3 DEF ScanTemp
<1>4. ASSUME NEW t \in {"duplicates", "temp_files"}, NEW v \in BOOLEAN,
             NEW req \in SUBSET {p \in Places : group[p] # NoId \/ flat[p] # NoId}, Vet(t, v, req)
      PROVE  RowsStand'
  BY <1>4 DEF Vet
<1>5. ASSUME CheckStaying PROVE RowsStand'
  BY <1>5 DEF CheckStaying
<1>6. ASSUME NEW p \in todo, Refuse(p) PROVE RowsStand'
  BY <1>6 DEF Refuse
<1>7. ASSUME NEW p \in todo, Park(p) PROVE RowsStand'
  BY <1>7 DEF Park, TypeOK
<1>8. ASSUME NEW p \in todo, NEW at \in Dest, Move(p, at) PROVE RowsStand'
  BY <1>8 DEF Move, TypeOK
<1>9. ASSUME NEW p \in todo, NEW at \in Dest, KeepBoth(p, at) PROVE RowsStand'
  BY <1>9 DEF KeepBoth, TypeOK
<1>10. ASSUME NEW p \in todo, NEW at \in Dest, LeaveUnsettled(p, at) PROVE RowsStand'
  BY <1>10 DEF LeaveUnsettled
<1>11. ASSUME Finish PROVE RowsStand'
  <2> DEFINE left == {p \in Places : group[p] # NoId} \ gone
  <2>1. \A p \in Places : group'[p] # NoId => p \notin gone /\ group'[p] = group[p]
    BY <1>11 DEF Finish, Pruned
  <2>2. \A p \in Places : flat'[p] # NoId => p \notin gone /\ flat'[p] = flat[p]
    BY <1>11 DEF Finish
  <2>3. QED
    BY <1>11, <2>1, <2>2 DEF Finish
<1>12. ASSUME NEW m \in late, LandLate(m) \/ FailLate(m) PROVE RowsStand'
  BY <1>12 DEF LandLate, FailLate, TypeOK
<1>13. ASSUME NEW p \in Places, Delete(p) \/ Damage(p) PROVE RowsStand'
  BY <1>13 DEF Delete, Damage, TypeOK
<1>14. ASSUME NEW p \in Places, NEW q \in Places, Rename(p, q) PROVE RowsStand'
  BY <1>14 DEF Rename, TypeOK
<1>15. ASSUME NEW f \in parked, NEW q \in Places, Unpark(f, q) PROVE RowsStand'
  BY <1>15 DEF Unpark, TypeOK
<1>16. ASSUME UNCHANGED vars PROVE RowsStand'
  BY <1>16 DEF vars
<1>17. QED
  BY <1>1, <1>2, <1>3, <1>4, <1>5, <1>6, <1>7, <1>8, <1>9, <1>10, <1>11, <1>12, <1>13,
     <1>14, <1>15, <1>16 DEF Next, Scan, Batch, World

(***************************************************************************)
(* What the rows tell, and the answer the batch decides on.                 *)
(***************************************************************************)

\* The rows go on telling originals from moved copies: a file lands at a free
\* place and is none of those that stand, and a user who changes an original, or
\* puts a file where a row was, voids the promise.
LEMMA RowsToldStep == TypeOK /\ Sides /\ RowsTold /\ [Next]_vars => RowsTold'
<1> SUFFICES ASSUME TypeOK, Sides, RowsTold, [Next]_vars PROVE RowsTold'
  OBVIOUS
<1> USE IdsAssumption, PlacesAssumption
    DEF BatchUnchanged, Take, world, results, moveOut, request, vetted, landing,
        history, bounds, RowsTold, RowLeft, Original
<1>1. ASSUME AbortDuplicates PROVE RowsTold'
  BY <1>1 DEF AbortDuplicates
<1>2. ASSUME NEW scope \in Scopes, ScanDuplicates(scope) PROVE RowsTold'
  <2> DEFINE found == {p \in scope : Sound(p)}
  <2>1. group' = [p \in Places |-> IF p \in found /\ Cardinality(found) >= 2 THEN disk[p] ELSE NoId]
    BY <1>2 DEF ScanDuplicates
  <2>2. \A p \in Places : group'[p] # NoId => disk[p] = group'[p] /\ group'[p] \notin damaged
    BY <2>1 DEF Sound
  <2>3. \A p \in Places : <<p, group'[p]>> \in origs' <=> group'[p] # NoId /\ ~IsOut(p)
    BY <1>2 DEF ScanDuplicates
  <2>4. landPaths = {} /\ landData = {} /\ gone = {} /\ UNCHANGED <<world, moveOut, landing>>
    BY <1>2 DEF ScanDuplicates, CanScan, Sides
  <2>5. QED
    BY <2>2, <2>3, <2>4 DEF IsOut
<1>3. ASSUME ScanTemp PROVE RowsTold'
  BY <1>3 DEF ScanTemp, CanScan
<1>4. ASSUME NEW t \in {"duplicates", "temp_files"}, NEW v \in BOOLEAN,
             NEW req \in SUBSET {p \in Places : group[p] # NoId \/ flat[p] # NoId}, Vet(t, v, req)
      PROVE  RowsTold'
  BY <1>4 DEF Vet
<1>5. ASSUME CheckStaying PROVE RowsTold'
  BY <1>5 DEF CheckStaying
<1>6. ASSUME NEW p \in todo, Refuse(p) PROVE RowsTold'
  BY <1>6 DEF Refuse
<1>7. ASSUME NEW p \in todo, Park(p) PROVE RowsTold'
  BY <1>7 DEF Park, TypeOK
<1>8. ASSUME NEW p \in todo, NEW at \in Dest, Move(p, at) PROVE RowsTold'
  <2> SUFFICES ASSUME open = "none", origs # {}, NEW q \in Places, q \notin gone, q # p,
                      group[q] # NoId
               PROVE  /\ Original(q) => /\ disk'[q] = group[q] /\ group[q] \notin damaged'
                                        /\ q \notin outPaths \cup landPaths'
                                        /\ group[q] \notin landData'
                                        /\ group[q] \notin outData \/ q \in outFrom
                      /\ ~Original(q) => q \in outPaths \/ (group[q] \in outData /\ q \notin outFrom)
    BY <1>8 DEF Move
  <2>1. p \in Places /\ at \in Places /\ disk[p] # NoId /\ disk[at] = NoId
    BY <1>8 DEF Move, Movable, TypeOK
  <2>2. Original(q) => q # at /\ disk[q] = group[q] /\ disk[p] # group[q]
    BY <2>1 DEF TypeOK
  <2>3. QED
    BY <1>8, <2>1, <2>2 DEF Move, TypeOK
<1>9. ASSUME NEW p \in todo, NEW at \in Dest, KeepBoth(p, at) PROVE RowsTold'
  <2>1. PICK f \in Ids : /\ \A q \in Places : disk[q] # f
                         /\ disk' = [disk EXCEPT ![at] = f]
                         /\ landData' = landData \cup {f}
    BY <1>9 DEF KeepBoth
  <2>2. disk[at] = NoId /\ at \in Places
    BY <1>9 DEF KeepBoth
  <2>3. QED
    BY <1>9, <2>1, <2>2 DEF KeepBoth, TypeOK
<1>10. ASSUME NEW p \in todo, NEW at \in Dest, LeaveUnsettled(p, at) PROVE RowsTold'
  BY <1>10 DEF LeaveUnsettled
<1>11. ASSUME Finish PROVE RowsTold'
  <2>1. \A p \in Places : group'[p] # NoId => p \notin gone /\ group'[p] = group[p]
    BY <1>11 DEF Finish, Pruned
  <2>2. /\ outPaths' = outPaths \cup landPaths /\ outData' = outData \cup landData
        /\ outFrom' = outFrom \cup gone /\ landPaths' = {} /\ landData' = {}
        /\ UNCHANGED <<disk, damaged, origs, open>>
    BY <1>11 DEF Finish
  <2>3. QED
    BY <2>1, <2>2
<1>12. ASSUME NEW m \in late, LandLate(m) \/ FailLate(m) PROVE RowsTold'
  BY <1>12 DEF LandLate, FailLate, Sides
<1>13. ASSUME NEW p \in Places, Delete(p) \/ Damage(p) PROVE RowsTold'
  <2>1. origs' # {} => origs' = origs /\ <<p, group[p]>> \notin origs
    BY <1>13 DEF Delete, Damage, Meddle
  <2>2. \A q \in Places \ {p} : disk'[q] = disk[q] /\ (disk[q] \notin damaged => disk[q] \notin damaged' \/ disk[q] = NoId)
    BY <1>13 DEF Delete, Damage, TypeOK
  <2>3. QED
    BY <1>13, <2>1, <2>2 DEF Delete, Damage, Meddle, TypeOK
<1>14. ASSUME NEW p \in Places, NEW q \in Places, Rename(p, q) PROVE RowsTold'
  <2>1. origs' # {} => origs' = origs /\ <<p, group[p]>> \notin origs /\ <<q, group[q]>> \notin origs
    BY <1>14 DEF Rename, Meddle
  <2>2. QED
    BY <1>14, <2>1 DEF Rename, Meddle, TypeOK
<1>15. ASSUME NEW f \in parked, NEW q \in Places, Unpark(f, q) PROVE RowsTold'
  <2>1. origs' # {} => origs' = origs /\ <<q, group[q]>> \notin origs
    BY <1>15 DEF Unpark, Meddle
  <2>2. QED
    BY <1>15, <2>1 DEF Unpark, Meddle, TypeOK
<1>16. ASSUME UNCHANGED vars PROVE RowsTold'
  BY <1>16 DEF vars
<1>17. QED
  BY <1>1, <1>2, <1>3, <1>4, <1>5, <1>6, <1>7, <1>8, <1>9, <1>10, <1>11, <1>12, <1>13,
     <1>14, <1>15, <1>16 DEF Next, Scan, Batch, World

\* The answer stays one about the rows while the copies that stay are read: no
\* batch moves then, and nobody else fills a listed place unless they void the
\* promise.
LEMMA AnswerHoldsStep == TypeOK /\ Sides /\ RowsTold /\ AnswerHolds /\ [Next]_vars => AnswerHolds'
<1> SUFFICES ASSUME TypeOK, Sides, RowsTold, AnswerHolds, [Next]_vars PROVE AnswerHolds'
  OBVIOUS
<1> USE IdsAssumption, PlacesAssumption
    DEF BatchUnchanged, Take, world, results, moveOut, request, vetted, landing,
        history, bounds, AnswerHolds, Original
<1>1. ASSUME pc' # "check" PROVE AnswerHolds'
  BY <1>1
<1>2. ASSUME NEW t \in {"duplicates", "temp_files"}, NEW v \in BOOLEAN,
             NEW req \in SUBSET {p \in Places : group[p] # NoId \/ flat[p] # NoId}, Vet(t, v, req)
      PROVE  AnswerHolds'
  <2>1. UNCHANGED <<disk, group, origs, gone>> /\ gone = {} /\ (open' = "none" => open = "none")
    BY <1>2 DEF Vet, Sides
  <2>2. exists' \in {Existing, {}}
    BY <1>2 DEF Vet
  <2>3. open = "none" /\ origs # {} =>
          \A p \in Places : group[p] # NoId /\ Original(p) => disk[p] = group[p]
    BY <2>1 DEF RowsTold, RowLeft
  <2>4. QED
    BY <2>1, <2>2, <2>3 DEF Existing
<1>3. ASSUME CheckStaying PROVE AnswerHolds'
  BY <1>3 DEF CheckStaying
<1>4. ASSUME NEW m \in late, LandLate(m) \/ FailLate(m) PROVE AnswerHolds'
  BY <1>4 DEF LandLate, FailLate, Sides
<1>5. ASSUME NEW p \in Places, Delete(p) \/ Damage(p) PROVE AnswerHolds'
  <2>1. UNCHANGED <<group, exists, open, pc>> /\ (origs' # {} => origs' = origs)
    BY <1>5 DEF Delete, Damage, Meddle
  <2>2. \A r \in Places : disk'[r] \in {disk[r], NoId}
    BY <1>5 DEF Delete, Damage, TypeOK
  <2>3. QED
    BY <2>1, <2>2
<1>6. ASSUME NEW p \in Places, NEW q \in Places, Rename(p, q) PROVE AnswerHolds'
  <2>1. /\ UNCHANGED <<group, exists, open, pc>>
        /\ origs' # {} => origs' = origs /\ group[q] = NoId
    BY <1>6 DEF Rename, Meddle
  <2>2. \A r \in Places \ {q} : disk'[r] \in {disk[r], NoId}
    BY <1>6 DEF Rename, TypeOK
  <2>3. QED
    BY <2>1, <2>2
<1>7. ASSUME NEW f \in parked, NEW q \in Places, Unpark(f, q) PROVE AnswerHolds'
  <2>1. /\ UNCHANGED <<group, exists, open, pc>>
        /\ origs' # {} => origs' = origs /\ group[q] = NoId
    BY <1>7 DEF Unpark, Meddle
  <2>2. \A r \in Places \ {q} : disk'[r] = disk[r]
    BY <1>7 DEF Unpark, TypeOK
  <2>3. QED
    BY <2>1, <2>2
<1>8. ASSUME UNCHANGED vars PROVE AnswerHolds'
  BY <1>8 DEF vars
<1>9. Scan => pc' # "check"
  BY DEF Scan, AbortDuplicates, ScanTemp, ScanDuplicates, CanScan
<1>10. (\E p \in todo : Refuse(p) \/ Park(p)) => pc' # "check"
  BY DEF Refuse, Park
<1>11. (\E p \in todo, at \in Dest : Move(p, at) \/ KeepBoth(p, at) \/ LeaveUnsettled(p, at))
         => pc' # "check"
  BY DEF Move, KeepBoth, LeaveUnsettled
<1>12. Finish => pc' # "check"
  BY DEF Finish
<1>13. QED
  BY <1>1, <1>2, <1>3, <1>4, <1>5, <1>6, <1>7, <1>8, <1>9, <1>10, <1>11, <1>12
     DEF Next, Batch, World

(***************************************************************************)
(* An original stays.                                                       *)
(***************************************************************************)

\* The decision leaves an original row: with an answer, one the answer names;
\* without one, any row does, for they all stand.
LEMMA DecisionKeeps ==
  ASSUME TypeOK, Sides, RowsTold, open = "none", gone = {}, origs # {},
         NEW req, NEW there \in SUBSET Places, NEW sound,
         NEW o \in origs, group[o[1]] = o[2],
         ~Blind(there),
         \A p \in there \cap sound : disk[p] = group[p],
         there # {} => o[1] \in there \cap sound
  PROVE  \E q \in Places : /\ group[q] # NoId /\ disk[q] = group[q] /\ Original(q)
                           /\ q \notin req \/ q \in Held(VetWith(req, there, sound)) \cup Refs
<1>1. o[1] \in Places /\ group[o[1]] # NoId /\ o = <<o[1], group[o[1]]>>
  BY IdsAssumption DEF Sides
<1>2. disk[o[1]] = group[o[1]] /\ ~IsOut(o[1])
  BY <1>1, PlacesAssumption DEF RowsTold, RowLeft, Original, IsOut
<1>3. ASSUME NEW q \in Places, group[q] # NoId, disk[q] = group[q], ~IsOut(q) PROVE Original(q)
  BY <1>3 DEF RowsTold, RowLeft, IsOut
<1>4. CASE there # {}
  <2>1. \E p \in there \cap sound : p \in Places /\ group[p] # NoId /\ ~IsOut(p)
    BY <1>1, <1>2, <1>4
  <2>2. PICK q \in there \cap sound :
          /\ q \in Places /\ group[q] # NoId /\ ~IsOut(q)
          /\ q \notin req \/ q \in Held(VetWith(req, there, sound)) \cup Refs
    BY <2>1, AnsweredKeeps
  <2>3. QED
    BY <2>2, <1>3
<1>5. CASE there = {}
  <2>1. \A p \in Places : group[p] # NoId => disk[p] = group[p]
    BY <1>5 DEF Blind
  <2>2. \E p \in Places : group[p] # NoId /\ ~IsOut(p)
    BY <1>1, <1>2
  <2>3. PICK q \in Places :
          /\ group[q] # NoId /\ ~IsOut(q)
          /\ q \notin req \/ q \in Held(VetWith(req, {}, sound)) \cup Refs
    BY <2>2, UnansweredKeeps
  <2>4. QED
    BY <1>5, <2>1, <2>3, <1>3
<1>6. QED
  BY <1>4, <1>5

\* Every step leaves an original that no later step of the batch takes.  The
\* vettings choose it; a move takes none that stays; the prune leaves its row
\* or remembers it; the user voids the promise by touching any original.
LEMMA OneKeptStep ==
  TypeOK /\ Sides /\ RowsTold /\ AnswerHolds /\ OneKept /\ [Next]_vars => OneKept'
<1> SUFFICES ASSUME TypeOK, Sides, RowsTold, AnswerHolds, OneKept, [Next]_vars,
                    open' # "earlier", origs' # {}
             PROVE  \E o \in origs' : Kept(o)'
  BY DEF OneKept
<1> USE IdsAssumption, PlacesAssumption
    DEF BatchUnchanged, Take, world, results, moveOut, request, vetted, landing,
        history, bounds, Kept, Stays
<1>0. \A o \in origs : o[1] \in Places /\ o[2] \in Ids /\ o = <<o[1], o[2]>>
  BY DEF Sides
<1>1. ASSUME AbortDuplicates PROVE FALSE
  BY <1>1 DEF AbortDuplicates
<1>2. ASSUME NEW scope \in Scopes, ScanDuplicates(scope) PROVE \E o \in origs' : Kept(o)'
  <2> DEFINE found == {p \in scope : Sound(p)}
  <2>1. group' = [p \in Places |-> IF p \in found /\ Cardinality(found) >= 2 THEN disk[p] ELSE NoId]
    BY <1>2 DEF ScanDuplicates
  <2>2. \A p \in Places : group'[p] # NoId => disk[p] = group'[p]
    BY <2>1
  <2>3. PICK p \in Places : group'[p] # NoId /\ <<p, group'[p]>> \in origs'
    BY <1>2 DEF ScanDuplicates
  <2>4. gone = {} /\ late = {} /\ pc = "idle"
    BY <1>2 DEF ScanDuplicates, CanScan, Sides
  <2>5. UNCHANGED <<disk, gone, late, pc>>
    BY <1>2 DEF ScanDuplicates
  <2>6. QED
    BY <2>2, <2>3, <2>4, <2>5
<1>3. ASSUME ScanTemp PROVE \E o \in origs' : Kept(o)'
  BY <1>3 DEF ScanTemp, CanScan, OneKept
<1>4. ASSUME NEW t \in {"duplicates", "temp_files"}, NEW v \in BOOLEAN,
             NEW req \in SUBSET {p \in Places : group[p] # NoId \/ flat[p] # NoId}, Vet(t, v, req)
      PROVE  \E o \in origs' : Kept(o)'
  <2>1. open = "none" /\ ~Blind(exists') /\ late = {} /\ gone = {} /\ pc = "idle"
    BY <1>4 DEF Vet, Sides
  <2>2. /\ UNCHANGED <<disk, group, keepers, late, gone, origs>>
        /\ requested' = req /\ exists' \in {Existing, {}}
        /\ held' = Held(VetWith(req, exists', Places))
    BY <1>4 DEF Vet
  <2>3. PICK o \in origs : Kept(o)
    BY <2>1, <2>2 DEF OneKept
  <2>4. CASE o[1] \in keepers
    BY <2>2, <2>3, <2>4
  <2>5. CASE group[o[1]] = o[2]
    <3>1. exists' \subseteq Places /\ \A p \in exists' \cap Places : disk[p] = group[p]
      BY <2>2 DEF Existing
    <3>2. exists' # {} => o[1] \in exists' \cap Places
      BY <1>0, <2>2, <2>3, <2>5 DEF Existing
    <3>3. PICK q \in Places : /\ group[q] # NoId /\ disk[q] = group[q] /\ Original(q)
                              /\ q \notin req \/ q \in held' \cup Refs
      BY <2>1, <2>2, <2>5, <3>1, <3>2, DecisionKeeps
    <3>4. <<q, group[q]>> \in origs'
      BY <2>2, <3>3 DEF Original
    <3>5. QED
      BY <2>1, <2>2, <3>3, <3>4
  <2>6. QED
    BY <2>3, <2>4, <2>5
<1>5. ASSUME CheckStaying PROVE \E o \in origs' : Kept(o)'
  <2> DEFINE sound == {p \in Places : Sound(p)}
  <2>1. /\ open = "none" /\ ~Blind(exists) /\ late = {} /\ gone = {}
    BY <1>5 DEF CheckStaying, Sides
  <2>2. /\ UNCHANGED <<disk, group, keepers, late, gone, origs, requested>>
        /\ held' = Held(VetWith(requested, exists, sound)) /\ pc = "check"
    BY <1>5 DEF CheckStaying
  <2>3. PICK o \in origs : Kept(o)
    BY <2>1, <2>2 DEF OneKept
  <2>4. CASE o[1] \in keepers
    BY <2>2, <2>3, <2>4
  <2>5. CASE group[o[1]] = o[2]
    <3>1. exists \subseteq Places /\ \A p \in exists \cap sound : disk[p] = group[p]
      BY <2>1, <2>2, <2>3 DEF AnswerHolds, Sound, TypeOK
    <3>2. /\ o[1] \in Places /\ group[o[1]] # NoId /\ Original(o[1])
      BY <1>0, <2>5 DEF Original
    <3>3. o[1] \in sound
      BY <1>0, <2>1, <2>3, <3>2 DEF RowsTold, RowLeft, Sound
    <3>4. exists # {} => o[1] \in exists \cap sound
      BY <2>1, <2>2, <2>3, <3>2, <3>3 DEF AnswerHolds
    <3> HIDE DEF sound
    <3>5. PICK q \in Places : /\ group[q] # NoId /\ disk[q] = group[q] /\ Original(q)
                              /\ q \notin requested \/ q \in held' \cup Refs
      BY <2>1, <2>2, <2>3, <2>5, <3>1, <3>4, DecisionKeeps
    <3>6. <<q, group[q]>> \in origs'
      BY <2>2, <3>5 DEF Original
    <3>7. QED
      BY <2>1, <2>2, <3>5, <3>6
  <2>6. QED
    BY <2>3, <2>4, <2>5
<1>6. ASSUME NEW p \in todo, Refuse(p) PROVE \E o \in origs' : Kept(o)'
  BY <1>6 DEF Refuse, OneKept
<1>7. ASSUME NEW p \in todo, Park(p) PROVE \E o \in origs' : Kept(o)'
  <2>1. PICK o \in origs : Kept(o)
    BY <1>7 DEF Park, OneKept
  <2>2. o[1] # p
    BY <1>7, <2>1 DEF Park, Movable, TypeOK
  <2>3. QED
    BY <1>0, <1>7, <2>1, <2>2 DEF Park, TypeOK
<1>8. ASSUME NEW p \in todo, NEW at \in Dest, Move(p, at) PROVE \E o \in origs' : Kept(o)'
  <2>1. PICK o \in origs : Kept(o)
    BY <1>8 DEF Move, OneKept
  <2>2. o[1] # p /\ o[1] # at
    BY <1>0, <1>8, <2>1 DEF Move, Movable, TypeOK
  <2>3. QED
    BY <1>0, <1>8, <2>1, <2>2 DEF Move, TypeOK
<1>9. ASSUME NEW p \in todo, NEW at \in Dest, KeepBoth(p, at) PROVE \E o \in origs' : Kept(o)'
  <2>1. PICK o \in origs : Kept(o)
    BY <1>9 DEF KeepBoth, OneKept
  <2>2. o[1] # at
    BY <1>0, <1>9, <2>1 DEF KeepBoth
  <2>3. disk'[o[1]] = disk[o[1]]
    BY <1>0, <1>9, <2>2 DEF KeepBoth, TypeOK
  <2>4. QED
    BY <1>9, <2>1, <2>3 DEF KeepBoth
<1>10. ASSUME NEW p \in todo, NEW at \in Dest, LeaveUnsettled(p, at) PROVE \E o \in origs' : Kept(o)'
  <2>1. PICK o \in origs : Kept(o)
    BY <1>10 DEF LeaveUnsettled, OneKept
  <2>2. o[1] # p
    BY <1>10, <2>1 DEF LeaveUnsettled, Movable, TypeOK
  <2>3. QED
    BY <1>10, <2>1, <2>2 DEF LeaveUnsettled
<1>11. ASSUME Finish PROVE \E o \in origs' : Kept(o)'
  <2> DEFINE left == {p \in Places : group[p] # NoId} \ gone
  <2>1. PICK o \in origs : Kept(o)
    BY <1>11 DEF Finish, OneKept
  <2>2. /\ group' = Pruned(group, left) /\ keepers' = keepers \cup SurvivorOf(group, left)
        /\ UNCHANGED <<disk, late, origs>> /\ gone' = {} /\ pc' = "idle"
    BY <1>11 DEF Finish
  <2>3. ASSUME group[o[1]] = o[2] PROVE group'[o[1]] = o[2] \/ o[1] \in keepers'
    <3>1. o[1] \in left
      BY <1>0, <2>1, <2>3
    <3>2. IsFiniteSet(left) /\ Cardinality(left) \in Nat /\ Cardinality(left) # 0
      <4>1. IsFiniteSet(left)
        BY PlacesFinite, FS_Subset
      <4>2. QED
        BY <3>1, <4>1, FS_CardinalityType, FS_EmptySet
    <3>3. CASE Cardinality(left) >= 2
      BY <1>0, <2>2, <2>3, <3>1, <3>3 DEF Pruned
    <3>4. CASE Cardinality(left) = 1
      BY <1>0, <2>2, <2>3, <3>1, <3>4 DEF SurvivorOf
    <3>5. QED
      BY <3>2, <3>3, <3>4
  <2>4. QED
    BY <2>1, <2>2, <2>3
<1>12. ASSUME NEW m \in late, LandLate(m) PROVE \E o \in origs' : Kept(o)'
  <2>1. PICK o \in origs : Kept(o)
    BY <1>12 DEF LandLate, OneKept
  <2>2. o[1] # m[1] /\ o[1] # m[2]
    BY <1>0, <1>12, <2>1 DEF LandLate
  <2>3. disk'[o[1]] = disk[o[1]]
    BY <1>0, <1>12, <2>2 DEF LandLate, TypeOK
  <2>4. QED
    BY <1>12, <2>1, <2>3 DEF LandLate
<1>13. ASSUME NEW m \in late, FailLate(m) PROVE \E o \in origs' : Kept(o)'
  BY <1>13 DEF FailLate, OneKept
<1>14. ASSUME NEW p \in Places, Delete(p) \/ Damage(p) PROVE \E o \in origs' : Kept(o)'
  <2>1. PICK o \in origs : Kept(o)
    BY <1>14 DEF Delete, Damage, Meddle, OneKept
  <2>2. origs' = origs /\ o[1] # p
    BY <1>14, <2>1 DEF Delete, Damage, Meddle
  <2>3. QED
    BY <1>0, <1>14, <2>1, <2>2 DEF Delete, Damage, Meddle, TypeOK
<1>15. ASSUME NEW p \in Places, NEW q \in Places, Rename(p, q) PROVE \E o \in origs' : Kept(o)'
  <2>1. PICK o \in origs : Kept(o)
    BY <1>15 DEF Rename, Meddle, OneKept
  <2>2. origs' = origs /\ o[1] # p /\ o[1] # q
    BY <1>15, <2>1 DEF Rename, Meddle
  <2>3. QED
    BY <1>0, <1>15, <2>1, <2>2 DEF Rename, Meddle, TypeOK
<1>16. ASSUME NEW f \in parked, NEW q \in Places, Unpark(f, q) PROVE \E o \in origs' : Kept(o)'
  <2>1. PICK o \in origs : Kept(o)
    BY <1>16 DEF Unpark, Meddle, OneKept
  <2>2. origs' = origs /\ o[1] # q
    BY <1>16, <2>1 DEF Unpark, Meddle
  <2>3. QED
    BY <1>0, <1>16, <2>1, <2>2 DEF Unpark, Meddle, TypeOK
<1>17. ASSUME UNCHANGED vars PROVE \E o \in origs' : Kept(o)'
  BY <1>17 DEF vars, OneKept
<1>18. QED
  BY <1>1, <1>2, <1>3, <1>4, <1>5, <1>6, <1>7, <1>8, <1>9, <1>10, <1>11, <1>12, <1>13,
     <1>14, <1>15, <1>16, <1>17 DEF Next, Scan, Batch, World

\* The reading of the copies that stay keeps an original it found sound, and no
\* later step takes that one, or damages it without voiding the promise.
LEMMA OneSoundKeptStep ==
  TypeOK /\ Sides /\ AnswerHolds /\ OneSoundKept /\ [Next]_vars => OneSoundKept'
<1> SUFFICES ASSUME TypeOK, Sides, AnswerHolds, OneSoundKept, [Next]_vars,
                    open' # "earlier", soundOrigs' # {}
             PROVE  \E o \in soundOrigs' : SoundKept(o)'
  BY DEF OneSoundKept
<1> USE IdsAssumption, PlacesAssumption
    DEF BatchUnchanged, Take, world, results, moveOut, request, vetted, landing,
        history, bounds, SoundKept, Stays
<1>0. \A o \in soundOrigs : o[1] \in Places /\ o[2] \in Ids
  BY DEF Sides
<1>1. ASSUME AbortDuplicates \/ \E scope \in Scopes : ScanDuplicates(scope) PROVE FALSE
  BY <1>1 DEF AbortDuplicates, ScanDuplicates
<1>2. ASSUME ScanTemp PROVE \E o \in soundOrigs' : SoundKept(o)'
  BY <1>2 DEF ScanTemp, CanScan, OneSoundKept
<1>3. ASSUME NEW t \in {"duplicates", "temp_files"}, NEW v \in BOOLEAN,
             NEW req \in SUBSET {p \in Places : group[p] # NoId \/ flat[p] # NoId}, Vet(t, v, req)
      PROVE  FALSE
  BY <1>3 DEF Vet
<1>4. ASSUME CheckStaying PROVE \E o \in soundOrigs' : SoundKept(o)'
  <2> DEFINE sound == {p \in Places : Sound(p)}
  <2>1. late = {} /\ exists \subseteq {p \in Places : group[p] # NoId}
    BY <1>4 DEF CheckStaying, Sides, AnswerHolds
  <2>2. /\ UNCHANGED <<disk, damaged, late, requested, keepers>>
        /\ held' = Held(VetWith(requested, exists, sound))
        /\ soundOrigs' = {<<p, disk[p]>> : p \in {q \in exists : Sound(q) /\ ~IsOut(q)}}
    BY <1>4 DEF CheckStaying
  <2>3. \E p \in exists \cap sound : p \in Places /\ group[p] # NoId /\ ~IsOut(p)
    BY <2>1, <2>2
  <2> HIDE DEF sound
  <2>4. PICK q \in exists \cap sound :
          /\ q \in Places /\ group[q] # NoId /\ ~IsOut(q)
          /\ q \notin requested \/ q \in Held(VetWith(requested, exists, sound)) \cup Refs
    BY <2>3, AnsweredKeeps
  <2>5. PICK o \in soundOrigs' : o = <<q, disk[q]>>
    BY <2>2, <2>4 DEF sound
  <2>6. o[1] = q /\ o[2] = disk'[q] /\ o[2] \notin damaged'
    BY <2>2, <2>4, <2>5 DEF sound, Sound
  <2>7. late' = {} /\ Stays(q)'
    BY <2>1, <2>2, <2>4
  <2>8. SoundKept(o)'
    BY <2>6, <2>7
  <2>9. QED
    BY <2>8
<1>5. ASSUME NEW p \in todo, Refuse(p) PROVE \E o \in soundOrigs' : SoundKept(o)'
  BY <1>5 DEF Refuse, OneSoundKept
<1>6. ASSUME NEW p \in todo, Park(p) PROVE \E o \in soundOrigs' : SoundKept(o)'
  <2>1. PICK o \in soundOrigs : SoundKept(o)
    BY <1>6 DEF Park, OneSoundKept
  <2>2. o[1] # p
    BY <1>6, <2>1 DEF Park, Movable, TypeOK
  <2>3. QED
    BY <1>0, <1>6, <2>1, <2>2 DEF Park, TypeOK
<1>7. ASSUME NEW p \in todo, NEW at \in Dest, Move(p, at) PROVE \E o \in soundOrigs' : SoundKept(o)'
  <2>1. PICK o \in soundOrigs : SoundKept(o)
    BY <1>7 DEF Move, OneSoundKept
  <2>2. o[1] # p /\ o[1] # at
    BY <1>0, <1>7, <2>1 DEF Move, Movable, TypeOK
  <2>3. o[2] # disk[p]
    BY <1>0, <1>7, <2>1, <2>2 DEF Move, Movable, TypeOK
  <2>4. QED
    BY <1>0, <1>7, <2>1, <2>2, <2>3 DEF Move, TypeOK
<1>8. ASSUME NEW p \in todo, NEW at \in Dest, KeepBoth(p, at) PROVE \E o \in soundOrigs' : SoundKept(o)'
  <2>1. PICK o \in soundOrigs : SoundKept(o)
    BY <1>8 DEF KeepBoth, OneSoundKept
  <2>2. o[1] # at
    BY <1>0, <1>8, <2>1 DEF KeepBoth
  <2>3. disk'[o[1]] = disk[o[1]]
    BY <1>0, <1>8, <2>2 DEF KeepBoth, TypeOK
  <2>4. QED
    BY <1>8, <2>1, <2>3 DEF KeepBoth
<1>9. ASSUME NEW p \in todo, NEW at \in Dest, LeaveUnsettled(p, at)
      PROVE  \E o \in soundOrigs' : SoundKept(o)'
  <2>1. PICK o \in soundOrigs : SoundKept(o)
    BY <1>9 DEF LeaveUnsettled, OneSoundKept
  <2>2. o[1] # p
    BY <1>9, <2>1 DEF LeaveUnsettled, Movable, TypeOK
  <2>3. QED
    BY <1>9, <2>1, <2>2 DEF LeaveUnsettled
<1>10. ASSUME Finish PROVE \E o \in soundOrigs' : SoundKept(o)'
  BY <1>10 DEF Finish, OneSoundKept
<1>11. ASSUME NEW m \in late, LandLate(m) PROVE \E o \in soundOrigs' : SoundKept(o)'
  <2>1. PICK o \in soundOrigs : SoundKept(o)
    BY <1>11 DEF LandLate, OneSoundKept
  <2>2. o[1] # m[1] /\ o[1] # m[2]
    BY <1>0, <1>11, <2>1 DEF LandLate
  <2>3. disk'[o[1]] = disk[o[1]]
    BY <1>0, <1>11, <2>2 DEF LandLate, TypeOK
  <2>4. QED
    BY <1>11, <2>1, <2>3 DEF LandLate
<1>12. ASSUME NEW m \in late, FailLate(m) PROVE \E o \in soundOrigs' : SoundKept(o)'
  BY <1>12 DEF FailLate, OneSoundKept
<1>13. ASSUME NEW p \in Places, Delete(p) \/ Damage(p) PROVE \E o \in soundOrigs' : SoundKept(o)'
  <2>1. PICK o \in soundOrigs : SoundKept(o)
    BY <1>13 DEF Delete, Damage, Meddle, OneSoundKept
  <2>2. soundOrigs' = soundOrigs /\ o[1] # p
    BY <1>13, <2>1 DEF Delete, Damage, Meddle
  <2>3. QED
    BY <1>0, <1>13, <2>1, <2>2 DEF Delete, Damage, Meddle, TypeOK
<1>14. ASSUME NEW p \in Places, NEW q \in Places, Rename(p, q) PROVE \E o \in soundOrigs' : SoundKept(o)'
  <2>1. PICK o \in soundOrigs : SoundKept(o)
    BY <1>14 DEF Rename, Meddle, OneSoundKept
  <2>2. soundOrigs' = soundOrigs /\ o[1] # p /\ o[1] # q
    BY <1>14, <2>1 DEF Rename, Meddle
  <2>3. QED
    BY <1>0, <1>14, <2>1, <2>2 DEF Rename, Meddle, TypeOK
<1>15. ASSUME NEW f \in parked, NEW q \in Places, Unpark(f, q) PROVE \E o \in soundOrigs' : SoundKept(o)'
  <2>1. PICK o \in soundOrigs : SoundKept(o)
    BY <1>15 DEF Unpark, Meddle, OneSoundKept
  <2>2. soundOrigs' = soundOrigs /\ o[1] # q
    BY <1>15, <2>1 DEF Unpark, Meddle
  <2>3. QED
    BY <1>0, <1>15, <2>1, <2>2 DEF Unpark, Meddle, TypeOK
<1>16. ASSUME UNCHANGED vars PROVE \E o \in soundOrigs' : SoundKept(o)'
  BY <1>16 DEF vars, OneSoundKept
<1>17. QED
  BY <1>1, <1>2, <1>3, <1>4, <1>5, <1>6, <1>7, <1>8, <1>9, <1>10, <1>11, <1>12, <1>13,
     <1>14, <1>15, <1>16 DEF Next, Scan, Batch, World

(***************************************************************************)
(* The theorems.                                                            *)
(***************************************************************************)

\* The invariant holds of every state that is reached.
LEMMA BatchInvHolds == Spec => []BatchInv
<1>1. Init => BatchInv
  BY InitInv
<1>2. BatchInv /\ [Next]_vars => BatchInv'
  BY TypeStep, SidesStep, RowsStandStep, RowsToldStep, AnswerHoldsStep, OneKeptStep,
     OneSoundKeptStep DEF BatchInv
<1>3. QED
  BY <1>1, <1>2, PTL DEF Spec

\* The types: no file ever stands at two places, no published group is left
\* with a single row, and a batch holds back one file at the most.
THEOREM BatchTypes == Spec => []TypeOK
<1>1. BatchInv => TypeOK
  BY DEF BatchInv
<1>2. QED
  BY <1>1, BatchInvHolds, PTL

\* handleMove never moves the last of the originals of a published group, over
\* any number of batches of either tool, as long as no batch was left with an
\* answer outstanding or had to decide without one over rows that had changed.
THEOREM OriginalNeverLost == Spec => []OriginalStays
<1>1. BatchInv => OriginalStays
  BY DEF BatchInv, OneKept, Kept, OriginalStays
<1>2. QED
  BY <1>1, BatchInvHolds, PTL

\* A verified batch never leaves only damaged copies where it read a sound one.
THEOREM SoundOriginalNeverLost == Spec => []SoundOriginalStays
<1>1. BatchInv => SoundOriginalStays
  BY DEF BatchInv, OneSoundKept, SoundKept, SoundOriginalStays
<1>2. QED
  BY <1>1, BatchInvHolds, PTL

\* The prune of a batch leaves no stored row over a place the batch emptied.
THEOREM RowsAlwaysStand == Spec => []NoPhantomRow
<1>1. BatchInv => NoPhantomRow
  BY DEF BatchInv, Sides, RowsStand, NoPhantomRow
<1>2. QED
  BY <1>1, BatchInvHolds, PTL

\* The record of moved copies follows every copy the app moved, wherever its
\* user takes it, short of a place a move took a file from.
THEOREM MovedCopiesAlwaysKnown == Spec => []MovedCopiesKnown
<1>1. BatchInv => MovedCopiesKnown
  BY DEF BatchInv, Sides, MovedCopiesKnown, IsOut
<1>2. QED
  BY <1>1, BatchInvHolds, PTL
=============================================================================
