--------------------------- MODULE AdmissionProofs ---------------------------
(***************************************************************************)
(* Proofs about Admission for any number of requests, scans and restarts:   *)
(* type correctness, the two invariants the runs check, and that scans and  *)
(* moves exclude each other, as the refinement of TreeExclusion.            *)
(***************************************************************************)
EXTENDS Admission, TLAPS

\* Whoever is at work is exactly who holds the job slot, the lock or the claim,
\* and a claim and a running scan never stand together.
Holders ==
  /\ \A s \in Scans : ScanAtWork(s) <=> job = s
  /\ \A r \in Requests :
       moveMu = r <=> rqPc[r] \in {"locked", "vet", "move", "save", "end", "unlock"}
  /\ moveActive <=> \E r \in Requests : MoveAtWork(r)
  /\ ~(Running /\ moveActive)

\* A scan that has not come to its marker has none on disk.
Unmarked == \A s \in Scans : scanPc[s] \in {"none", "start"} => s \notin marked

\* The strengthening: the invariants the runs check are inductive with Holders
\* and Unmarked.
AdmissionInv ==
  /\ TypeOK
  /\ Holders
  /\ Unmarked
  /\ VettedResultsStand
  /\ MarkerStaysForItsScan

\* No scan is a request, and none is neither.
LEMMA NoneFacts == None \notin Scans /\ Scans \cap Requests = {} /\ NoReq \notin Requests
  BY RequestsAssumption, BoundsAssumption DEF None, Scans

\* Admission starts with nothing at work and the invariant true.
LEMMA InitInv == Init => AdmissionInv
<1> SUFFICES ASSUME Init PROVE AdmissionInv
  OBVIOUS
<1>1. TypeOK
  <2>1. crashes \in 0..MaxCrashes
    BY BoundsAssumption DEF Init
  <2>2. rqPc \in [Requests -> {"idle", "dest", "locked", "vet", "move", "save", "end",
                               "unlock", "saverefs"}]
    BY DEF Init
  <2>3. scanPc \in [Scans -> {"none", "start", "run", "ending", "clear", "release", "done"}]
    BY DEF Init
  <2>4. QED
    BY <2>1, <2>2, <2>3 DEF Init, TypeOK
<1>2. Holders
  BY NoneFacts DEF Init, Holders, Running, ScanAtWork, MoveAtWork
<1>3. Unmarked /\ VettedResultsStand /\ MarkerStaysForItsScan
  BY DEF Init, Unmarked, VettedResultsStand, MarkerStaysForItsScan
<1>4. QED
  BY <1>1, <1>2, <1>3 DEF AdmissionInv

\* A scan that lets go of the job slot, saved or not, leaves the invariant true.
LEMMA ScanEnds ==
  ASSUME AdmissionInv, NEW s \in Scans, scanPc[s] \in {"ending", "release"},
         scanPc' = [scanPc EXCEPT ![s] = "done"], job' = None, stoppable' = FALSE,
         UNCHANGED <<moveMu, moveActive, stored, disk, published, cancelled, interrupted,
                     rq, crashes>>
  PROVE  AdmissionInv'
<1> USE DEF AdmissionInv, disk, rq
<1>1. scanPc \in [Scans -> {"none", "start", "run", "ending", "clear", "release", "done"}]
  BY DEF TypeOK
<1>2. TypeOK'
  <2>1. scanPc' \in [Scans -> {"none", "start", "run", "ending", "clear", "release", "done"}]
    BY <1>1
  <2>2. QED
    BY <2>1 DEF TypeOK
<1>3. scanPc'[s] = "done" /\ \A t \in Scans \ {s} : scanPc'[t] = scanPc[t]
  BY <1>1
<1>4. Holders'
  <2>1. job = s
    BY DEF Holders, ScanAtWork
  <2>2. \A t \in Scans : ~ScanAtWork(t)'
    BY <1>3, <2>1 DEF Holders, ScanAtWork
  <2>3. QED
    BY <2>2, NoneFacts DEF Holders, Running, ScanAtWork, MoveAtWork
<1>5. Unmarked' /\ VettedResultsStand' /\ MarkerStaysForItsScan'
  BY <1>3 DEF Unmarked, VettedResultsStand, MarkerStaysForItsScan
<1>6. QED
  BY <1>2, <1>4, <1>5

\* Every step of a scan, of a request, of the user and of a crash keeps it.
LEMMA StepInv == AdmissionInv /\ [Next]_vars => AdmissionInv'
<1> SUFFICES ASSUME AdmissionInv, [Next]_vars PROVE AdmissionInv'
  OBVIOUS
<1> USE NoneFacts, BoundsAssumption
    DEF AdmissionInv, Holders, Unmarked, TypeOK, VettedResultsStand, MarkerStaysForItsScan,
        Running, ScanAtWork, MoveAtWork, ScanStep, RqStep, server, disk, scan, rq
<1>1. ASSUME NEW s \in Scans, StartScan(s) PROVE AdmissionInv'
  BY <1>1 DEF StartScan, ScanAdmitted
<1>2. ASSUME NEW s \in Scans, WriteMarker(s) PROVE AdmissionInv'
  <2>1. /\ scanPc' = [scanPc EXCEPT ![s] = "run"] /\ scanPc[s] = "start"
        /\ UNCHANGED <<server, unsaved, cancelled, published, rq, crashes>>
    BY <1>2 DEF WriteMarker
  <2>2. \/ marker' = s /\ marked' = marked \cup {s}
        \/ UNCHANGED <<marker, marked>>
    BY <1>2 DEF WriteMarker
  <2>3. TypeOK' /\ Holders' /\ Unmarked' /\ VettedResultsStand'
    BY <2>1, <2>2
  <2>4. MarkerStaysForItsScan'
    BY <2>1, <2>2
  <2>5. QED
    BY <2>3, <2>4
<1>3. ASSUME NEW s \in Scans, Publish(s) PROVE AdmissionInv'
  BY <1>3 DEF Publish
<1>2a. ASSUME NEW s \in Scans, RewriteMarker(s) PROVE AdmissionInv'
  <2>1. TypeOK' /\ Holders' /\ Unmarked' /\ VettedResultsStand'
    BY <1>2a DEF RewriteMarker
  <2>2. MarkerStaysForItsScan'
    BY <1>2a DEF RewriteMarker
  <2>3. QED
    BY <2>1, <2>2
<1>4. ASSUME NEW s \in Scans, LeaveRun(s) PROVE AdmissionInv'
  BY <1>4 DEF LeaveRun
<1>5. ASSUME NEW s \in Scans, SaveScan(s) PROVE AdmissionInv'
  <2>1. CASE scanPc' = [scanPc EXCEPT ![s] = "clear"]
    BY <1>5, <2>1 DEF SaveScan
  <2>2. CASE scanPc[s] = "ending" /\ scanPc' = [scanPc EXCEPT ![s] = "done"] /\ job' = None
    <3>1. stoppable' = FALSE /\ UNCHANGED <<moveMu, moveActive, stored, disk, published, cancelled,
                                           interrupted, rq, crashes>>
      BY <1>5, <2>2 DEF SaveScan
    <3>2. QED
      BY <2>2, <3>1, ScanEnds
  <2>3. QED
    BY <1>5, <2>1, <2>2 DEF SaveScan
<1>6. ASSUME NEW s \in Scans, ClearMarker(s) PROVE AdmissionInv'
  BY <1>6 DEF ClearMarker
<1>7. ASSUME NEW s \in Scans, ReleaseJob(s) PROVE AdmissionInv'
  <2>1. /\ scanPc[s] = "release" /\ scanPc' = [scanPc EXCEPT ![s] = "done"]
        /\ job' = None /\ stoppable' = FALSE
        /\ UNCHANGED <<moveMu, moveActive, stored, disk, published, cancelled, interrupted,
                      rq, crashes>>
    BY <1>7 DEF ReleaseJob
  <2>2. QED
    BY <2>1, ScanEnds
<1>8. ASSUME NEW r \in Requests, CheapCheck(r) PROVE AdmissionInv'
  BY <1>8 DEF CheapCheck
<1>9. ASSUME NEW r \in Requests, RefuseDest(r) PROVE AdmissionInv'
  BY <1>9 DEF RefuseDest
<1>10. ASSUME NEW r \in Requests, TryLock(r) PROVE AdmissionInv'
  BY <1>10 DEF TryLock
<1>11. ASSUME NEW r \in Requests, BeginMove(r) PROVE AdmissionInv'
  <2>1. CASE Running
    BY <1>11, <2>1 DEF BeginMove
  <2>2. CASE ~Running
    <3>1. rqPc' = [rqPc EXCEPT ![r] = "vet"] /\ moveActive' = TRUE /\ rqPc[r] = "locked"
      BY <1>11, <2>2 DEF BeginMove
    <3>2. UNCHANGED <<job, stoppable, moveMu, stored, interrupted, disk, scan, saw, crashes>>
      BY <1>11 DEF BeginMove
    <3>3. TypeOK' /\ Unmarked' /\ VettedResultsStand' /\ MarkerStaysForItsScan'
      BY <3>1, <3>2
    <3>4. Holders'
      BY <2>2, <3>1, <3>2
    <3>5. QED
      BY <3>3, <3>4
  <2>3. QED
    BY <2>1, <2>2
<1>12. ASSUME NEW r \in Requests, Vet(r) PROVE AdmissionInv'
  BY <1>12 DEF Vet
<1>13. ASSUME NEW r \in Requests, AbortMove(r) PROVE AdmissionInv'
  BY <1>13 DEF AbortMove
<1>14. ASSUME NEW r \in Requests, MoveFiles(r) PROVE AdmissionInv'
  BY <1>14 DEF MoveFiles
<1>15. ASSUME NEW r \in Requests, SaveMove(r) PROVE AdmissionInv'
  BY <1>15 DEF SaveMove
<1>16. ASSUME NEW r \in Requests, EndMove(r) PROVE AdmissionInv'
  BY <1>16 DEF EndMove
<1>17. ASSUME NEW r \in Requests, Unlock(r) PROVE AdmissionInv'
  BY <1>17 DEF Unlock
<1>18. ASSUME NEW r \in Requests, SetRefs(r) PROVE AdmissionInv'
  BY <1>18 DEF SetRefs
<1>19. ASSUME NEW r \in Requests, SaveRefs(r) PROVE AdmissionInv'
  BY <1>19 DEF SaveRefs
<1>20. CASE Cancel
  BY <1>20 DEF Cancel
<1>21. CASE Restart
  <2>1. /\ job' = None /\ moveMu' = NoReq /\ moveActive' = FALSE
        /\ \A s \in Scans : scanPc'[s] \in {"none", "done"}
        /\ \A r \in Requests : rqPc'[r] = "idle"
    BY <1>21 DEF Restart
  <2>2. crashes' \in 0..MaxCrashes
    BY <1>21 DEF Restart
  <2>3. TypeOK'
    BY <1>21, <2>2 DEF Restart
  <2>4. Holders' /\ VettedResultsStand' /\ MarkerStaysForItsScan'
    BY <2>1
  <2>5. Unmarked'
    BY <1>21 DEF Restart
  <2>6. QED
    BY <2>3, <2>4, <2>5
<1>22. CASE UNCHANGED vars
  BY <1>22 DEF vars
<1>23. QED
  BY <1>1, <1>2, <1>3, <1>4, <1>5, <1>6, <1>7, <1>8, <1>9, <1>10, <1>11, <1>12, <1>13,
     <1>14, <1>15, <1>16, <1>17, <1>18, <1>19, <1>20, <1>21, <1>22, <1>2a
  DEF Next, ScanWork, RequestWork

\* The invariant of Admission, for any number of requests, scans and restarts.
THEOREM AdmissionInvariant == Spec => []AdmissionInv
  BY InitInv, StepInv, PTL DEF Spec

\* Every slot, lock and marker always names something that may stand there.
THEOREM TypeCorrect == Spec => []TypeOK
<1>1. AdmissionInv => TypeOK
  BY DEF AdmissionInv
<1>2. QED
  BY <1>1, AdmissionInvariant, PTL

\* No scan publishes under a batch: what newMoveVet read is what pruneMoved
\* still finds, however many requests, scans and restarts there are.
THEOREM VettingStands == Spec => []VettedResultsStand
<1>1. AdmissionInv => VettedResultsStand
  BY DEF AdmissionInv
<1>2. QED
  BY <1>1, AdmissionInvariant, PTL

\* No scan loses the marker it wrote to the ending of another one.
THEOREM MarkerStays == Spec => []MarkerStaysForItsScan
<1>1. AdmissionInv => MarkerStaysForItsScan
  BY DEF AdmissionInv
<1>2. QED
  BY <1>1, AdmissionInvariant, PTL

\* When the two flags are down nothing is at work.
LEMMA FlagsDown == AdmissionInv /\ ~Running /\ ~moveActive => AtWork = {}
  BY NoneFacts DEF AdmissionInv, Holders, AtWork, Running

\* A step that leaves every worker where it was, at work or not, is a stutter of
\* TreeExclusion.
LEMMA SameWork ==
  ASSUME \A s \in Scans : ScanAtWork(s)' <=> ScanAtWork(s),
         \A r \in Requests : MoveAtWork(r)' <=> MoveAtWork(r)
  PROVE  AtWork' = AtWork
  BY DEF AtWork

\* Every step of Admission is an admission, an end or a restart of
\* TreeExclusion, or changes nothing it can see.
LEMMA StepExcludes == AdmissionInv /\ [Next]_vars => [Exclusion!Next]_AtWork
<1> SUFFICES ASSUME AdmissionInv, [Next]_vars PROVE [Exclusion!Next]_AtWork
  OBVIOUS
<1>t. TypeOK
  BY DEF AdmissionInv
<1> USE NoneFacts
<1>1. ASSUME NEW s \in Scans, StartScan(s) PROVE Exclusion!Begin(s)
  <2>1. AtWork = {}
    BY <1>1, FlagsDown DEF StartScan, ScanAdmitted
  <2>2. /\ scanPc' = [scanPc EXCEPT ![s] = "start"]
        /\ rqPc' = rqPc
    BY <1>1 DEF StartScan, ScanStep, rq
  <2>3. AtWork' = {s}
    BY <1>t, <2>1, <2>2 DEF AtWork, ScanAtWork, MoveAtWork, TypeOK
  <2>4. QED
    BY <2>1, <2>3 DEF Exclusion!Begin
<1>2. ASSUME NEW r \in Requests, BeginMove(r), ~Running PROVE Exclusion!Begin(r)
  <2>1. rqPc[r] = "locked" /\ rqPc' = [rqPc EXCEPT ![r] = "vet"] /\ scanPc' = scanPc
    BY <1>2 DEF BeginMove, RqStep, scan
  <2>2. ~moveActive
    BY <1>t, <2>1 DEF AdmissionInv, Holders, MoveAtWork, TypeOK
  <2>3. AtWork = {}
    BY <1>2, <2>2, FlagsDown
  <2>4. AtWork' = {r}
    BY <1>t, <2>1, <2>3 DEF AtWork, ScanAtWork, MoveAtWork, TypeOK
  <2>5. QED
    BY <2>3, <2>4 DEF Exclusion!Begin
<1>3. ASSUME NEW s \in Scans, scanPc[s] \in {"ending", "release"},
             scanPc' = [scanPc EXCEPT ![s] = "done"], rqPc' = rqPc
      PROVE  Exclusion!End(s)
  BY <1>t, <1>3 DEF Exclusion!End, AtWork, ScanAtWork, MoveAtWork, TypeOK
<1>4. ASSUME NEW r \in Requests, EndMove(r) PROVE Exclusion!End(r)
  <2>1. rqPc[r] = "end" /\ rqPc' = [rqPc EXCEPT ![r] = "unlock"] /\ scanPc' = scanPc
    BY <1>4 DEF EndMove, RqStep, scan
  <2>2. QED
    BY <1>t, <2>1 DEF Exclusion!End, AtWork, ScanAtWork, MoveAtWork, TypeOK
<1>5. ASSUME Restart PROVE Exclusion!Restart
  <2>1. /\ \A s \in Scans : scanPc'[s] \in {"none", "done"}
        /\ \A r \in Requests : rqPc'[r] = "idle"
    BY <1>5 DEF Restart
  <2>2. QED
    BY <2>1 DEF Exclusion!Restart, AtWork, ScanAtWork, MoveAtWork
<1> DEFINE Stays == /\ \A s \in Scans : ScanAtWork(s)' <=> ScanAtWork(s)
                    /\ \A r \in Requests : MoveAtWork(r)' <=> MoveAtWork(r)
<1> USE <1>t DEF ScanAtWork, MoveAtWork, TypeOK, ScanStep, RqStep, server, disk, scan, rq
<1>6. ASSUME NEW s \in Scans, \/ WriteMarker(s) \/ RewriteMarker(s) \/ Publish(s)
                              \/ LeaveRun(s) \/ ClearMarker(s)
      PROVE  Stays
  BY <1>6 DEF WriteMarker, RewriteMarker, Publish, LeaveRun, ClearMarker
<1>7. ASSUME NEW s \in Scans, SaveScan(s), scanPc'[s] # "done" PROVE Stays
  BY <1>7 DEF SaveScan
<1>8. ASSUME NEW r \in Requests,
             CheapCheck(r) \/ RefuseDest(r) \/ TryLock(r) \/ Unlock(r) \/ SetRefs(r) \/ SaveRefs(r)
      PROVE  Stays
  BY <1>8 DEF CheapCheck, RefuseDest, TryLock, Unlock, SetRefs, SaveRefs
<1>9. ASSUME NEW r \in Requests, Vet(r) \/ AbortMove(r) \/ MoveFiles(r) \/ SaveMove(r)
      PROVE  Stays
  BY <1>9 DEF Vet, AbortMove, MoveFiles, SaveMove
<1>10. ASSUME NEW r \in Requests, BeginMove(r), Running PROVE Stays
  BY <1>10 DEF BeginMove
<1>11. ASSUME Cancel \/ UNCHANGED vars PROVE Stays
  BY <1>11 DEF Cancel, vars
<1> HIDE DEF ScanAtWork, MoveAtWork, TypeOK
<1>12. Stays => AtWork' = AtWork
  BY SameWork
<1>13. ASSUME NEW s \in Scans, SaveScan(s), scanPc'[s] = "done" PROVE Exclusion!End(s)
  BY <1>3, <1>13 DEF SaveScan, TypeOK
<1>14. ASSUME NEW s \in Scans, ReleaseJob(s) PROVE Exclusion!End(s)
  BY <1>3, <1>14 DEF ReleaseJob
<1> HIDE DEF Stays
<1>15. ASSUME NEW s \in Scans, StartScan(s) \/ ScanWork(s) PROVE Exclusion!Next \/ AtWork' = AtWork
  BY <1>1, <1>6, <1>7, <1>12, <1>13, <1>14, <1>15 DEF ScanWork, Exclusion!Next
<1>16. ASSUME NEW r \in Requests, CheapCheck(r) \/ SetRefs(r) \/ RequestWork(r)
       PROVE  Exclusion!Next \/ AtWork' = AtWork
  BY <1>2, <1>4, <1>8, <1>9, <1>10, <1>12, <1>16 DEF RequestWork, Exclusion!Next
<1>17. QED
  BY <1>5, <1>11, <1>12, <1>15, <1>16 DEF Next, Exclusion!Next

\* The job slot, moveMu and moveActive implement the one-user promise.
THEOREM OneUser == Spec => OneUserOfTheTree
<1>1. Init => Exclusion!Init
  BY DEF Init, Exclusion!Init, AtWork, ScanAtWork, MoveAtWork
<1>2. QED
  BY <1>1, StepExcludes, AdmissionInvariant, PTL DEF Spec, OneUserOfTheTree, Exclusion!Spec
=============================================================================
