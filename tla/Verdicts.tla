------------------------------- MODULE Verdicts -------------------------------
(***************************************************************************)
(* The verdicts on one set of conflicting files (corrupt.go, judgeSet and  *)
(* below): files of one size and one modified time whose contents differ.  *)
(*                                                                         *)
(* A content is a sequence of cells [kind, of]: "data" as it was written,  *)
(* a "flip" of a bit of it, a run of "zero"s, or an "edit" of many bytes;  *)
(* "of" tells the flips and the edits of different files apart.            *)
(*                                                                         *)
(* A set c is a record of functions over its files: err, the read error or *)
(* "ok"; hash, the content that was read; prior, the content the file had  *)
(* in an earlier scan at the same time, or NoHash; stands, whether the     *)
(* walk's size and time are still on disk; now, the content at the         *)
(* judgement; open, whether it can be read then; and checks, whether the   *)
(* format carries checksums.                                               *)
(***************************************************************************)
EXTENDS HashStore, FiniteSetsExt

Cell == [kind : {"data", "flip", "zero", "edit"}, of : {0} \cup Paths]

\* A row: its verdict and the rung that gave it, "none" before one has.
Blank == [v |-> "none", by |-> "none", note |-> FALSE, hist |-> FALSE]
Finding(v, by, hist) == [v |-> v, by |-> by, note |-> TRUE, hist |-> hist]

-----------------------------------------------------------------------------
(* The evidence of the contents themselves (media.VerifyContent and        *)
(* media.CompareContent).  The format is known by the first bytes, which   *)
(* are gone when the first cell is zero.                                   *)

Damage(a) == \E i \in DOMAIN a : a[i].kind \in {"flip", "zero"}

Verify(c, f) ==
  IF ~c.open[f] \/ ~c.checks \/ c.now[f][1].kind = "zero" THEN "unproven"
  ELSE IF Damage(c.now[f]) THEN "damaged" ELSE "proven"

Differing(a, b) == {i \in DOMAIN a : a[i] # b[i]}
Flips(a, D) == Cardinality({i \in D : a[i].kind = "flip"})

\* Two bits differ at most: every difference is a flip of the same data.
FewBits(a, b, D) ==
  /\ \A i \in D : {a[i].kind, b[i].kind} \in {{"data", "flip"}, {"flip"}}
  /\ Flips(a, D) + Flips(b, D) <= 2
Zeroed(a, D) == \A i \in D : a[i].kind = "zero"

\* The shape of the difference, as seen from a.
Compare(a, b) ==
  LET D == Differing(a, b)
  IN  IF D = {} THEN "none"
      ELSE IF FewBits(a, b, D) THEN "bitflip"
      ELSE IF Zeroed(a, D) /\ ~Zeroed(b, D) THEN "lost"
      ELSE IF Zeroed(b, D) /\ ~Zeroed(a, D) THEN "kept"
      ELSE "mixed"

Shape(c, i, j) == IF c.open[i] /\ c.open[j] THEN Compare(c.now[i], c.now[j]) ELSE "none"

-----------------------------------------------------------------------------
AnyCorrupt(w) == \E i \in DOMAIN w : w[i].v = "corrupt"

\* judgeWithTwins: the row of i, and of every file of the same bytes that
\* has no verdict yet.
Alone(c, w, i, row) == IF w[i].v = "none" THEN [w EXCEPT ![i] = row] ELSE w

WithTwins(c, w, i, row) ==
  [j \in DOMAIN w |->
     IF w[j].v = "none" /\ (j = i \/ (c.err[j] = "ok" /\ c.hash[j] = c.hash[i])) THEN row ELSE w[j]]

\* judgePast: i changed under its time, j holds what i held before.
JudgePast(c, w, i, j) ==
  CASE Shape(c, i, j) \in {"lost", "bitflip"} ->
         WithTwins(c, WithTwins(c, w, i, Finding("corrupt", "past", TRUE)),
                   j, Finding("intact", "past", FALSE))
    [] Shape(c, i, j) \in {"kept", "mixed"} -> WithTwins(c, w, i, Finding("none", "past", TRUE))
    [] OTHER -> w

\* As judgeShape, but a flip is blamed on the first of the two files.
JudgeShapeFirst(c, w, a, b, changed) ==
  CASE Shape(c, a, b) = "lost" \/ Shape(c, a, b) = "bitflip" ->
         WithTwins(c, w, a, Finding("corrupt", "shape", FALSE))
    [] Shape(c, a, b) = "kept" -> WithTwins(c, w, b, Finding("corrupt", "shape", FALSE))
    [] OTHER -> w

\* judgeShape: a and b are the two contents of the set.
JudgeShape(c, w, a, b, changed) ==
  LET lost(x, y) == WithTwins(c, WithTwins(c, w, x, Finding("corrupt", "shape", FALSE)),
                              y, Finding("intact", "shape", FALSE))
      former(x, y) == c.prior[x] # NoHash /\ c.hash[y] = c.prior[x]
      rotted(x, y) == WithTwins(c, WithTwins(c, w, x, Finding("corrupt", "shape", TRUE)),
                                y, Finding(IF former(x, y) THEN "intact" ELSE "none", "shape", FALSE))
      noted(H) == WithTwins(c, WithTwins(c, w, a, Finding("none", "shape", a \in H)),
                            b, Finding("none", "shape", b \in H))
  IN  CASE Shape(c, a, b) = "lost" -> lost(a, b)
        [] Shape(c, a, b) = "kept" -> lost(b, a)
        [] Shape(c, a, b) = "bitflip" ->
             IF a \in changed /\ b \notin changed THEN rotted(a, b)
             ELSE IF b \in changed /\ a \notin changed THEN rotted(b, a)
             ELSE noted({})
        [] Shape(c, a, b) = "mixed" -> noted(changed)
        [] OTHER -> w

\* The files of the set whose change counts as evidence: the time it is
\* held against must still be on disk.
ChangedAnyhow(c) == {f \in DOMAIN c.hash : c.err[f] = "ok" /\ c.flag[f]}
Changed(c) == {f \in DOMAIN c.hash : c.err[f] = "ok" /\ c.flag[f] /\ c.stands[f]}

\* Rung 1: the read failed.
Unread(c) ==
  [f \in DOMAIN c.hash |->
     CASE c.err[f] = "eio" -> Finding("corrupt", "read", FALSE)
       [] c.err[f] = "denied" -> Finding("unknown", "read", FALSE)
       [] OTHER -> Blank]

\* Rung 3: the file's own checksums, for a file that is not being saved.
OwnChecks(c, w, changed) ==
  [f \in DOMAIN w |->
     IF c.err[f] # "ok" \/ Verify(c, f) # "damaged" \/ w[f].v # "none" THEN w[f]
     ELSE IF c.stands[f] THEN Finding("corrupt", "checks", f \in changed)
     ELSE Finding("unknown", "checks", FALSE)]

\* Rung 4, against the past: every changed file, in path order, with the
\* first sibling that holds what it held.
Against(c, i) == {j \in DOMAIN c.hash \ {i} : c.err[j] = "ok" /\ c.hash[j] = c.prior[i]}

\* What judging the changed file i against its past makes of the rows u.
PastStep(c, u, i) ==
  IF u[i].v # "none" \/ c.prior[i] = NoHash \/ Against(c, i) = {} THEN u
  ELSE JudgePast(c, u, i, Min(Against(c, i)))

Past(c, w, changed) ==
  LET after[S \in SUBSET changed] ==
        IF S = {} THEN w ELSE PastStep(c, after[S \ {Max(S)}], Max(S))
  IN  IF AnyCorrupt(w) THEN w ELSE after[changed]

\* Rung 4, the two contents of the set against each other.
Read(c) == {f \in DOMAIN c.hash : c.err[f] = "ok" /\ c.hash[f] # NoHash}
Variants(c) ==
  Cardinality({c.hash[f] : f \in Read(c)}) + Cardinality({f \in DOMAIN c.hash : c.err[f] # "ok"})

Present(c, w, changed) ==
  LET a == Min(Read(c))
      others == {f \in Read(c) : c.hash[f] # c.hash[a]}
      b == Min(others)
  IN  IF AnyCorrupt(w) \/ Variants(c) # 2 \/ Read(c) = {} \/ others = {} THEN w
      ELSE IF w[a].note \/ w[b].note THEN w
      ELSE JudgeShape(c, w, a, b, changed)

\* What nothing corroborated, and what a damaged sibling corroborates.
Rest(c, w, changed) ==
  [f \in DOMAIN c.hash |->
     IF w[f].v # "none" THEN w[f]
     ELSE IF f \in changed /\ ~w[f].note THEN Finding("unknown", "history", TRUE)
     ELSE IF f \in changed THEN [w[f] EXCEPT !.v = "unknown"]
     ELSE IF AnyCorrupt(w) /\ c.err[f] = "ok" /\ Verify(c, f) = "proven"
     THEN [w[f] EXCEPT !.v = "intact", !.note = TRUE]
     ELSE [w[f] EXCEPT !.v = "unknown"]]

JudgeSet(c) ==
  LET changed == Changed(c)
      checked == OwnChecks(c, Unread(c), changed)
  IN  Rest(c, Present(c, Past(c, checked, changed), changed), changed)
=============================================================================
