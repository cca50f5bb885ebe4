------------------------------ MODULE FileMove ------------------------------
(***************************************************************************)
(* What moving one file promises, whatever route it takes: at every moment  *)
(* the file is somewhere, and what the user is told of it fits where it is  *)
(* when it is told.  The weaker outcomes lean on File Station's answers, so *)
(* each holds up to a number of answers that never came or misled; Transfer *)
(* implements this (transit.go:167-185, fsapi.go:756-773).                  *)
(***************************************************************************)
EXTENDS Naturals

VARIABLES
  held,   \* the kinds of places that hold the file
  told,   \* the outcome the caller was given
  doubt   \* how many answers were lost or misled

Kinds == {"source", "hidden", "staging", "destination"}
Outcomes == {"moved", "both", "parked", "stranded", "gone", "unsettled", "failed"}

Fits(o) ==
  CASE o = "moved"    -> "destination" \in held
    [] o = "gone"     -> "source" \notin held
    [] o = "both"     -> doubt <= 1 => {"source", "destination"} \subseteq held
    [] o = "stranded" -> doubt <= 1 => "hidden" \in held
    [] o = "parked"   -> doubt = 0 => "staging" \in held
    [] o = "failed"   -> doubt = 0 => "source" \in held
    [] o = "unsettled" -> doubt > 0

Init == held = {"source"} /\ told = "working" /\ doubt = 0

\* Copies are made and removed, never the last one.
Carry == held' \in (SUBSET Kinds) \ {{}} /\ told' = told

Tell == told = "working" /\ \E o \in Outcomes : Fits(o)' /\ told' = o /\ held' \in (SUBSET Kinds) \ {{}}

Next == (Carry \/ Tell) /\ doubt' \in {doubt, doubt + 1}
Spec == Init /\ [][Next]_<<held, told, doubt>>
=============================================================================
