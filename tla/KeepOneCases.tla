---------------------------- MODULE KeepOneCases ----------------------------
(***************************************************************************)
(* Every case keepOneDropsWhy can be asked about: a group, and a world that *)
(* changes one fact at a time (a path is selected or not, comes under a     *)
(* reference folder, vanishes, is moved, rots, or the opposite of these).   *)
(***************************************************************************)
EXTENDS KeepOne

CONSTANTS
  Paths,        \* the paths that may be listed
  MaxCopies     \* bound: members of the group

ASSUME CopiesAssumption == MaxCopies \in Nat

VARIABLES paths, requested, refs, exists, out, sound
vars == <<paths, requested, refs, exists, out, sound>>

vet == [paths |-> paths, requested |-> requested, refs |-> refs, exists |-> exists,
        out |-> out, sound |-> sound]

Init ==
  /\ paths \in UNION {[1..n -> Paths] : n \in 0..MaxCopies}
  /\ requested = {} /\ refs = {} /\ out = {}
  /\ exists = Paths /\ sound = Paths

Toggle(S, p) == IF p \in S THEN S \ {p} ELSE S \cup {p}

Select(p)  == requested' = Toggle(requested, p) /\ UNCHANGED <<paths, refs, exists, out, sound>>
Protect(p) == refs' = Toggle(refs, p) /\ UNCHANGED <<paths, requested, exists, out, sound>>
Vanish(p)  == exists' = Toggle(exists, p) /\ UNCHANGED <<paths, requested, refs, out, sound>>
MoveOut(p) == out' = Toggle(out, p) /\ UNCHANGED <<paths, requested, refs, exists, sound>>
Rot(p)     == sound' = Toggle(sound, p) /\ UNCHANGED <<paths, requested, refs, exists, out>>

Next == \E p \in Paths : Select(p) \/ Protect(p) \/ Vanish(p) \/ MoveOut(p) \/ Rot(p)

Spec == Init /\ [][Next]_vars

\* keep-one, with verification: an intact original never leaves unless another
\* one stays.
OriginalStays == KeepsOriginal(vet)

\* keep-one, in every case: the group is never drained in place.
CopyStays == KeepsCopy(vet)

\* keep-one refuses no more than it must.
HeldOnlyWhenNeeded == HoldsOnlyNeeded(vet)

\* checkStaying: "a copy that no longer reproduces it ... must not be what is
\* left behind while the good copy moves".
GoodCopyStays == KeepsSound(vet)
=============================================================================
