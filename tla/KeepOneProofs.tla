---------------------------- MODULE KeepOneProofs ----------------------------
(***************************************************************************)
(* The rules of KeepOneRules hold of every case that KeepOneCases reaches,  *)
(* whatever the paths and however large the group.                          *)
(***************************************************************************)
EXTENDS KeepOneCases, KeepOneRules

\* Every case the runs look at is a vetting of a listed group.
LEMMA ListedAlways == Spec => [](\E n \in Nat : paths \in [1..n -> Paths])
<1>1. Init => \E n \in Nat : paths \in [1..n -> Paths]
  BY CopiesAssumption DEF Init
<1>2. (\E n \in Nat : paths \in [1..n -> Paths]) /\ [Next]_vars
        => (\E n \in Nat : paths \in [1..n -> Paths])'
  BY DEF Next, vars, Select, Protect, Vanish, MoveOut, Rot
<1>3. QED
  BY <1>1, <1>2, PTL DEF Spec

\* For any paths, groups of any size: an intact original always stays.
THEOREM OriginalStaysAlways == Spec => []OriginalStays
<1>1. (\E n \in Nat : paths \in [1..n -> Paths]) => OriginalStays
  BY KeepsOriginalAlways DEF OriginalStays, vet
<1>2. QED
  BY <1>1, ListedAlways, PTL

\* For any paths, groups of any size: some copy always stays.
THEOREM CopyStaysAlways == Spec => []CopyStays
<1>1. (\E n \in Nat : paths \in [1..n -> Paths]) => CopyStays
  BY KeepsCopyAlways DEF CopyStays, vet
<1>2. QED
  BY <1>1, ListedAlways, PTL

\* For any paths, groups of any size: nothing is held back for nothing.
THEOREM HeldOnlyWhenNeededAlways == Spec => []HeldOnlyWhenNeeded
<1>1. HeldOnlyWhenNeeded
  BY HoldsOnlyNeededAlways DEF HeldOnlyWhenNeeded
<1>2. QED
  BY <1>1, PTL
=============================================================================
