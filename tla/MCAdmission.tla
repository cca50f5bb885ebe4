----------------------------- MODULE MCAdmission -----------------------------
(***************************************************************************)
(* Admission for TLC: two overlapping requests, two scans so that one can   *)
(* follow the other, and one restart.                                       *)
(***************************************************************************)
EXTENDS Admission
CONSTANTS r1, r2
MCRequests == {r1, r2}
=============================================================================
