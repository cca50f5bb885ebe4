---------------------------- MODULE MCMoveBatch ----------------------------
(***************************************************************************)
(* MoveBatch for TLC: two copies of one content at home, two places to land *)
(* at, and a spare file for a copy whose original stays.  The two files at  *)
(* home may stand for each other.                                           *)
(***************************************************************************)
EXTENDS MoveBatch, TLC
CONSTANTS a, b, d, e, f1, f2, f3
MCOrder == <<a, b, d, e>>
MCDest == {d, e}
MCTemp == {a, b}
MCScopes == {{a, b}, {a, b, d, e}}
MCIds == {f1, f2, f3}
MCFirstIds == {f1, f2}
MCSymmetry == Permutations(MCFirstIds)
=============================================================================
