----------------------------- MODULE MCConflicts -----------------------------
EXTENDS Conflicts

MCPaths == 1..3

Sound == [i \in 1..2 |-> [kind |-> "data", of |-> 0]]
Flipped == [Sound EXCEPT ![2].kind = "flip"]

\* Three equal copies, and a sound one before two damaged alike.
MCTrees ==
  {[checks |-> FALSE, cells |-> cells] :
     cells \in {<<Sound, Sound, Sound>>, <<Sound, Flipped, Flipped>>}}
  \cup {[checks |-> TRUE, cells |-> <<Sound, Sound, Sound>>]}
=============================================================================
