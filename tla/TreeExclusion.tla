---------------------------- MODULE TreeExclusion ----------------------------
(***************************************************************************)
(* What the admission rules of the daemon promise, with the locks left out: *)
(* the folder tree and the stored results have one user at a time.  A scan  *)
(* that enumerates and hashes the tree, or a move batch that changes it,    *)
(* starts only when nothing else is at work, and a restart ends both.       *)
(***************************************************************************)
EXTENDS Naturals

CONSTANT Workers    \* every scan and every move request

VARIABLE using      \* the workers between their admission and their end

Init == using = {}

Begin(w) == using = {} /\ using' = {w}

End(w) == w \in using /\ using' = using \ {w}

Restart == using' = {}

Next == \/ \E w \in Workers : Begin(w) \/ End(w)
        \/ Restart

Spec == Init /\ [][Next]_using

=============================================================================
