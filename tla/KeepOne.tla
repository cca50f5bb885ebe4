------------------------------- MODULE KeepOne -------------------------------
(***************************************************************************)
(* keepOneDropsWhy (src/server/move.go) for one duplicate group: which path *)
(* a move request must hold back so that a copy of the group stays.         *)
(*                                                                          *)
(* A vetting v is what the decision is made from:                           *)
(*   v.paths      the members of the group, in the order the scan listed    *)
(*   v.requested  the paths the request names                               *)
(*   v.refs       the paths inside a reference folder                       *)
(*   v.exists     the paths File Station still shows as the scan saw them   *)
(*   v.out        the copies Duplicate Finder itself moved (isOut)          *)
(*   v.sound      the copies that, read, still hold the group's content     *)
(* Without verification nothing is read: that is v.sound holding every      *)
(* member, since the tiers below put every existing copy before the rest.   *)
(* Why a path is held (staleHeld, outHeld) is wording, and left out.        *)
(***************************************************************************)
EXTENDS Naturals, Sequences

Vettings(P) ==
  [paths : Seq(P), requested : SUBSET P, refs : SUBSET P, exists : SUBSET P,
   out : SUBSET P, sound : SUBSET P]

Members(v) == {v.paths[i] : i \in DOMAIN v.paths}

\* What the request leaves where it is, and what it would take.
Staying(v) == {p \in Members(v) : p \notin v.requested \/ p \in v.refs}
Leaving(v) == Members(v) \ Staying(v)

\* Mutant: a moved copy counts like any other.
AnyOriginalNever(v) == FALSE

\* Is an original still on disk?  A requested one settles it without a read; a
\* staying one must hold the content to count.
AnyOriginal(v) ==
  \E p \in Members(v) \ v.out : p \in v.exists /\ (p \in Leaving(v) \/ p \in v.sound)

\* The copies that count: originals while there is one, else every copy.
Counts(v) == {p \in Members(v) : AnyOriginal(v) => p \notin v.out}

\* Mutant: a copy that stays counts without being there any more.
SurvivorsUnseen(v) == Staying(v) \cap Counts(v) \cap v.sound

\* The copies that stay and count as the one that must.
Survivors(v) == Staying(v) \cap v.exists \cap Counts(v) \cap v.sound

\* The copies that could be held back, best kind first: existing originals,
\* existing copies, originals, any.  A copy read and found sound goes before all
\* of them; when none is, the first is held back whatever it holds.
Tiers(v) ==
  LET cands == Leaving(v) \cap Counts(v)
      there == cands \cap v.exists
  IN << (there \ v.out) \cap v.sound, there \cap v.sound,
        there \ v.out, there, cands \ v.out, cands >>

\* The first tier that holds anything.
BestTier(v) ==
  LET t == Tiers(v)
      k == CHOOSE i \in 1..6 : t[i] # {} /\ \A j \in 1..6 : j < i => t[j] = {}
  IN t[k]

\* The last listed path of a tier.
LastListed(v, tier) ==
  v.paths[CHOOSE i \in DOMAIN v.paths :
            /\ v.paths[i] \in tier
            /\ \A j \in DOMAIN v.paths : v.paths[j] \in tier => j <= i]

\* Mutant: a group is held although a good copy of it stays.
HeldAlways(v) ==
  IF Leaving(v) \cap Counts(v) = {} THEN {} ELSE {LastListed(v, BestTier(v))}

\* drops: the one path held back, or none when a counting copy stays anyway or
\* nothing that counts was requested.
Held(v) ==
  IF Survivors(v) # {} \/ Leaving(v) \cap Counts(v) = {}
  THEN {}
  ELSE {LastListed(v, BestTier(v))}

\* What is left where it was once everything else requested has moved.
Left(v) == Staying(v) \cup Held(v)

(***************************************************************************)
(* The rule of the group, stated over any vetting.                          *)
(***************************************************************************)

\* An original that is there and intact is never the last one to leave.
KeepsOriginal(v) ==
  (Members(v) \cap v.exists \cap v.sound) \ v.out # {}
    => (Left(v) \cap v.exists \cap v.sound) \ v.out # {}

\* Some copy of a group that has any is left where it was, moved copies and
\* damaged ones included.
KeepsCopy(v) ==
  Members(v) \cap v.exists # {} => Left(v) \cap v.exists # {}

\* Nothing is held back while an intact original stays anyway.
HoldsOnlyNeeded(v) ==
  (Staying(v) \cap v.exists \cap v.sound) \ v.out # {} => Held(v) = {}

\* A copy that is there and intact is never outlived by damaged ones alone.
KeepsSound(v) ==
  Members(v) \cap v.exists \cap v.sound # {} => Left(v) \cap v.exists \cap v.sound # {}
=============================================================================
