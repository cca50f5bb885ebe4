----------------------------- MODULE KeepOneRules -----------------------------
(***************************************************************************)
(* Facts about keepOneDropsWhy's decision for a group of any size and any   *)
(* vetting of it: the held-back path keeps an intact original when there is *)
(* one, a copy in any case, and is empty when neither is needed.  The paths *)
(* may be listed with gaps: what counts is the order of their indices.      *)
(***************************************************************************)
EXTENDS KeepOne, WellFoundedInduction, FiniteSetTheorems, TLAPS

\* Every non-empty set of indices of a list has a greatest one.
LEMMA GreatestIndex ==
  ASSUME NEW n \in Nat, NEW I \in SUBSET (1..n), I # {}
  PROVE  \E i \in I : \A j \in I : j <= i
<1> DEFINE T == {n - i : i \in I}
           R == OpToRel(<, Nat)
<1>1. T \subseteq Nat /\ T # {}
  <2>1. \A i \in I : n - i \in Nat
    OBVIOUS
  <2>2. QED
    BY <2>1
<1>2. IsWellFoundedOn(R, Nat)
  BY NatLessThanWellFounded
<1>3. PICK x \in T : \A y \in T : ~(<<y, x>> \in R)
  <2> HIDE DEF T, R
  <2>1. QED
    BY <1>1, <1>2, WFMin
<1>4. \A y \in T : ~(y < x)
  BY <1>1, <1>3 DEF OpToRel
<1>5. PICK i \in I : x = n - i
  BY <1>3
<1>6. ASSUME NEW j \in I PROVE j <= i
  <2>1. n - j \in T
    OBVIOUS
  <2>2. ~(n - j < n - i)
    BY <1>4, <1>5, <2>1
  <2>3. i \in Nat /\ j \in Nat
    OBVIOUS
  <2>4. QED
    BY <2>2, <2>3
<1>7. QED
  BY <1>6

\* What is held back for want of anything better is still one of the best tier.
LEMMA LastListedIn ==
  ASSUME NEW v, NEW n \in Nat, DOMAIN v.paths \subseteq 1..n,
         NEW tier, tier \subseteq Members(v), tier # {}
  PROVE  LastListed(v, tier) \in tier
<1> DEFINE I == {i \in DOMAIN v.paths : v.paths[i] \in tier}
<1>1. I \in SUBSET (1..n) /\ I # {}
  BY DEF Members
<1>2. PICK i \in I : \A j \in I : j <= i
  BY <1>1, GreatestIndex
<1>3. \E k \in DOMAIN v.paths :
        /\ v.paths[k] \in tier
        /\ \A j \in DOMAIN v.paths : v.paths[j] \in tier => j <= k
  BY <1>2
<1>4. QED
  BY <1>3 DEF LastListed

\* The held-back path comes from the first tier with anything in it.
LEMMA BestTierIs ==
  ASSUME NEW v, Leaving(v) \cap Counts(v) # {}
  PROVE  /\ BestTier(v) # {}
         /\ BestTier(v) \subseteq Leaving(v) \cap Counts(v)
         /\ Tiers(v)[1] # {} => BestTier(v) = Tiers(v)[1]
         /\ Leaving(v) \cap Counts(v) \cap v.exists # {} => BestTier(v) \subseteq v.exists
         /\ v.exists = {} /\ (Leaving(v) \cap Counts(v)) \ v.out # {}
              => BestTier(v) = Tiers(v)[5]
<1> DEFINE t == Tiers(v)
           First(k) == k \in 1..6 /\ t[k] # {} /\ \A j \in 1..6 : j < k => t[j] = {}
<1>1. /\ t[1] = ((Leaving(v) \cap Counts(v) \cap v.exists) \ v.out) \cap v.sound
      /\ t[2] = Leaving(v) \cap Counts(v) \cap v.exists \cap v.sound
      /\ t[3] = (Leaving(v) \cap Counts(v) \cap v.exists) \ v.out
      /\ t[4] = Leaving(v) \cap Counts(v) \cap v.exists
      /\ t[5] = (Leaving(v) \cap Counts(v)) \ v.out
      /\ t[6] = Leaving(v) \cap Counts(v)
  BY DEF Tiers
<1> HIDE DEF t
<1>2. \E k \in 1..6 : First(k)
  <2>1. t[6] # {}
    BY <1>1
  <2>2. First(1) \/ First(2) \/ First(3) \/ First(4) \/ First(5) \/ First(6)
    BY <2>1
  <2>3. QED
    BY <2>2
<1> DEFINE k == CHOOSE i \in 1..6 : First(i)
<1>3. First(k) /\ BestTier(v) = t[k]
  BY <1>2 DEF BestTier, t
<1> HIDE DEF k
<1>4. k \in {1, 2, 3, 4, 5, 6}
  BY <1>3
<1>5. t[k] \subseteq Leaving(v) \cap Counts(v)
  BY <1>1, <1>4
<1>6. t[1] # {} => k = 1
  BY <1>3
<1>7. t[4] # {} => k <= 4
  BY <1>3
<1>8. k <= 4 => t[k] \subseteq v.exists
  BY <1>1, <1>4
<1>9. v.exists = {} /\ t[5] # {} => k = 5
  <2>1. v.exists = {} => t[1] = {} /\ t[2] = {} /\ t[3] = {} /\ t[4] = {}
    BY <1>1
  <2>2. t[5] # {} => k <= 5
    BY <1>3
  <2>3. QED
    BY <1>3, <1>4, <2>1, <2>2
<1>10. QED
  BY <1>1, <1>3, <1>5, <1>6, <1>7, <1>8, <1>9 DEF t

\* A held-back path is one of the best tier.
LEMMA HeldIs ==
  ASSUME NEW v, NEW n \in Nat, DOMAIN v.paths \subseteq 1..n,
         Survivors(v) = {}, Leaving(v) \cap Counts(v) # {}
  PROVE  \E p \in BestTier(v) : Held(v) = {p}
<1>1. BestTier(v) \subseteq Members(v) /\ BestTier(v) # {}
  BY BestTierIs DEF Leaving
<1>2. LastListed(v, BestTier(v)) \in BestTier(v)
  BY <1>1, LastListedIn
<1>3. QED
  BY <1>2 DEF Held

\* keepOneDropsWhy keeps an intact original in place, whatever was requested.
THEOREM KeepsOriginalAlways ==
  ASSUME NEW v, NEW n \in Nat, DOMAIN v.paths \subseteq 1..n
  PROVE  KeepsOriginal(v)
<1> SUFFICES ASSUME NEW p \in Members(v), p \in v.exists, p \in v.sound, p \notin v.out
             PROVE  (Left(v) \cap v.exists \cap v.sound) \ v.out # {}
  BY DEF KeepsOriginal
<1>1. AnyOriginal(v)
  BY DEF AnyOriginal, Leaving
<1>2. Counts(v) \cap v.out = {} /\ p \in Counts(v)
  BY <1>1 DEF Counts
<1>3. CASE Survivors(v) # {}
  BY <1>2, <1>3 DEF Survivors, Left
<1>4. CASE Survivors(v) = {}
  <2>1. p \in Leaving(v)
    BY <1>2, <1>4 DEF Survivors, Leaving
  <2>2. p \in Tiers(v)[1]
    BY <1>2, <2>1 DEF Tiers
  <2>3. BestTier(v) = Tiers(v)[1]
    BY <1>2, <2>1, <2>2, BestTierIs
  <2>4. PICK q \in Tiers(v)[1] : Held(v) = {q}
    BY <1>2, <1>4, <2>1, <2>3, HeldIs
  <2>5. q \in v.exists /\ q \in v.sound /\ q \notin v.out
    BY <2>4 DEF Tiers
  <2>6. QED
    BY <2>4, <2>5 DEF Left
<1>5. QED
  BY <1>3, <1>4

\* When File Station does not answer, an original is kept all the same: all
\* listed ones may be there, and none of them is given up for a moved copy.
THEOREM KeepsOriginalUnanswered ==
  ASSUME NEW v, NEW n \in Nat, DOMAIN v.paths \subseteq 1..n,
         v.exists = {}, Members(v) \ v.out # {}
  PROVE  Left(v) \ v.out # {}
<1> PICK p \in Members(v) : p \notin v.out
  OBVIOUS
<1>1. Survivors(v) = {} /\ Counts(v) = Members(v)
  BY DEF Survivors, Counts, AnyOriginal
<1>2. CASE p \in Staying(v)
  BY <1>2 DEF Left
<1>3. CASE p \in Leaving(v)
  <2>1. (Leaving(v) \cap Counts(v)) \ v.out # {}
    BY <1>1, <1>3 DEF Leaving
  <2>2. BestTier(v) = (Leaving(v) \cap Counts(v)) \ v.out
    BY <2>1, BestTierIs DEF Tiers
  <2>3. PICK q \in BestTier(v) : Held(v) = {q}
    BY <1>1, <2>1, HeldIs
  <2>4. QED
    BY <2>2, <2>3 DEF Left
<1>4. QED
  BY <1>2, <1>3 DEF Leaving

\* What is left in place is listed, and at most one path is held back.
LEMMA LeftIsListed ==
  ASSUME NEW v, NEW n \in Nat, DOMAIN v.paths \subseteq 1..n
  PROVE  Left(v) \subseteq Members(v) /\ (Held(v) = {} \/ \E p : Held(v) = {p})
<1>1. CASE Survivors(v) # {} \/ Leaving(v) \cap Counts(v) = {}
  BY <1>1 DEF Held, Left, Staying
<1>2. CASE Survivors(v) = {} /\ Leaving(v) \cap Counts(v) # {}
  <2>1. PICK q \in BestTier(v) : Held(v) = {q}
    BY <1>2, HeldIs
  <2>2. BestTier(v) \subseteq Members(v)
    BY <1>2, BestTierIs DEF Leaving
  <2>3. QED
    BY <2>1, <2>2 DEF Left, Staying
<1>3. QED
  BY <1>1, <1>2

\* keepOneDropsWhy never drains a group, moved and damaged copies included.
THEOREM KeepsCopyAlways ==
  ASSUME NEW v, NEW n \in Nat, DOMAIN v.paths \subseteq 1..n
  PROVE  KeepsCopy(v)
<1> SUFFICES ASSUME NEW p \in Members(v), p \in v.exists
             PROVE  Left(v) \cap v.exists # {}
  BY DEF KeepsCopy
<1>1. CASE Staying(v) \cap v.exists # {}
  BY <1>1 DEF Left
<1>2. CASE Staying(v) \cap v.exists = {}
  <2>1. Survivors(v) = {}
    BY <1>2 DEF Survivors
  <2>2. Leaving(v) \cap Counts(v) \cap v.exists # {}
    BY <1>2 DEF Leaving, Counts, AnyOriginal
  <2>3. BestTier(v) \subseteq v.exists
    BY <2>2, BestTierIs
  <2>4. PICK q \in BestTier(v) : Held(v) = {q}
    BY <2>1, <2>2, HeldIs
  <2>5. QED
    BY <2>3, <2>4 DEF Left
<1>3. QED
  BY <1>1, <1>2

\* keepOneDropsWhy refuses nothing while an intact original stays anyway.
THEOREM HoldsOnlyNeededAlways == ASSUME NEW v PROVE HoldsOnlyNeeded(v)
<1> SUFFICES ASSUME NEW p \in Staying(v), p \in v.exists, p \in v.sound, p \notin v.out
             PROVE  Held(v) = {}
  BY DEF HoldsOnlyNeeded
<1>1. p \in Counts(v)
  BY DEF Staying, Counts
<1>2. QED
  BY <1>1 DEF Held, Survivors
=============================================================================
