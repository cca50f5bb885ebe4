----------------------------- MODULE MCDuplicates -----------------------------
EXTENDS Duplicates

C(s, p, h) == [size |-> s, pfx |-> p, full |-> h]

\* Sizes, prefixes and hashes that share a partition, so that it overflows,
\* and one size that is in another.
MCContents == {C(6, 0, 0), C(6, 0, 6), C(6, 6, 12), C(12, 0, 18), C(7, 0, 24)}

\* Trees in which equal contents are neighbours: the order of the walk
\* matters only to the counter.
MCTrees == {t \in [1..6 -> MCContents] : \A i \in 1..5 : t[i].full <= t[i + 1].full}

\* With TableSize = 3, two keys share both slots and the third one of them.
MCMix == [k \in {6, 7, 12} |-> IF k = 7 THEN 0 ELSE 2]
=============================================================================
