-------------------------------- MODULE Totals --------------------------------
EXTENDS Naturals, FiniteSets

\* What a count stands for, one by one, and how many that is: the sum of the count.
Units(count) == UNION {{x} \X (1..count[x]) : x \in DOMAIN count}
Total(count) == Cardinality(Units(count))
=============================================================================
