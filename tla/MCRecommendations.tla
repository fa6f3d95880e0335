--------------------------- MODULE MCRecommendations ---------------------------
\* Recommendations for TLC, with reads that are alike.
EXTENDS Recommendations, TLC

Symmetry == Permutations(Readers)
===============================================================================
