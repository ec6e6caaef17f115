--------------------------- MODULE MCSafeBrowsing ---------------------------
(* SafeBrowsing for TLC: URLs, items and the slots for checks are              *)
(* interchangeable.                                                            *)
EXTENDS SafeBrowsing, TLC

Symmetry == Permutations(URLs) \cup Permutations(Items) \cup Permutations(Checks)
=============================================================================
