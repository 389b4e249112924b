-------------------------- MODULE MCAccountLookup --------------------------
(* Instance of AccountLookup for TLC: two goroutines, two ids that one     *)
(* account may have, and room for one of them in the cache.                *)
EXTENDS AccountLookup

CONSTANTS g1, g2, i1, i2, p1

=============================================================================
