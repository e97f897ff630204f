------------------------------ MODULE MCMemory ------------------------------
(* Two keys, the prefixes "everything" and "the last key", and pages of one  *)
(* key.  Clients are interchangeable, and so are values.                     *)
EXTENDS Memory

SmallKeys == 1..2
SmallPrefixes == {<<1, 2>>, <<2, 2>>}
SmallLimits == {1}

CallSymmetry == Permutations(Clients) \cup Permutations(Values)
=============================================================================
