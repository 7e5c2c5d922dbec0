--------------------------- MODULE MCCacheStore ----------------------------
(* CacheStore over model values: one cache entry that two routes fill with   *)
(* different blobs, and one calibration record.  Processes are               *)
(* interchangeable, and so are inodes.                                       *)
EXTENDS CacheStore, TLC

MCHolds == [k \in Keys |-> IF k \in Records THEN {CHOOSE v \in Values : TRUE} ELSE Values]

Symmetry == Permutations(Procs) \cup Permutations(Inodes)
============================================================================
