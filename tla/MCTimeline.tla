----------------------------- MODULE MCTimeline -----------------------------
(* Small instances of Timeline for TLC. *)
EXTENDS Timeline, TLC

CONSTANTS r1, r2, new

StoredSymmetry == Permutations(Stored)
=============================================================================
