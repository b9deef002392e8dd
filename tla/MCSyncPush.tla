----------------------------- MODULE MCSyncPush -----------------------------
EXTENDS SyncPush, TLC

CONSTANTS r1, r2

\* Persons come before students in the order of sync.ts.
MCRank == (r1 :> 1) @@ (r2 :> 0)
MCRankOne == (r1 :> 0)

\* Neither the server nor the devices tell devices or request slots apart.
MCSymmetry == Permutations(Devices) \cup Permutations(Requests)
=============================================================================
