----------------------------- MODULE MCSyncPull -----------------------------
EXTENDS SyncPull, TLC

\* Two persons, a donation and a revenue record: with a store and an adapter, with a
\* store only, and with neither.  The uuids of the rows interleave the tables.
MCTableOf == (1 :> 3) @@ (2 :> 1) @@ (3 :> 2) @@ (4 :> 1)
=============================================================================
