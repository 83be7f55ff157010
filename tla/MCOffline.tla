------------------------------ MODULE MCOffline ------------------------------
(***************************************************************************)
(* What is written to disk, side by side: the crawl store, the contents of *)
(* an index, and the files of indexes in their directories.  IndexFiles    *)
(* has contents only as the build and the crawl they are of, and neither   *)
(* looks into a store, so a behaviour is one of one of them, with the      *)
(* others where they begin.                                                *)
(***************************************************************************)
EXTENDS CrawlStore, MCIndexFiles, MCIndexBuild

VARIABLE part  \* the one that moves

OfflineInit == part \in {"store", "index", "files"} /\ StoreInit /\ BuildInit /\ Init

StoreMoves ==
  /\ part = "store" /\ StoreNext
  /\ UNCHANGED <<buildVars, vars, part>>

IndexMoves ==
  /\ part = "index" /\ BuildNext
  /\ UNCHANGED <<storeVars, vars, part>>

FilesMove ==
  /\ part = "files" /\ Next
  /\ UNCHANGED <<storeVars, buildVars, part>>

OfflineNext == StoreMoves \/ IndexMoves \/ FilesMove

OfflineSpec == OfflineInit /\ [][OfflineNext]_<<storeVars, buildVars, vars, part>>
=============================================================================
