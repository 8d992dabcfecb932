------------------------- MODULE MCSyncCollections -------------------------
(* SyncEngine on the two collections whose records other devices may make   *)
(* under other ids, for TLC: the bookmarks of a locator and the download    *)
(* records of a book.  `collection` says which of them a behaviour is of.   *)
EXTENDS Integers, FiniteSets, TLC

CONSTANTS BookmarkIds, DownloadIds, BookmarkCalls, DownloadCall, None, MaxBookmarkEdits, MaxRestores

VARIABLES now, row, doc, outbox, minted, run, book, task, used, accepted, own, quiet,
          collection

B == INSTANCE SyncEngine WITH
       Kind <- "bookmarks", Ids <- BookmarkIds, Tasks <- BookmarkCalls, Skew <- 0,
       MaxRetries <- 2, MaxEdits <- MaxBookmarkEdits, MaxRemote <- 1, MaxBooks <- 0,
       MaxFaults <- 1, MaxCrashes <- 0

(* The device's clock is behind the server's.                               *)
D == INSTANCE SyncEngine WITH
       Kind <- "downloads", Ids <- DownloadIds, Tasks <- {DownloadCall},
       Skew <- -1, MaxRetries <- 2, MaxEdits <- MaxRestores, MaxRemote <- 1, MaxBooks <- 0,
       MaxFaults <- 1, MaxCrashes <- 1

Symmetry == UNION {Permutations(BookmarkIds), Permutations(DownloadIds), Permutations(BookmarkCalls)}

Init ==
  \/ collection = "bookmarks" /\ B!Init
  \/ collection = "downloads" /\ D!Init

Next ==
  \/ collection = "bookmarks" /\ B!Next /\ UNCHANGED collection
  \/ collection = "downloads" /\ D!Next /\ UNCHANGED collection

Spec == Init /\ [][Next]_<<B!vars, collection>>

(* LocatorCollision, DownloadRestoreCollision (syncEngine.ts): several ids  *)
(* for one bookmark or one download become one; an edit that is shown and   *)
(* the server never had is still queued, whatever pushes, pulls, conflicts, *)
(* crashes and lost replies came in between; and after a run that nothing   *)
(* disturbed the device shows what the server has.                          *)
UnifiesSafely == IF collection = "bookmarks" THEN B!UnifiesSafely ELSE D!UnifiesSafely
=============================================================================
