----------------------------- MODULE Downloads -----------------------------
(***************************************************************************)
(* What a device knows about the books it downloaded, in three places that *)
(* no transaction joins: the content on disk (contentStore), the rows of   *)
(* the synced `downloads` table, which the five-book limit counts, and the *)
(* shelf's own list (store/downloadStore.ts), which is all that a reader   *)
(* sees and deletes from.  downloadBook() writes the first two, the screen *)
(* that waits for it the third, and deletions, the sync engine, another    *)
(* device and the death of the process change each of them alone.          *)
(*                                                                         *)
(* Rows are reduced to the book they are for and whether they are active.  *)
(* The sync engine is one step here (SyncEngine models it); so is a        *)
(* transfer (ChunkedFetch) and the licence check (Opening).                *)
(***************************************************************************)
EXTENDS Absence, Naturals, FiniteSets, Sequences, SequencesExt

CONSTANTS
  Books,
  Ids,          \* ids that rows can have
  Callers,      \* screens that can have a download under way (bound)
  BookLimit,    \* BOOK_LIMIT of downloadManager.ts
  Writing,      \* whether another writer is at work
  MaxStarts,    \* downloads (bound)
  MaxDeletions, \* deletions from the shelf and clearAllDownloads() (bound)
  MaxOther,     \* changes made by another device of the reader (bound)
  MaxDownloadRestarts   \* deaths of the process (bound)

ASSUME LimitAssumption == BookLimit \in Nat \ {0}
ASSUME WritingAssumption == Writing \in BOOLEAN
ASSUME DownloadBounds == {MaxStarts, MaxDeletions, MaxOther, MaxDownloadRestarts} \subseteq Nat
ASSUME CallersAssumption == Callers \intersect {"clear", "writer"} = {}

VARIABLES
  copy,     \* the books whose content is on disk
  row,      \* id -> the row of the downloads table
  shelf,    \* the books useDownloadStore lists
  remote,   \* book -> the server's document: one for each book, whoever made it
  call,     \* screen -> its downloadBook()
  queue,    \* withWriteLock(): who holds the lock, then who waits for it
  removal,  \* book -> its deletion from the shelf that is under way
  clear,    \* clearAllDownloads() under way
  orphan,   \* history: content whose row went away by other means, or that
            \*          a failure under the lock left without one
  hollow,   \* history: books whose content went away by other means
  doubled,  \* history: books that another device downloaded at the same time
  spent      \* how much of each bound is spent up

downloadVars == <<copy, row, shelf, remote, call, queue, removal, clear, orphan, hollow,
          doubled, spent>>

DownloadRow == [book : Books, live : BOOLEAN, dirty : BOOLEAN]
Document == [id : Ids, live : BOOLEAN]
Places == {"idle", "licence", "fetch", "queued", "look", "restore", "save", "undo",
           "tell"}
Call == [at : Places, book : Books \union {None}, id : Ids \union {None}]
Clear == [at : {"idle", "next", "destroy", "queued"}, todo : SUBSET Ids,
          id : Ids \union {None}]
Others == {"clear", "writer"}

ASSUME NoRowAssumption == None \notin Ids \union Books \union DownloadRow \union Document

NoCall == [at |-> "idle", book |-> None, id |-> None]
NoClear == [at |-> "idle", todo |-> {}, id |-> None]

DownloadTypeOK ==
  /\ copy \subseteq Books
  /\ row \in [Ids -> DownloadRow \union {None}]
  /\ shelf \subseteq Books
  /\ remote \in [Books -> Document \union {None}]
  /\ call \in [Callers -> Call]
  /\ queue \in Seq(Callers \union Others)
  /\ removal \in [Books -> {"none", "delete", "sweep", "failed"}]
  /\ clear \in Clear
  /\ orphan \subseteq Books /\ hollow \subseteq Books /\ doubled \subseteq Books
  /\ spent \in [starts : 0..MaxStarts, deletions : 0..MaxDeletions, other : 0..MaxOther,
               restarts : 0..MaxDownloadRestarts]

DownloadInit ==
  /\ copy = {}
  /\ row = [i \in Ids |-> None]
  /\ shelf = {}
  /\ remote = [b \in Books |-> None]
  /\ call = [c \in Callers |-> NoCall]
  /\ queue = <<>>
  /\ removal = [b \in Books |-> "none"]
  /\ clear = NoClear
  /\ orphan = {} /\ hollow = {} /\ doubled = {}
  /\ spent = [starts |-> 0, deletions |-> 0, other |-> 0, restarts |-> 0]

-----------------------------------------------------------------------------
(* The downloads table *)

(* listActive(USER_ID)                                                      *)
Active == {i \in Ids : row[i] # None /\ row[i].live}
ActiveOf(b) == {i \in Active : row[i].book = b}
Held == {row[i].book : i \in Active}

(* assertBookLimitNotExceeded()                                             *)
Allowed(b) == ActiveOf(b) # {} \/ Cardinality(Active) < BookLimit

(* newId(): an id that no row and no document has, and nothing under way.   *)
Unused ==
  {i \in Ids : /\ row[i] = None /\ \A b \in Books : remote[b] # None => remote[b].id # i
               /\ \A c \in Callers : call[c].id # i
               /\ i # clear.id /\ i \notin clear.todo}
NewId == CHOOSE i \in Unused : TRUE

Holds(a) == queue # <<>> /\ Head(queue) = a
Release == queue' = Tail(queue)

(* A download that has stored the content and not yet written its row.      *)
InHand(b) == \E c \in Callers : call[c].book = b
                 /\ call[c].at \in {"queued", "look", "restore", "save"}

Spends(kind, bound) ==
  /\ spent[kind] < bound
  /\ spent' = [spent EXCEPT ![kind] = @ + 1]

CallMoves(c, place) == call' = [call EXCEPT ![c] = [@ EXCEPT !.at = place]]
CallEnds(c) == call' = [call EXCEPT ![c] = NoCall]
Histories == <<orphan, hollow, doubled>>
OutsideCalls == <<shelf, removal, clear, doubled, spent>>

(* `lost` are books whose row this step took away, `gone` those whose       *)
(* content it did.                                                          *)
Account(lost, gone) ==
  /\ orphan' = ((orphan \union lost) \intersect copy') \ Held'
  /\ hollow' = (hollow \union gone) \ copy'

-----------------------------------------------------------------------------
(* downloadBook() *)

(* The permission and free-space checks come first; a screen that is        *)
(* already downloading starts nothing.                                      *)
DownloadStarts(c, b) ==
  /\ call[c].at = "idle"
  /\ Spends("starts", MaxStarts)
  /\ call' = [call EXCEPT ![c] = [NoCall EXCEPT !.at = "licence", !.book = b]]
  /\ UNCHANGED <<copy, row, shelf, remote, queue, removal, clear, Histories>>

(* checkLicense() answered, and the list is counted before any transfer.    *)
Licensed(c) ==
  /\ call[c].at = "licence"
  /\ \/ Allowed(call[c].book) /\ CallMoves(c, "fetch")
     \/ CallEnds(c)
  /\ UNCHANGED <<copy, row, remote, queue, orphan, hollow, OutsideCalls>>

(* The transfer ended and contentStore.store() settled; withWriteLock() is  *)
(* called at once.  Either may fail.                                        *)
Stored(c) ==
  /\ call[c].at = "fetch"
  /\ \/ /\ copy' = copy \union {call[c].book}
        /\ queue' = Append(queue, c)
        /\ CallMoves(c, "queued")
     \/ CallEnds(c) /\ UNCHANGED <<copy, queue>>
  /\ UNCHANGED <<row, remote, OutsideCalls>>
  /\ Account({}, {})

(* Mutant: the rollback is forgotten.                                       *)
RollsBackNothing(c) ==
  /\ CallMoves(c, "undo")
  /\ UNCHANGED <<copy, row, queue, orphan, hollow>>

(* The rollback: contentStore.destroy() drops the files before it awaits    *)
(* the keychain.  Another download of the book writes its row all the same. *)
(* A destroy() that rejects before it dropped them is only logged.          *)
RollsBack(c) ==
  /\ CallMoves(c, "undo")
  /\ UNCHANGED <<row, queue>>
  /\ \/ copy' = copy \ {call[c].book} /\ Account({}, {call[c].book})
     \/ UNCHANGED copy /\ Account({call[c].book}, {})

Finds(c, i) ==
  /\ call' = [call EXCEPT ![c] = [@ EXCEPT !.at = "save", !.id = i]]
  /\ UNCHANGED <<copy, row, queue, orphan, hollow>>

(* Mutant: the count taken before the transfer is trusted.                  *)
EnterTrustsCount(c) ==
  /\ call[c].at = "queued" /\ Holds(c)
  /\ \/ \E i \in ActiveOf(call[c].book) : Finds(c, i)
     \/ /\ ActiveOf(call[c].book) = {}
        /\ CallMoves(c, "look")
        /\ UNCHANGED <<copy, row, queue, orphan, hollow>>
  /\ UNCHANGED <<remote, OutsideCalls>>

(* The lock is ours: the rows are listed and counted again.                 *)
Enter(c) ==
  /\ call[c].at = "queued" /\ Holds(c)
  /\ \/ ~Allowed(call[c].book) /\ RollsBack(c)
     \/ \E i \in ActiveOf(call[c].book) : Finds(c, i)
     \/ /\ Allowed(call[c].book) /\ ActiveOf(call[c].book) = {}
        /\ CallMoves(c, "look")
        /\ UNCHANGED <<copy, row, queue, orphan, hollow>>
  /\ UNCHANGED <<remote, OutsideCalls>>

(* findExistingDownload(), with the lock of every table held.               *)
Look(c) ==
  /\ call[c].at = "look"
  /\ LET found == remote[call[c].book]
     IN  \/ RollsBack(c)
         \/ found = None /\ Finds(c, None)
         \/ found # None /\ found.live /\ Finds(c, found.id)
         \/ /\ found # None /\ ~found.live
            /\ call' = [call EXCEPT ![c] = [@ EXCEPT !.at = "restore", !.id = found.id]]
            /\ UNCHANGED <<copy, row, queue, orphan, hollow>>
  /\ UNCHANGED <<remote, OutsideCalls>>

(* api.restore()                                                            *)
Restore(c) ==
  /\ call[c].at = "restore"
  /\ \/ RollsBack(c) /\ UNCHANGED remote
     \/ /\ remote' = [remote EXCEPT ![call[c].book] = [id |-> call[c].id, live |-> TRUE]]
        /\ Finds(c, call[c].id)
  /\ UNCHANGED OutsideCalls

(* saveLocal(row, ..., { locked: true }), and the lock is released.         *)
Save(c) ==
  /\ call[c].at = "save"
  /\ call[c].id # None \/ Unused # {}
  /\ LET i == IF call[c].id = None THEN NewId ELSE call[c].id
     IN  row' = [row EXCEPT ![i] = [book |-> call[c].book, live |-> TRUE, dirty |-> TRUE]]
  /\ CallMoves(c, "tell")
  /\ Release
  /\ UNCHANGED <<copy, remote, OutsideCalls>>
  /\ Account({}, {})

(* listActive() or saveLocal() throws under the lock: neither is inside a   *)
(* rollback, so the content stays, and the failure releases the lock.       *)
FailsLocked(c) ==
  /\ call[c].at \in {"queued", "save"} /\ Holds(c)
  /\ CallEnds(c)
  /\ Release
  /\ UNCHANGED <<copy, row, remote, OutsideCalls>>
  /\ Account({call[c].book}, {})

(* Mutant: a failed download stays where it failed.                         *)
UndoneNever(c) ==
  /\ call[c].at = "undo"
  /\ CallMoves(c, "failed")
  /\ UNCHANGED <<copy, row, remote, queue, orphan, hollow, OutsideCalls>>

(* The rollback has settled, and the failure releases the lock.             *)
Undone(c) ==
  /\ call[c].at = "undo"
  /\ CallEnds(c)
  /\ Release
  /\ UNCHANGED <<copy, row, remote, orphan, hollow, OutsideCalls>>

(* useDownloadProgress turns `completed`, and ItemDetailScreen lists the    *)
(* book, unless it was left meanwhile (tornRef).                            *)
Tell(c) ==
  /\ call[c].at = "tell"
  /\ (UNCHANGED shelf \/ shelf' = shelf \union {call[c].book})
  /\ CallEnds(c)
  /\ UNCHANGED <<copy, row, remote, queue, removal, clear, Histories, spent>>

-----------------------------------------------------------------------------
(* Deletions *)

(* LibraryScreen: the Delete button, or the sweep of lapsed titles.  The    *)
(* row is not touched.  destroy() may fail before it drops the files.       *)
StartRemoval(b, kind) ==
  /\ b \in shelf /\ removal[b] = "none"
  /\ Spends("deletions", MaxDeletions)
  /\ UNCHANGED <<row, shelf, remote, call, queue, clear, doubled>>
  /\ \/ /\ removal' = [removal EXCEPT ![b] = kind]
        /\ copy' = copy \ {b}
        /\ Account({}, {b})
     \/ /\ removal' = [removal EXCEPT ![b] = IF kind = "delete" THEN "failed" ELSE kind]
        /\ UNCHANGED <<copy, orphan, hollow>>

(* destroy() settled.  The sweep forgets the book even when it failed; the  *)
(* button does not, whether or not the files had gone by then.              *)
EndRemoval(b) ==
  /\ removal[b] # "none"
  /\ \/ removal[b] # "failed" /\ shelf' = shelf \ {b}
     \/ removal[b] \in {"delete", "failed"} /\ UNCHANGED shelf
  /\ removal' = [removal EXCEPT ![b] = "none"]
  /\ UNCHANGED <<copy, row, remote, call, queue, clear, Histories, spent>>

ClearAll ==
  /\ clear.at = "idle"
  /\ Spends("deletions", MaxDeletions)
  /\ clear' = [at |-> "next", todo |-> Active, id |-> None]
  /\ UNCHANGED <<copy, row, shelf, remote, call, queue, removal, Histories>>

(* The next row of the snapshot, whatever became of it meanwhile.  A        *)
(* destroy() that fails is collected, and the row goes all the same.        *)
ClearNext ==
  /\ clear.at = "next"
  /\ UNCHANGED <<row, shelf, remote, call, queue, removal, doubled, spent>>
  /\ \/ \E i \in clear.todo :
          LET books == {row[j].book : j \in {i} \intersect {j \in Ids : row[j] # None}}
          IN  /\ clear' = [at |-> "destroy", todo |-> clear.todo \ {i}, id |-> i]
              /\ \/ copy' = copy \ books /\ Account({}, books)
                 \/ UNCHANGED <<copy, orphan, hollow>>
     \/ clear.todo = {} /\ clear' = NoClear /\ UNCHANGED <<copy, orphan, hollow>>

(* destroy() settled either way; softDeleteLocal() asks for the lock.       *)
ClearQueues ==
  /\ clear.at = "destroy"
  /\ IF row[clear.id] = None
     THEN clear' = [clear EXCEPT !.at = "next"] /\ UNCHANGED queue
     ELSE clear' = [clear EXCEPT !.at = "queued"] /\ queue' = Append(queue, "clear")
  /\ UNCHANGED <<copy, row, shelf, remote, call, removal, Histories, spent>>

(* The row that softDeleteLocal() read is written back as a tombstone.      *)
ClearWrites ==
  /\ clear.at = "queued" /\ Holds("clear")
  /\ clear' = [clear EXCEPT !.at = "next"]
  /\ Release
  /\ UNCHANGED <<copy, shelf, remote, call, removal, doubled, spent>>
  /\ IF row[clear.id] = None THEN UNCHANGED <<row, orphan, hollow>>
     ELSE /\ row' = [row EXCEPT ![clear.id] = [@ EXCEPT !.live = FALSE, !.dirty = TRUE]]
          /\ Account({row[clear.id].book}, {})

(* softDeleteLocal() rejects, before or after it has the lock: nobody       *)
(* catches it, and the rows that are left keep what they have.              *)
ClearFails ==
  /\ \/ clear.at = "destroy" /\ UNCHANGED queue
     \/ clear.at = "queued" /\ Holds("clear") /\ Release
  /\ clear' = NoClear
  /\ UNCHANGED <<copy, row, shelf, remote, call, removal, Histories, spent>>

-----------------------------------------------------------------------------
(* Any other writer of a synced table: a bookmark, a highlight, progress *)

WriterAsks ==
  /\ Writing
  /\ ~Contains(queue, "writer")
  /\ queue' = Append(queue, "writer")
  /\ UNCHANGED <<copy, row, shelf, remote, call, removal, clear, Histories, spent>>

WriterWrites ==
  /\ Holds("writer")
  /\ Release
  /\ UNCHANGED <<copy, row, shelf, remote, call, removal, clear, Histories, spent>>

-----------------------------------------------------------------------------
(* The sync engine and the other devices *)

(* The server's tombstone is applied to a row.                              *)
Tombstone(i) ==
  /\ row' = [row EXCEPT ![i] = [@ EXCEPT !.live = FALSE, !.dirty = FALSE]]
  /\ Account({row[i].book}, {})

(* push() of one row.  A book that the server has under another id is a     *)
(* DownloadRestoreCollision: that document is restored and takes over.      *)
(* None of this waits for the write lock.                                   *)
Push(i) ==
  /\ row[i] # None /\ row[i].dirty
  /\ UNCHANGED <<copy, shelf, call, queue, removal, clear, spent>>
  /\ LET b == row[i].book
         had == remote[b]
         ours == had # None /\ had.id = i
         theirs == had # None /\ had.id # i
         settled == [row EXCEPT ![i] = [@ EXCEPT !.dirty = FALSE]]
     IN  \/ /\ had = None \/ (ours /\ (had.live \/ ~row[i].live))
            /\ remote' = IF had = None /\ ~row[i].live THEN remote
                         ELSE [remote EXCEPT ![b] = [id |-> i, live |-> row[i].live]]
            /\ row' = settled
            /\ UNCHANGED Histories
         \/ /\ ours /\ ~had.live /\ row[i].live
            /\ Tombstone(i)
            /\ UNCHANGED <<remote, doubled>>
         \/ /\ theirs /\ row[i].live
            /\ remote' = [remote EXCEPT ![b] = [@ EXCEPT !.live = TRUE]]
            /\ row' = [row EXCEPT ![i] = None,
                         ![had.id] = [book |-> b, live |-> TRUE, dirty |-> FALSE]]
            /\ doubled' = (doubled \ {b}) \union {d \in {b} : InHand(d)}
            /\ UNCHANGED <<orphan, hollow>>
         \/ /\ theirs /\ ~row[i].live
            /\ row' = settled
            /\ UNCHANGED <<remote, Histories>>

(* pull(): the books with a row here, or every book when there is none.     *)
(* applyServerRecord() does not take the write lock.                        *)
Pull(b) ==
  /\ b \in Held \/ Held = {}
  /\ remote[b] # None
  /\ UNCHANGED <<copy, shelf, remote, call, queue, removal, clear, spent>>
  /\ LET i == remote[b].id
     IN  \/ /\ remote[b].live /\ row[i] = None
            /\ row' = [row EXCEPT ![i] = [book |-> b, live |-> TRUE, dirty |-> FALSE]]
            /\ Account({}, {b})
            /\ doubled' = doubled \union {b}
         \/ /\ ~remote[b].live /\ row[i] # None /\ row[i].live
            /\ Tombstone(i)
            /\ UNCHANGED doubled

OtherDevice(b) ==
  /\ Spends("other", MaxOther)
  /\ IF remote[b] = None
     THEN Unused # {} /\ remote' = [remote EXCEPT ![b] = [id |-> NewId, live |-> TRUE]]
     ELSE remote' = [remote EXCEPT ![b] = [@ EXCEPT !.live = ~remote[b].live]]
  /\ UNCHANGED <<copy, row, shelf, call, queue, removal, clear, Histories>>

(* The process dies: what is on disk stays.                                 *)
DownloadsRestart ==
  /\ Spends("restarts", MaxDownloadRestarts)
  /\ call' = [c \in Callers |-> NoCall]
  /\ queue' = <<>>
  /\ removal' = [b \in Books |-> "none"]
  /\ clear' = NoClear
  /\ UNCHANGED <<copy, row, shelf, remote, doubled>>
  /\ Account({b \in Books : InHand(b)}, {})

-----------------------------------------------------------------------------
CallStep(c) ==
  \/ \E b \in Books : DownloadStarts(c, b)
  \/ Licensed(c) \/ Stored(c) \/ Enter(c) \/ Look(c) \/ Restore(c)
  \/ Save(c) \/ FailsLocked(c) \/ Undone(c) \/ Tell(c)

DownloadNext ==
  \/ \E c \in Callers : CallStep(c)
  \/ \E b \in Books : \E kind \in {"delete", "sweep"} : StartRemoval(b, kind)
  \/ \E b \in Books : EndRemoval(b)
  \/ ClearAll \/ ClearNext \/ ClearQueues \/ ClearWrites \/ ClearFails
  \/ WriterAsks \/ WriterWrites
  \/ \E i \in Ids : Push(i)
  \/ \E b \in Books : Pull(b) \/ OtherDevice(b)
  \/ DownloadsRestart

(* The two requests made under the lock are aborted after a while           *)
(* (REQUEST_TIMEOUT_MS) and SQLite and the keychain answer or reject;       *)
(* nothing makes the reader, the server or a transfer do anything.          *)
DownloadFairness ==
  /\ \A c \in Callers : WF_downloadVars(Enter(c) \/ Look(c) \/ Restore(c) \/ Save(c)
                                        \/ FailsLocked(c) \/ Undone(c))
  /\ WF_downloadVars(ClearWrites \/ ClearFails)
  /\ WF_downloadVars(WriterWrites)

DownloadSpec == DownloadInit /\ [][DownloadNext]_downloadVars /\ DownloadFairness

-----------------------------------------------------------------------------
(* Content that no row counts: isAvailableOffline() answers true for a book *)
(* that the app believes it never downloaded (downloadManager.ts).  It      *)
(* comes about by a death between store() and the row; by a listing or a    *)
(* write that fails under the lock, or a rollback that cannot drop the      *)
(* files; and when the row is deleted by another device, or by              *)
(* clearAllDownloads() beside a download or after a destroy() that failed.  *)
ContentIsCounted == \A b \in copy : b \in Held \/ InHand(b) \/ b \in orphan

(* A row whose book has no content: a slot of the five spent for nothing.    *)
(* The shelf's deletions, clearAllDownloads(), a row pulled from another    *)
(* device and the rollback of a second download of the book leave one.      *)
RowsHaveContent == Held \subseteq copy \union hollow

(* Two downloads of one book never make two rows: the row is looked for and *)
(* written under one lock.  Only a row of another device makes two: pulled  *)
(* beside our own, or put in its place while a download holds its id.       *)
OneRowPerBook == \A b \in Books : Cardinality(ActiveOf(b)) <= 1 \/ b \in doubled

(* The content on disk and the rows of the downloads table say the same of  *)
(* each book, up to the deaths and deletions named above.                   *)
ContentMatchesRows == ContentIsCounted /\ RowsHaveContent /\ OneRowPerBook

(* A download that adds a row leaves no more rows than the limit, however   *)
(* many others passed the first count with it.  The document of a book of   *)
(* which pull() brought a row in is not counted, as pull() asks nobody; nor *)
(* is it when the row is by then this device's own, until a push has found  *)
(* that the two are one.                                                    *)
LimitKept ==
  [][\A c \in Callers :
       call[c].at = "save" /\ call'[c].at = "tell" /\ Active' # Active
       => Cardinality(Active' \ {remote'[b].id : b \in doubled'}) <= BookLimit]_downloadVars

(* A bookmark is saved although downloads hold the lock of every table over *)
(* network calls.                                                           *)
WritersServed == Contains(queue, "writer") ~> ~Contains(queue, "writer")

-----------------------------------------------------------------------------
(* What comments of the source say, and the code contradicts.               *)

(* The rollback is there because "leaving ciphertext on disk that no        *)
(* downloads row accounts for would make isAvailableOffline(bookId) true    *)
(* for a book the app believes it never downloaded": so none is left, as    *)
(* long as nobody dies, deletes or downloads it elsewhere.                  *)
FailureLeavesNothing ==
  spent.restarts = 0 /\ spent.deletions = 0 /\ spent.other = 0
  => \A b \in copy : b \in Held \/ InHand(b)

(* downloadedBookIds(): "Book ids this user's device actually holds"        *)
(* (sync/stores/downloadStore.ts).                                          *)
HeldIsHeld == \A b \in Held : b \in copy
=============================================================================
