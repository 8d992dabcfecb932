---------------------------- MODULE ContentStore ----------------------------
(***************************************************************************)
(* The encrypted content of one book: contentStore.ts over the device's    *)
(* keychain (keyStorage.ts) and files.  store(), openSession(),            *)
(* decryptBook(), decryptSearchIndex(), close(), destroy() and             *)
(* invalidateLicence() all share packageCache, sessions, licenceSealCache, *)
(* three files and one keychain item, and any of them may run while        *)
(* another awaits the keychain or the cipher.                              *)
(*                                                                         *)
(* A package is an element of Packages, and so is the book key (BEK) that  *)
(* its wrappedBek unwraps to: a new package of the book is a new key.      *)
(* Decryption with another package's key fails (AES-GCM).  Every package   *)
(* here is encrypted and has a licence, as store() demands.                *)
(***************************************************************************)
EXTENDS Naturals, FiniteSets

CONSTANTS
  Packages,    \* packages of this book that flambeau can issue
  Elite,       \* those with canPersist = false, kept in memory only
  Indexed,     \* those with a search index
  Readers,     \* decryptions under way at a time (bound)
  Writers,     \* store, destroy and invalidateLicence calls at a time (bound)
  None,        \* nothing there
  MaxRestarts  \* restarts of the application (bound)

ASSUME PackagesAssumption == Elite \subseteq Packages /\ Indexed \subseteq Packages
ASSUME MaxRestartsAssumption == MaxRestarts \in Nat

VARIABLES
  cache,     \* packageCache: the package object, or None
  session,   \* sessions: the open session, or None
  sealed,    \* licenceSealCache: a seal, or None
  disk,      \* the content, index and meta.json files
  bek,       \* the keychain item: whose key it holds, or None
  run,       \* reader -> its decryption
  op,        \* writer -> its call
  restarts,  \* how often the process has died so far
  broken,    \* history: a read failed on the store's own account
  slips      \* history: the overlaps and crashes that may make one fail

vars == <<cache, session, sealed, disk, bek, run, op, restarts, broken, slips>>

Maybe(S) == S \union {None}

(* EncryptedPackage: whose bytes it holds.  `licence` is FALSE once         *)
(* invalidateLicence() has stripped it.                                     *)
Package == [v : Packages, content : Maybe(Packages), index : Maybe(Packages),
            licence : BOOLEAN]
Session == [text : Maybe(Packages), index : Maybe(Packages), rawKey : Maybe(Packages)]
Seal == [licence : Packages, key : Packages]
Meta == [v : Packages, licence : BOOLEAN, seal : Maybe(Seal)]
Disk == [content : Maybe(Packages), index : Maybe(Packages), meta : Maybe(Meta)]

(* `ties`: its session is still the open one, its package still the object  *)
(* that packageCache holds.                                                 *)
Run == [at : {"idle", "key", "unwrap", "save", "seal", "decrypt"},
        of : {"book", "index"}, pkg : Maybe(Package), key : Maybe(Packages),
        ties : SUBSET {"session", "cache"}]
Op == [at : {"idle", "drop", "finish"}, call : {"store", "destroy", "revoke"},
       v : Maybe(Packages)]

(* No package, object, session or meta.json is the null one.                *)
ASSUME NoneAssumption == None \notin Packages \union Package \union Session \union Meta

Slip == {"late key", "under a reader", "overtaken", "reopened", "orphan key"}

NoRun == [at |-> "idle", of |-> "book", pkg |-> None, key |-> None, ties |-> {}]
NoOp == [at |-> "idle", call |-> "store", v |-> None]
NewSession == [text |-> None, index |-> None, rawKey |-> None]
NoFiles == [content |-> None, index |-> None, meta |-> None]

TypeOK ==
  /\ cache \in Maybe(Package)
  /\ session \in Maybe(Session)
  /\ sealed \in Maybe(Seal)
  /\ disk \in Disk
  /\ bek \in Maybe(Packages)
  /\ run \in [Readers -> Run]
  /\ op \in [Writers -> Op]
  /\ restarts \in 0..MaxRestarts
  /\ broken \in BOOLEAN
  /\ slips \subseteq Slip

Init ==
  /\ cache = None
  /\ session = None
  /\ sealed = None
  /\ disk = NoFiles
  /\ bek = None
  /\ run = [r \in Readers |-> NoRun]
  /\ op = [w \in Writers |-> NoOp]
  /\ restarts = 0
  /\ broken = FALSE
  /\ slips = {}

Reading(r) == run[r].at # "idle"
Writing(w) == op[w].at # "idle"
Mine(r) == "session" \in run[r].ties
IndexOf(p) == IF p \in Indexed THEN p ELSE None

Slips(name, happened) == slips' = slips \union {n \in {name} : happened}

(* packageCache holds another object, or none: no run shares it any more.   *)
Uncached == [r \in Readers |-> [run[r] EXCEPT !.ties = @ \ {"cache"}]]

-----------------------------------------------------------------------------
(* Sessions *)

(* loadPersisted(): the package the files hold, as they are.                *)
Persisted ==
  [v |-> disk.meta.v, content |-> disk.content, licence |-> disk.meta.licence,
   index |-> IF disk.meta.v \in Indexed THEN disk.index ELSE None]

(* bytesSync() throws when a file is not there.                             *)
Loadable ==
  /\ disk.meta # None
  /\ disk.content # None
  /\ disk.meta.v \in Indexed => disk.index # None

(* openSession() of a book that has no session: the cached package, or a    *)
(* cold read that fills packageCache and licenceSealCache.                  *)
OpenSession ==
  /\ session = None
  /\ \/ /\ cache # None
        /\ UNCHANGED <<cache, sealed, run>>
     \/ /\ cache = None /\ Loadable
        /\ cache' = Persisted
        /\ sealed' = disk.meta.seal
        /\ run' = Uncached
  /\ session' = NewSession
  /\ UNCHANGED <<disk, bek, op, restarts, broken, slips>>

(* close(): only a package that is also on disk leaves the cache.           *)
ClosedCache == IF cache # None /\ cache.v \in Elite THEN cache ELSE None
Orphaned ==
  [r \in Readers |-> [run[r] EXCEPT !.ties = IF ClosedCache = None THEN {}
                                             ELSE @ \ {"session"}]]
CloseEffect ==
  /\ cache' = ClosedCache
  /\ session' = None
  /\ run' = Orphaned

Close ==
  /\ session # None
  /\ CloseEffect
  /\ UNCHANGED <<sealed, disk, bek, op, restarts, broken, slips>>

-----------------------------------------------------------------------------
(* decryptBook() and decryptSearchIndex() *)

Ends(r) == run' = [run EXCEPT ![r] = NoRun]

(* A rejection that the reader of an open session sees as a damaged book.   *)
Breaks(r) ==
  /\ Ends(r)
  /\ broken' = (broken \/ Mine(r))

(* Mutant: every caller decrypts for itself.                                *)
PendingNever(kind) == FALSE

(* session.pending and session.indexPending: one decryption of each kind.   *)
Pending(kind) == \E r \in Readers : Reading(r) /\ Mine(r) /\ run[r].of = kind

Done(kind) == IF kind = "book" THEN session.text # None ELSE session.index # None

(* The part up to the first await: the cached package, whose content must   *)
(* have its length, and the raw key the session may hold already.           *)
StartRead(r, kind) ==
  /\ ~Reading(r)
  /\ session # None
  /\ ~Done(kind)
  /\ ~Pending(kind)
  /\ IF cache = None \/ (kind = "book" /\ cache.content = None)
     THEN broken' = TRUE /\ UNCHANGED run
     ELSE /\ kind = "index" => cache.index # None
          /\ run' = [run EXCEPT ![r] =
               [at |-> "key", of |-> kind, pkg |-> cache, key |-> session.rawKey,
                ties |-> {"session", "cache"}]]
          /\ UNCHANGED broken
  /\ UNCHANGED <<cache, session, sealed, disk, bek, op, restarts, slips>>

Moves(r, place, k) == run' = [run EXCEPT ![r] = [@ EXCEPT !.at = place, !.key = k]]

(* With the key in hand a book of a licence that persists asks for its seal:*)
(* one that another key made does not verify, and a first one is made.      *)
HasKey(r, k) ==
  LET pkg == run[r].pkg
      checked == run[r].of = "book" /\ pkg.v \notin Elite /\ pkg.licence
  IN IF checked /\ sealed = None THEN Moves(r, "seal", k) /\ UNCHANGED broken
     ELSE IF checked /\ sealed.key # k THEN Breaks(r)
     ELSE Moves(r, "decrypt", k) /\ UNCHANGED broken

(* invalidateStaleCachedKeyIfRotated(): wrappedBek differs from the one in  *)
(* meta.json.                                                               *)
Rotated(p) == disk.meta # None /\ disk.meta.v # p

(* A store() past that check that is about to write another package.        *)
Replaces(w, p) == op[w].at = "finish" /\ op[w].call = "store" /\ op[w].v # p

(* resolveRawKey(): the session's key, or for a package that persists the   *)
(* key in the keychain.                                                     *)
KeyFound(r) ==
  /\ run[r].at = "key"
  /\ \/ run[r].key # None /\ HasKey(r, run[r].key)
     \/ run[r].key = None /\ run[r].pkg.v \notin Elite /\ bek # None /\ HasKey(r, bek)
  /\ UNCHANGED <<cache, session, sealed, disk, bek, op, restarts, slips>>

(* Mutant: a missing key is taken for one.                                  *)
KeyMissingGoesOn(r) ==
  /\ run[r].at = "key" /\ run[r].key = None
  /\ Moves(r, IF sealed = None THEN "seal" ELSE "decrypt", None)
  /\ UNCHANGED <<cache, session, sealed, disk, bek, op, restarts, broken, slips>>

(* No key: none stored, none asked for, or a keychain that cannot be read.  *)
KeyMissing(r) ==
  /\ run[r].at = "key" /\ run[r].key = None
  /\ Moves(r, "unwrap", None)
  /\ UNCHANGED <<cache, session, sealed, disk, bek, op, restarts, broken, slips>>

(* Mutant: every key is kept in the keychain.                               *)
UnwrapsAndSaves(r) ==
  /\ run[r].at = "unwrap"
  /\ Moves(r, "save", run[r].pkg.v)
  /\ UNCHANGED <<cache, session, sealed, disk, bek, op, restarts, broken, slips>>

(* unwrapBek() of the package's own wrappedBek.                             *)
Unwraps(r) ==
  /\ run[r].at = "unwrap"
  /\ LET p == run[r].pkg.v
     IN IF p \in Elite
        THEN /\ HasKey(r, p)
             /\ session' = IF Mine(r) THEN [session EXCEPT !.rawKey = p] ELSE session
        ELSE /\ Moves(r, "save", p)
             /\ UNCHANGED <<session, broken>>
  /\ UNCHANGED <<cache, sealed, disk, bek, op, restarts, slips>>

(* storeBek(): it is late when the files hold another package by now, or    *)
(* are about to.                                                            *)
SavesKey(r) ==
  /\ run[r].at = "save"
  /\ bek' = run[r].pkg.v
  /\ HasKey(r, run[r].key)
  /\ Slips("late key", disk.meta = None \/ Rotated(run[r].pkg.v)
                       \/ \E w \in Writers : Replaces(w, run[r].pkg.v))
  /\ UNCHANGED <<cache, session, sealed, disk, op, restarts>>

(* sealLicence() and persistLicenceSeal(), onto the meta.json of that time. *)
MakesSeal(r) ==
  /\ run[r].at = "seal"
  /\ LET seal == [licence |-> run[r].pkg.v, key |-> run[r].key]
     IN /\ sealed' = seal
        /\ disk' = IF disk.meta = None THEN disk ELSE [disk EXCEPT !.meta.seal = seal]
  /\ Moves(r, "decrypt", run[r].key)
  /\ UNCHANGED <<cache, session, bek, op, restarts, broken, slips>>

Bytes(r) == IF run[r].of = "book" THEN run[r].pkg.content ELSE run[r].pkg.index
Fits(r) == run[r].key = run[r].pkg.v /\ Bytes(r) = run[r].pkg.v

(* The plaintext goes to the session that asked, and a package that is on   *)
(* disk gives up its ciphertext.                                            *)
Decrypts(r) ==
  LET v == run[r].pkg.v
      book == run[r].of = "book"
  IN /\ run[r].at = "decrypt" /\ Fits(r)
     /\ session' = IF ~Mine(r) THEN session
                   ELSE IF book THEN [session EXCEPT !.text = v]
                   ELSE [session EXCEPT !.index = v]
     /\ cache' = IF book /\ v \notin Elite /\ "cache" \in run[r].ties
                 THEN [cache EXCEPT !.content = None] ELSE cache
     /\ Ends(r)
     /\ UNCHANGED <<sealed, disk, bek, op, restarts, broken, slips>>

(* INTEGRITY_FAILED.  That the files are those of two packages, because the *)
(* process died inside store(), is no fault of the keys.                    *)
Garbled(r) ==
  /\ run[r].at = "decrypt" /\ ~Fits(r)
  /\ IF Bytes(r) = run[r].pkg.v THEN Breaks(r) ELSE Ends(r) /\ UNCHANGED broken
  /\ UNCHANGED <<cache, session, sealed, disk, bek, op, restarts, slips>>

(* KEYSTORE_UNAVAILABLE, a keychain that rejects, or LICENCE_EXPIRED: the   *)
(* promise rejects and nothing else changes.                                *)
Denied(r) ==
  /\ \/ run[r].at \in {"unwrap", "save"}
     \/ run[r].at = "decrypt" /\ run[r].of = "book"
  /\ Ends(r)
  /\ UNCHANGED <<cache, session, sealed, disk, bek, op, restarts, broken, slips>>

-----------------------------------------------------------------------------
(* store() *)

CallOf(w, place, call, p) == op' = [op EXCEPT ![w] = [at |-> place, call |-> call, v |-> p]]
Returns(w) == op' = [op EXCEPT ![w] = NoOp]

Fresh(p) == [v |-> p, content |-> p, index |-> IndexOf(p), licence |-> TRUE]

(* A package that replaces the one a reader is at work on, or whose raw key *)
(* the session holds.                                                       *)
UnderAReader(p) ==
  \/ \E r \in Readers : Reading(r) /\ run[r].pkg.v # p
  \/ session # None /\ session.rawKey \notin {None, p}

StoreElite(p) ==
  /\ p \in Elite
  /\ cache' = Fresh(p)
  /\ run' = Uncached
  /\ Slips("under a reader", UnderAReader(p))
  /\ UNCHANGED <<session, sealed, disk, bek, op, restarts, broken>>

(* The files, meta.json last, and the caches.  No seal outlives the package *)
(* it was made for.                                                         *)
Write(p) ==
  /\ cache' = Fresh(p)
  /\ disk' = [content |-> p, index |-> IndexOf(p),
              meta |-> [v |-> p, licence |-> TRUE, seal |-> None]]
  /\ sealed' = None
  /\ run' = Uncached
  /\ slips' = slips \union {n \in {"under a reader"} : UnderAReader(p)}
                    \union {n \in {"overtaken"} :
                              \E w \in Writers : Writing(w) /\ op[w].call # "store"}
  /\ UNCHANGED <<session, bek, restarts, broken>>

(* Mutant: a rotated key stays in the keychain.                             *)
StoreStartsKeepsKey(w, p) ==
  /\ p \notin Elite
  /\ ~Writing(w)
  /\ Write(p)
  /\ UNCHANGED op

StoreStarts(w, p) ==
  /\ p \notin Elite
  /\ ~Writing(w)
  /\ IF Rotated(p)
     THEN /\ CallOf(w, "drop", "store", p)
          /\ UNCHANGED <<cache, session, sealed, disk, bek, run, restarts, broken, slips>>
     ELSE Write(p) /\ UNCHANGED op

(* Mutant: deleteBek() is not awaited, and rejects.                         *)
DropsNothing(w) ==
  /\ op[w].at = "drop"
  /\ op' = [op EXCEPT ![w].at = "finish"]
  /\ UNCHANGED <<cache, session, sealed, disk, bek, run, restarts, broken, slips>>

(* deleteBek(), for all three calls.                                        *)
DropsKey(w) ==
  /\ op[w].at = "drop"
  /\ bek' = None
  /\ op' = [op EXCEPT ![w].at = "finish"]
  /\ UNCHANGED <<cache, session, sealed, disk, run, restarts, broken, slips>>

StoreEnds(w) ==
  /\ op[w].at = "finish" /\ op[w].call = "store"
  /\ Write(op[w].v)
  /\ Returns(w)

-----------------------------------------------------------------------------
(* destroy() and invalidateLicence() *)

DestroyStarts(w) ==
  /\ ~Writing(w)
  /\ CloseEffect
  /\ disk' = NoFiles
  /\ CallOf(w, "drop", "destroy", None)
  /\ UNCHANGED <<sealed, bek, restarts, broken, slips>>

RevokeStarts(w) ==
  /\ ~Writing(w)
  /\ CloseEffect
  /\ CallOf(w, "drop", "revoke", None)
  /\ UNCHANGED <<sealed, disk, bek, restarts, broken, slips>>

(* After the key: the caches, and for a revocation the rights in meta.json. *)
DropsCaches ==
  /\ cache' = None
  /\ sealed' = None
  /\ run' = Uncached
  /\ Slips("reopened", session # None)

DestroyEnds(w) ==
  /\ op[w].at = "finish" /\ op[w].call = "destroy"
  /\ DropsCaches
  /\ Returns(w)
  /\ UNCHANGED <<session, disk, bek, restarts, broken>>

RevokeEnds(w) ==
  /\ op[w].at = "finish" /\ op[w].call = "revoke"
  /\ disk' = IF disk.meta = None THEN disk
             ELSE [disk EXCEPT !.meta.licence = FALSE, !.meta.seal = None]
  /\ DropsCaches
  /\ Returns(w)
  /\ UNCHANGED <<session, bek, restarts, broken>>

(* deleteBek() rejects, and the call with it.  A key without its files is   *)
(* one that no later store() knows of.                                      *)
DropFails(w) ==
  /\ op[w].at = "drop"
  /\ Returns(w)
  /\ Slips("orphan key", bek # None /\ disk.meta = None)
  /\ UNCHANGED <<cache, session, sealed, disk, bek, run, restarts, broken>>

-----------------------------------------------------------------------------
(* The process dies, at rest or inside store()'s writes. *)

Dies ==
  /\ restarts < MaxRestarts
  /\ restarts' = restarts + 1
  /\ cache' = None
  /\ session' = None
  /\ sealed' = None
  /\ run' = [r \in Readers |-> NoRun]
  /\ op' = [w \in Writers |-> NoOp]
  /\ UNCHANGED <<bek, broken>>

Restart ==
  /\ Dies
  /\ Slips("orphan key", bek # None /\ disk.meta = None)
  /\ UNCHANGED disk

(* writeFile() deletes, creates and writes, file after file, and destroy()  *)
(* deletes them in turn: any prefix of that may be all that happened.  A    *)
(* meta.json cut short is deleted by parseMetaSafe().                       *)
TornFiles(w, p) ==
  /\ \/ p \notin Elite /\ ~Writing(w) /\ ~Rotated(p)
     \/ op[w].at = "finish" /\ op[w].call = "store" /\ op[w].v = p
  /\ Dies
  /\ \/ disk' = [disk EXCEPT !.content = None]
     \/ disk' = [disk EXCEPT !.content = None, !.index = None]
     \/ disk' = [disk EXCEPT !.content = p]
     \/ disk' = [disk EXCEPT !.content = p, !.index = IndexOf(p)]
     \/ disk' = [content |-> p, index |-> IndexOf(p), meta |-> None]
  /\ Slips("orphan key", bek # None /\ disk'.meta = None)

ReadStep(r) ==
  \/ \E kind \in {"book", "index"} : StartRead(r, kind)
  \/ KeyFound(r) \/ KeyMissing(r) \/ Unwraps(r) \/ SavesKey(r) \/ MakesSeal(r)
  \/ Decrypts(r) \/ Garbled(r) \/ Denied(r)

WriteStep(w) ==
  \/ \E p \in Packages : StoreStarts(w, p) \/ TornFiles(w, p)
  \/ DropsKey(w) \/ DropFails(w) \/ StoreEnds(w)
  \/ DestroyStarts(w) \/ DestroyEnds(w) \/ RevokeStarts(w) \/ RevokeEnds(w)

Next ==
  \/ OpenSession \/ Close \/ Restart
  \/ \E p \in Packages : StoreElite(p)
  \/ \E r \in Readers : ReadStep(r)
  \/ \E w \in Writers : WriteStep(w)

Spec == Init /\ [][Next]_vars

-----------------------------------------------------------------------------
(* Properties *)

(* A read of an open session whose files are whole fails as damaged only    *)
(* after one of the named slips: no sequence of stores, rotations, reads,   *)
(* closes, revocations, deletions and restarts leaves a key, a seal and a   *)
(* ciphertext that do not belong together.                                  *)
ReadsOnlyBreakAfterASlip == broken => slips # {}

(* Two callers of one session share one decryption of a kind, so that       *)
(* close() zeroes the only copy there is (OpenSession.pending).             *)
OneDecryption ==
  \A r, q \in Readers :
    /\ Reading(r) /\ Mine(r)
    /\ Reading(q) /\ Mine(q)
    /\ run[r].of = run[q].of
    => r = q

(* An Elite package leaves nothing behind: no file and no keychain item is  *)
(* ever its own.                                                            *)
EliteInMemoryOnly ==
  /\ bek \notin Elite
  /\ disk.content \notin Elite /\ disk.index \notin Elite
  /\ disk.meta # None => disk.meta.v \notin Elite

(* The book can be read: from the session's text, the package in memory, or *)
(* the files.                                                               *)
Readable ==
  \/ session # None /\ session.text # None
  \/ cache # None /\ cache.content = cache.v
  \/ cache = None /\ Loadable /\ disk.content = disk.meta.v

(* close() is reversible and reading costs the reader nothing: only a       *)
(* deletion, a revocation or the end of the process takes a readable book   *)
(* away, unless a slip happened.                                            *)
ReadingIsReversible ==
  [][ slips = {} /\ Readable /\ op' = op /\ restarts' = restarts => Readable' ]_vars

(* destroy() is terminal: when it returns, and no slip happened, neither a  *)
(* file nor a key nor a cached package of the book is left.                 *)
DestroyIsTerminal ==
  [][ \A w \in Writers :
        /\ op[w].call = "destroy" /\ op[w].at = "finish" /\ op'[w].at = "idle"
        /\ restarts' = restarts /\ slips' = {}
        => disk' = NoFiles /\ bek' = None /\ cache' = None /\ sealed' = None ]_vars

(* A package that was destroyed is gone for good, and nothing else that     *)
(* opening, reading and closing do makes it unreadable.                     *)
ReadableUntilDestroyed == ReadingIsReversible /\ DestroyIsTerminal

(* invalidateStaleCachedKeyIfRotated() finds nothing to invalidate without  *)
(* a meta.json, "nothing cached yet": so a deletion that was cut short      *)
(* never makes the next download unreadable.                                *)
CutShortDeletionIsHarmless == slips \subseteq {"orphan key"} => ~broken

(* A rotation "must not let resolveRawKey() keep returning the OLD raw BEK  *)
(* from the keychain cache": a decryption under way saves it afterwards, or *)
(* its session goes on with it.                                             *)
RotationReachesReaders == slips \subseteq {"late key", "under a reader"} => ~broken

(* destroy() "cannot be undone without a fresh borrow (a new store() call)": *)
(* one that comes before the old key is gone finds no meta.json to tell it   *)
(* of a rotation, and is read with that key.                                *)
FreshBorrowIsReadable == slips \subseteq {"overtaken"} => ~broken
=============================================================================
