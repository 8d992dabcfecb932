---------------------------- MODULE Preferences ----------------------------
(***************************************************************************)
(* The one preference record of a reader, which several devices change and *)
(* which is merged field by field: savePrefs() and writeSharedPrefs()      *)
(* (prefsStore.ts, sharedPrefs.ts), personalizationStore.update(), and     *)
(* what push() and pull() do with a table that has mergeFields.            *)
(*                                                                         *)
(* A choice is known by the time at which it was made, 0 being the default *)
(* nobody chose; one clock stamps rows and documents.  One device is told  *)
(* in full, the other by the records it sends.  What the outbox does with  *)
(* operations that are refused is in SyncEngine.                           *)
(***************************************************************************)
EXTENDS Integers, FiniteSets

CONSTANTS
  Fields,       \* PERSONALIZATION_MERGE_FIELDS
  Savers,       \* savePrefs() calls that can be under way at once (bound)
  Nil,          \* no row, document, operation, stamp or base
  MaxSaves,     \* saves of this device and of the other one (bounds)
  MaxTheirs,
  MaxSyncs,     \* runs (bound)
  MaxFailures   \* requests that fail, and process deaths (bound)

ASSUME NilAssumption == Nil \notin Nat \union Fields
ASSUME PrefBoundsAssumption == {MaxSaves, MaxTheirs, MaxSyncs, MaxFailures} \subseteq Nat

VARIABLES
  clock,
  mine,    \* this device's row
  server,  \* the server's document
  queue,   \* the queued operation, with its payload
  saver,   \* the saves under way
  sync,    \* the run under way
  theirs,  \* the choice the other device has yet to send
  left,    \* what is left of each bound
  hist     \* seen: field -> latest choice shown here; sent: choices the
           \* server has had; own: choices made here; slips: what went wrong

prefVars == <<clock, mine, server, queue, saver, sync, theirs, left, hist>>

Tick == clock' = clock + 1

Value == [choice : Nat, stamp : Nat \union {Nil}]
Values == [Fields -> Value]
PrefRow == [of : Values, updated : Nat, synced : BOOLEAN, base : Nat \union {Nil}]
PrefDoc == [of : Values, updated : Nat]
PrefOp == [key : Nat, create : BOOLEAN, of : Values, updated : Nat]
SaveCall == [at : {"idle", "read", "diffed", "locked"},
             fields : SUBSET Fields, seen : PrefRow \union {Nil},
             patch : SUBSET Fields, row : PrefRow \union {Nil}, create : BOOLEAN]
SyncRun == [at : {"idle", "examine", "probe", "judge", "upsert", "rebuild", "send",
                  "settle", "adopt", "store", "list", "refresh", "enqueue"},
            push : BOOLEAN, op : PrefOp \union {Nil}, rec : PrefDoc \union {Nil},
            seen : PrefRow \union {Nil}, row : PrefRow \union {Nil}]

ASSUME NilIsNothing == Nil \notin PrefRow \union PrefDoc \union PrefOp
ASSUME NilIsNoChoice == Nil \notin [field : Fields, at : Nat, first : BOOLEAN]

Default == [choice |-> 0, stamp |-> Nil]
Unmarked == [f \in Fields |-> Default]
IdleSaver == [at |-> "idle", fields |-> {}, seen |-> Nil, patch |-> {}, row |-> Nil, create |-> FALSE]
IdleSync == [at |-> "idle", push |-> TRUE, op |-> Nil, rec |-> Nil, seen |-> Nil,
             row |-> Nil]

Slips == {"overtaken", "unsent", "first save"}

PrefTypeOK ==
  /\ clock \in Nat
  /\ mine \in PrefRow \union {Nil}
  /\ server \in PrefDoc \union {Nil}
  /\ queue \in PrefOp \union {Nil}
  /\ saver \in [Savers -> SaveCall]
  /\ sync \in SyncRun
  /\ theirs \in [field : Fields, at : Nat, first : BOOLEAN] \union {Nil}
  /\ left \in [saves : 0..MaxSaves, theirs : 0..MaxTheirs, syncs : 0..MaxSyncs,
               failures : 0..MaxFailures]
  /\ hist \in [seen : [Fields -> Nat], sent : SUBSET Nat, own : SUBSET Nat,
               slips : SUBSET Slips]

(* A device that was never used, or one whose row and document are from     *)
(* before fields had stamps (field_updated_at '{}').                        *)
PrefInit ==
  /\ clock = 1
  /\ \/ mine = Nil /\ server = Nil
     \/ /\ mine = [of |-> Unmarked, updated |-> 1, synced |-> TRUE, base |-> 1]
        /\ server = [of |-> Unmarked, updated |-> 1]
  /\ queue = Nil
  /\ saver = [s \in Savers |-> IdleSaver]
  /\ sync = IdleSync
  /\ theirs = Nil
  /\ left = [saves |-> MaxSaves, theirs |-> MaxTheirs, syncs |-> MaxSyncs,
             failures |-> MaxFailures]
  /\ hist = [seen |-> [f \in Fields |-> 0], sent |-> {}, own |-> {}, slips |-> {}]

-----------------------------------------------------------------------------
(* The merge *)

Later(m, n) == IF m > n THEN m ELSE n

(* mergeFieldLevel: whose value of a field stays.                           *)
RemoteWins(row, doc, f) ==
  LET local == row.of[f].stamp  remote == doc.of[f].stamp IN
  IF local # Nil THEN remote # Nil /\ remote > local
  ELSE IF remote # Nil THEN remote > (IF row.base = Nil THEN row.updated ELSE row.base)
  ELSE doc.updated > row.updated

MergeChanges(row, doc) == row = Nil \/ \E f \in Fields : RemoteWins(row, doc, f)

Merged(row, doc) ==
  IF row = Nil
  THEN [of |-> doc.of, updated |-> doc.updated, synced |-> TRUE, base |-> doc.updated]
  ELSE LET taken == {f \in Fields : RemoteWins(row, doc, f)} IN
       [of |-> [f \in Fields |->
                  IF f \notin taken THEN row.of[f]
                  ELSE [choice |-> doc.of[f].choice,
                        stamp |-> IF doc.of[f].stamp = Nil THEN doc.updated
                                                           ELSE doc.of[f].stamp]],
        updated |-> Later(row.updated, doc.updated),
        synced |-> /\ row.synced
                   /\ \A f \in Fields \ taken : row.of[f].choice = doc.of[f].choice,
        base |-> doc.updated]

(* Every write of the row, with the history that goes with it.              *)
SetsRow(row, overtaken, own) ==
  /\ mine' = row
  /\ hist' = [hist EXCEPT
       !.seen = [f \in Fields |-> Later(@[f], row.of[f].choice)],
       !.own = @ \union own,
       !.slips = IF overtaken THEN @ \union {"overtaken"} ELSE @]

(* Another write of the fields came between the read and the write.         *)
Overtaken(seen) ==
  IF seen = Nil \/ mine = Nil THEN seen # mine
                              ELSE seen.of # mine.of

-----------------------------------------------------------------------------
(* savePrefs(patch): read, merge the patch in, diff, update.                *)

Saving(s, place) == saver[s].at = place

PrefReads(s) ==
  /\ Saving(s, "idle")
  /\ left.saves > 0
  /\ left' = [left EXCEPT !.saves = @ - 1]
  /\ \E fields \in (SUBSET Fields) \ {{}} :
       saver' = [saver EXCEPT ![s] = [IdleSaver EXCEPT !.at = "read", !.fields = fields,
                                                       !.seen = mine]]
  /\ UNCHANGED <<clock, mine, server, queue, sync, theirs, hist>>

(* writeSharedPrefs: the columns that differ from the row as it is by now.  *)
PrefDiffs(s) ==
  /\ Saving(s, "read")
  /\ LET was(f) == IF saver[s].seen = Nil THEN 0 ELSE saver[s].seen.of[f].choice IN
     saver' = [saver EXCEPT
       ![s].at = "diffed",
       ![s].patch = IF mine = Nil THEN Fields
                    ELSE saver[s].fields \union {f \in Fields : was(f) # mine.of[f].choice}]
  /\ UNCHANGED <<clock, mine, server, queue, sync, theirs, left, hist>>

(* update(), holding the write lock: the patch onto the row, and a stamp on *)
(* every field the patch has.                                               *)
PrefLocks(s) ==
  /\ Saving(s, "diffed")
  /\ \A u \in Savers : ~Saving(u, "locked")
  /\ LET now == clock + 1
         task == saver[s]
         of == IF mine = Nil THEN Unmarked ELSE mine.of
         kept(f) == IF task.seen = Nil THEN 0 ELSE task.seen.of[f].choice
     IN saver' = [saver EXCEPT
          ![s].at = "locked",
          ![s].row = [of |-> [f \in Fields |->
                                IF f \notin task.patch THEN of[f]
                                ELSE [choice |-> IF f \in task.fields THEN now ELSE kept(f),
                                      stamp |-> now]],
                      updated |-> now, synced |-> FALSE,
                      base |-> IF mine = Nil THEN Nil ELSE mine.base],
          ![s].create = mine = Nil]
  /\ Tick
  /\ UNCHANGED <<mine, server, queue, sync, theirs, left, hist>>

(* saveLocal: the stamps of the row it replaces, then the transaction of    *)
(* row and operation; enqueue keeps the newest.                             *)
PrefCommits(s) ==
  LET task == saver[s]
      row == IF mine = Nil THEN task.row
             ELSE [task.row EXCEPT
                    !.updated = IF @ > mine.updated THEN @ ELSE mine.updated + 1,
                    !.base = IF mine.base # Nil THEN mine.base ELSE @]
  IN
  /\ Saving(s, "locked")
  /\ SetsRow(row, Overtaken(task.seen), {row.of[f].choice : f \in task.fields})
  /\ queue' = [key |-> clock, create |-> task.create, of |-> row.of, updated |-> row.updated]
  /\ saver' = [saver EXCEPT ![s] = IdleSaver]
  /\ Tick
  /\ UNCHANGED <<server, sync, theirs, left>>

-----------------------------------------------------------------------------
(* push() *)

Syncing(place) == sync.at = place
Moves(place) == sync' = [sync EXCEPT !.at = place]
OnlySync == UNCHANGED <<clock, mine, server, queue, saver, theirs, left, hist>>

SyncStarts ==
  /\ Syncing("idle")
  /\ left.syncs > 0
  /\ left' = [left EXCEPT !.syncs = @ - 1]
  /\ sync' = [IdleSync EXCEPT !.op = queue,
                              !.at = IF queue = Nil THEN "list" ELSE "examine"]
  /\ UNCHANGED <<clock, mine, server, queue, saver, theirs, hist>>

(* serverHasDiverged: the row's base, then the document.                    *)
SyncExamines ==
  /\ Syncing("examine")
  /\ IF mine.base = Nil /\ sync.op.create THEN Moves("send")
     ELSE sync' = [sync EXCEPT !.at = "probe", !.seen = mine]
  /\ OnlySync

SyncProbes ==
  /\ Syncing("probe")
  /\ sync' = IF server = Nil \/ server.updated = sync.seen.base
             THEN [sync EXCEPT !.at = "send", !.seen = Nil]
             ELSE [sync EXCEPT !.at = "judge", !.seen = Nil, !.rec = server]
  /\ OnlySync

(* applyServerRecord: the SELECT and the merge, ...                         *)
SyncJudges ==
  /\ Syncing("judge")
  /\ sync' = IF MergeChanges(mine, sync.rec)
             THEN [sync EXCEPT !.at = "upsert", !.rec = Nil, !.seen = mine,
                               !.row = Merged(mine, sync.rec)]
             ELSE IF sync.push THEN [sync EXCEPT !.at = "send", !.rec = Nil] ELSE IdleSync
  /\ OnlySync

(* ... then the upsert.                                                     *)
SyncUpserts ==
  /\ Syncing("upsert")
  /\ SetsRow(sync.row, Overtaken(sync.seen), {})
  /\ sync' = [sync EXCEPT !.at = IF sync.push THEN "rebuild" ELSE "refresh",
                          !.seen = Nil, !.row = Nil]
  /\ UNCHANGED <<clock, server, queue, saver, theirs, left>>

(* Mutant: the operation goes out as it was queued.                         *)
SyncSendsAsQueued == Syncing("rebuild") /\ Moves("send") /\ OnlySync

(* The payload again, from the row the merge has left.                      *)
SyncRebuilds ==
  /\ Syncing("rebuild")
  /\ sync' = [sync EXCEPT !.at = "send", !.op.of = mine.of, !.op.updated = mine.updated]
  /\ OnlySync

(* POST or PUT.  Whichever comes first, a 409 or a 404 is answered with the *)
(* other, and neither looks at what it replaces.                            *)
SyncSends ==
  /\ Syncing("send")
  /\ server' = [of |-> sync.op.of, updated |-> clock + 1]
  /\ sync' = [sync EXCEPT !.at = "settle", !.rec = server']
  /\ hist' = [hist EXCEPT !.sent = @ \union {sync.op.of[f].choice : f \in Fields}]
  /\ Tick
  /\ UNCHANGED <<mine, queue, saver, theirs, left>>

SyncSettles ==
  /\ Syncing("settle")
  /\ queue' = IF queue # Nil /\ queue.key = sync.op.key THEN Nil ELSE queue
  /\ Moves("adopt")
  /\ UNCHANGED <<clock, mine, server, saver, theirs, left, hist>>

(* adoptPushResult: unless the row was edited meanwhile, ...                *)
SyncAdopts ==
  /\ Syncing("adopt")
  /\ sync' = IF mine.updated # sync.op.updated THEN [IdleSync EXCEPT !.at = "list"]
             ELSE [sync EXCEPT !.at = "store", !.seen = mine]
  /\ OnlySync

(* ... the document as the server has it.                                   *)
SyncStores ==
  /\ Syncing("store")
  /\ SetsRow([of |-> sync.rec.of, updated |-> sync.rec.updated, synced |-> TRUE,
              base |-> sync.rec.updated], Overtaken(sync.seen), {})
  /\ sync' = [IdleSync EXCEPT !.at = "list"]
  /\ UNCHANGED <<clock, server, queue, saver, theirs, left>>

-----------------------------------------------------------------------------
(* pull() *)

SyncLists ==
  /\ Syncing("list")
  /\ sync' = IF server = Nil THEN IdleSync
             ELSE [IdleSync EXCEPT !.at = "judge", !.push = FALSE, !.rec = server]
  /\ OnlySync

(* After a merge, a row that still has something to send is queued again,   *)
(* from a read that holds no lock.                                          *)
SyncRefreshes ==
  /\ Syncing("refresh")
  /\ sync' = IF mine.synced THEN IdleSync ELSE [sync EXCEPT !.at = "enqueue", !.row = mine]
  /\ OnlySync

SyncEnqueues ==
  /\ Syncing("enqueue")
  /\ queue' = [key |-> clock, create |-> FALSE, of |-> sync.row.of,
               updated |-> sync.row.updated]
  /\ hist' = [hist EXCEPT !.slips = IF Overtaken(sync.row) THEN @ \union {"overtaken"} ELSE @]
  /\ sync' = IdleSync
  /\ Tick
  /\ UNCHANGED <<mine, server, saver, theirs, left>>

-----------------------------------------------------------------------------
(* What fails, and the other device *)

(* The row has merged what the queued payload does not carry.               *)
MergedUnsent == queue # Nil /\ mine # Nil /\ queue.of # mine.of

SyncBreaks(saves) ==
  /\ left.failures > 0
  /\ left' = [left EXCEPT !.failures = @ - 1]
  /\ hist' = [hist EXCEPT !.slips = IF MergedUnsent THEN @ \union {"unsent"} ELSE @]
  /\ sync' = IdleSync
  /\ saver' = saves

(* A request throws: push() or pull() ends with the queue as it is.         *)
SyncFails ==
  /\ sync.at \in {"probe", "send", "list"}
  /\ SyncBreaks(saver)
  /\ UNCHANGED <<clock, mine, server, queue, theirs>>

(* The server has stored it, and the reply is lost.                         *)
ReplyLost ==
  /\ Syncing("settle")
  /\ SyncBreaks(saver)
  /\ UNCHANGED <<clock, mine, server, queue, theirs>>

PrefDies ==
  /\ SyncBreaks([s \in Savers |-> IdleSaver])
  /\ UNCHANGED <<clock, mine, server, queue, theirs>>

(* The other device chooses, perhaps offline, perhaps as its first save.    *)
TheyChoose(f, first) ==
  /\ theirs = Nil
  /\ left.theirs > 0
  /\ left' = [left EXCEPT !.theirs = @ - 1]
  /\ theirs' = [field |-> f, at |-> clock + 1, first |-> first \/ server = Nil]
  /\ Tick
  /\ UNCHANGED <<mine, server, queue, saver, sync, hist>>

(* It sends: a first save whole, with a stamp on every default; otherwise   *)
(* what it has merged with the document.                                    *)
TheySend ==
  LET new == [choice |-> theirs.at, stamp |-> theirs.at]
      others == server # Nil \/ mine # Nil \/ \E s \in Savers : ~Saving(s, "idle")
  IN
  /\ theirs # Nil
  /\ server' =
       [of |-> [f \in Fields |->
                  IF theirs.first THEN IF f = theirs.field THEN new ELSE [new EXCEPT !.choice = 0]
                  ELSE IF f = theirs.field /\ (server.of[f].stamp = Nil \/ server.of[f].stamp < theirs.at)
                       THEN new ELSE server.of[f]],
        updated |-> clock + 1]
  /\ hist' = [hist EXCEPT !.slips = IF theirs.first /\ others THEN @ \union {"first save"} ELSE @]
  /\ theirs' = Nil
  /\ Tick
  /\ UNCHANGED <<mine, queue, saver, sync, left>>

PrefSave(s) == PrefReads(s) \/ PrefDiffs(s) \/ PrefLocks(s) \/ PrefCommits(s)

PrefSync ==
  \/ SyncStarts \/ SyncExamines \/ SyncProbes \/ SyncJudges \/ SyncUpserts
  \/ SyncRebuilds \/ SyncSends \/ SyncSettles \/ SyncAdopts \/ SyncStores
  \/ SyncLists \/ SyncRefreshes \/ SyncEnqueues

PrefNext ==
  \/ \E s \in Savers : PrefSave(s)
  \/ PrefSync
  \/ SyncFails \/ ReplyLost \/ PrefDies
  \/ \E f \in Fields, first \in BOOLEAN : TheyChoose(f, first)
  \/ TheySend

PrefSpec == PrefInit /\ [][PrefNext]_prefVars

-----------------------------------------------------------------------------
(* A setting never goes back to an earlier choice than one this device has  *)
(* shown (mergeFieldLevel: "each edit survives").                           *)
ShownChoiceStays ==
  mine # Nil /\ hist.slips = {} => \A f \in Fields : mine.of[f].choice >= hist.seen[f]

(* A choice made here that the server never had is in the queue             *)
(* (saveLocal, push, pull).                                                 *)
OwnChoiceIsQueued ==
  mine # Nil /\ "overtaken" \notin hist.slips =>
    \A f \in Fields : mine.of[f].choice \in hist.own \ hist.sent =>
      queue # Nil /\ queue.of[f].choice = mine.of[f].choice

(* No choice is lost by merges, pushes, lost replies and restarts, unless a *)
(* read was overtaken before its write; nor is a later one of another       *)
(* device, unless a merge was still unsent when the run broke, or another   *)
(* device's first save sent its defaults.                                   *)
PreferenceIsKept == ShownChoiceStays /\ OwnChoiceIsQueued

(* "this push carries both my own edited fields AND whatever I just         *)
(* adopted" (push()): as PreferenceIsKept, broken sends not excepted.       *)
MergeOutlivesAFailedSend ==
  mine # Nil /\ hist.slips \subseteq {"unsent"} =>
    \A f \in Fields : mine.of[f].choice >= hist.seen[f]

(* "Diffing here keeps each edit's stamp isolated" (writeSharedPrefs): a    *)
(* save moves no field but those it was asked to.                           *)
SaveMovesItsOwn ==
  [][\A s \in Savers :
       Saving(s, "locked") /\ Saving(s, "idle")' /\ mine # Nil /\ mine' # mine =>
         \A f \in Fields \ saver[s].fields : mine'.of[f].choice = mine.of[f].choice]_prefVars

(* "Comparing per field means each edit survives": once everything has been *)
(* sent and a pull has looked, the device shows the latest choice.          *)
LatestIsShown ==
  [][~sync.push /\ Syncing("judge") /\ Syncing("idle")' /\ left' = left
       /\ hist.slips = {} /\ queue = Nil =>
       \A f \in Fields : mine.of[f].choice >= sync.rec.of[f].choice]_prefVars
=============================================================================
