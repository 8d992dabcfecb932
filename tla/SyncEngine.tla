----------------------------- MODULE SyncEngine -----------------------------
(***************************************************************************)
(* One device's copy of one (user, book) collection, kept in step with the *)
(* server: local writes with their outbox (syncableTable.ts, the stores),  *)
(* one run of push and pull (syncEngine.ts) and the per-book pull that may *)
(* run beside it.                                                          *)
(*                                                                         *)
(* Every await is a place where another callback may run, so a local write *)
(* is three actions (the store reads its row, saveLocal reads the stamps   *)
(* under the write lock, the transaction commits), applyServerRecord and   *)
(* adoptPushResult are two each (SELECT, then upsert), and each HTTP       *)
(* request is one, which the server carries out in one step.               *)
(*                                                                         *)
(* Contents are abstracted to the number of the last edit they reflect.    *)
(* Time is a counter that every stamping event advances: the server stamps *)
(* now + 1, the device now + 1 + Skew.                                     *)
(***************************************************************************)
EXTENDS Integers, FiniteSets, Sequences, SequencesExt

CONSTANTS
  Kind,        \* "progress", "bookmarks" or "downloads"
  Ids,         \* record ids; all of one locator (bookmarks) or one scope
  Tasks,       \* store calls that can be under way at the same time (bound)
  None,        \* no such row, document, operation or stamp
  Skew,        \* the device's clock minus the server's
  MaxRetries,  \* MAX_PUSH_RETRIES of syncConfig.ts
  MaxEdits,    \* edits, of this device and of the others (bounds)
  MaxRemote,
  MaxBooks,    \* calls of pullBook() (bound)
  MaxFaults,   \* requests that fail or lose their reply (bound)
  MaxCrashes   \* process deaths (bound)

ASSUME KindAssumption == Kind \in {"progress", "bookmarks", "downloads"}
ASSUME SkewAssumption == Skew \in Int
ASSUME BoundsAssumption ==
  /\ {MaxEdits, MaxRemote, MaxBooks, MaxFaults, MaxCrashes} \subseteq Nat
  /\ MaxRetries \in Nat \ {0}
ASSUME NoneAssumption == None \notin Int \union Ids
ASSUME IdsAssumption == IsFiniteSet(Ids)

VARIABLES
  now,      \* the clock
  row,      \* id -> the device's row
  doc,      \* id -> the server's document
  outbox,   \* id -> the queued operation (enqueue keeps one for a record)
  minted,   \* ids that are or were in use
  run,      \* the run under way, and where it is
  book,     \* pullBook() under way, and where it is
  task,     \* the store calls under way
  used,     \* how much of each bound is used up
  accepted, \* history: own edits the server has carried out
  own,      \* history: edits made on this device
  quiet     \* history: nothing but the run has happened since it started

vars == <<now, row, doc, outbox, minted, run, book, task, used, accepted, own,
          quiet>>

Stamps == Int
Edits  == Nat
Row == [edit : Edits, updated : Stamps, deleted : BOOLEAN, synced : BOOLEAN,
        base : Stamps \union {None}]
Doc == [edit : Edits, updated : Stamps, deleted : BOOLEAN]
Record == [id : Ids, edit : Edits, updated : Stamps, deleted : BOOLEAN]
Op  == [id : Ids, key : Edits, kind : {"CREATE", "UPDATE", "DELETE"},
        updated : Stamps, status : {"PENDING", "FAILED", "DEAD"}, retries : Nat]
Unwritten == [updated |-> None, base |-> None]

ASSUME NoRecordAssumption ==
  None \notin Row /\ None \notin Doc /\ None \notin Record /\ None \notin Op

Places == {"idle", "next", "probe", "judge", "upsert", "conflict", "put", "post",
           "putOwn", "delete", "settle", "adopt", "store", "findDuplicate",
           "findTaken", "restore", "putTheirs", "writeBack", "discard", "drop",
           "fail", "pulling"}

IdleRun  == [at |-> "idle", todo |-> <<>>, base |-> None, rec |-> None,
             then |-> "idle", docs |-> {}]
IdleBook == [at |-> "idle", rec |-> None, docs |-> {}]
IdleTask == [at |-> "idle", op |-> None, base |-> None, prev |-> Unwritten]

TypeOK ==
  /\ now \in Nat
  /\ row \in [Ids -> Row \union {None}]
  /\ doc \in [Ids -> Doc \union {None}]
  /\ outbox \in [Ids -> Op \union {None}]
  /\ run \in [at : Places, todo : Seq(Op), base : Stamps \union {None},
              rec : Record \union {None}, then : Places, docs : SUBSET Record]
  /\ minted \subseteq Ids
  /\ book \in [at : {"idle", "pulling", "upsert"}, rec : Record \union {None},
               docs : SUBSET Record]
  /\ task \in [Tasks -> [at : {"idle", "read", "stamped"}, op : Op \union {None},
                         base : Stamps \union {None},
                         prev : [updated : Stamps \union {None},
                                 base : Stamps \union {None}]]]
  /\ used \in [edits : 0..MaxEdits, remote : 0..MaxRemote, books : 0..MaxBooks,
               faults : 0..MaxFaults, crashes : 0..MaxCrashes]
  /\ accepted \subseteq Edits
  /\ own \subseteq Edits
  /\ quiet \in BOOLEAN

Init ==
  /\ now = 0
  /\ row = [i \in Ids |-> None]
  /\ doc = [i \in Ids |-> None]
  /\ outbox = [i \in Ids |-> None]
  /\ minted = {}
  /\ run = IdleRun
  /\ book = IdleBook
  /\ task = [t \in Tasks |-> IdleTask]
  /\ used = [edits |-> 0, remote |-> 0, books |-> 0, faults |-> 0,
            crashes |-> 0]
  /\ accepted = {}
  /\ own = {}
  /\ quiet = FALSE

-----------------------------------------------------------------------------
(* Rows and documents *)

LiveRow(i) == row[i] # None /\ ~row[i].deleted
LiveDoc(i) == doc[i] # None /\ ~doc[i].deleted

DocRecord(i) == [id |-> i, edit |-> doc[i].edit, updated |-> doc[i].updated,
                 deleted |-> doc[i].deleted]
AllDocs == {DocRecord(i) : i \in {j \in Ids : doc[j] # None}}

(* The row a server record becomes (toRow, mergeLocalColumns).              *)
AsRow(rec) == [edit |-> rec.edit, updated |-> rec.updated, deleted |-> rec.deleted,
               synced |-> TRUE, base |-> rec.updated]

(* Mutant: a record that the device has no row for is passed over.          *)
TakesKnown(existing, rec) ==
  /\ existing # None
  /\ ~existing.deleted
  /\ rec.deleted \/ existing.updated < rec.updated

(* applyServerRecord's decision: a local tombstone rejects everything, a    *)
(* delete is applied to any live row, otherwise the later stamp wins.       *)
Takes(existing, rec) ==
  \/ existing = None
  \/ ~existing.deleted /\ (rec.deleted \/ existing.updated < rec.updated)

MonotonicStamp(candidate, previous) ==
  IF previous = None \/ candidate > previous THEN candidate ELSE previous + 1

ClockAdvances == now' = now + 1
ServerNow == now + 1
DeviceNow == now + 1 + Skew

-----------------------------------------------------------------------------
(* Local writes *)

NextEdit == used.edits + used.remote + 1
Disturbed == quiet' = FALSE

(* savePosition and recordCompleted hold the write lock over their read     *)
(* too; add, rename and the removals read first and lock afterwards.        *)
LocksFirst(kind) == Kind # "bookmarks" /\ kind # "DELETE"

HoldsLock(t) == \/ task[t].at = "stamped"
                \/ task[t].at = "read" /\ LocksFirst(task[t].op.kind)

(* What the store makes of the rows it reads: a new record, a change of the *)
(* (latest) live one, or a tombstone.                                       *)
StoreCalls(kind, i) ==
  \/ /\ kind = "CREATE"
     /\ \A j \in Ids : ~LiveRow(j)
     /\ Kind # "progress" => i \notin minted
  \/ /\ kind = "UPDATE"
     /\ LiveRow(i)
     /\ LocksFirst(kind) => \A j \in Ids : LiveRow(j) => row[j].updated <= row[i].updated
  \/ /\ kind = "DELETE"
     /\ Kind # "progress"
     /\ row[i] # None

TaskReads(t, kind, i) ==
  /\ task[t].at = "idle"
  /\ LocksFirst(kind) => \A u \in Tasks : ~HoldsLock(u)
  /\ used.edits < MaxEdits
  /\ StoreCalls(kind, i)
  /\ task' = [task EXCEPT ![t] =
       [at |-> "read", prev |-> Unwritten,
        base |-> IF row[i] = None \/ LocksFirst(kind) THEN None ELSE row[i].base,
        op |-> [id |-> i, key |-> NextEdit, kind |-> kind, updated |-> DeviceNow,
                status |-> "PENDING", retries |-> 0]]]
  /\ minted' = minted \union {i}
  /\ used' = [used EXCEPT !.edits = @ + 1]
  /\ ClockAdvances
  /\ Disturbed
  /\ UNCHANGED <<row, doc, outbox, run, book, accepted, own>>

(* saveLocal, now holding the write lock: the stamps of the row it replaces. *)
TaskStamps(t) ==
  /\ task[t].at = "read"
  /\ \A u \in Tasks \ {t} : ~HoldsLock(u)
  /\ LET old == row[task[t].op.id] IN
     task' = [task EXCEPT
       ![t].at = "stamped",
       ![t].prev = IF old = None THEN Unwritten
                   ELSE [updated |-> old.updated, base |-> old.base]]
  /\ UNCHANGED <<now, row, doc, outbox, minted, run, book, used, accepted, own, quiet>>

(* The transaction: row and outbox entry together.                          *)
TaskCommits(t) ==
  LET op    == task[t].op
      prev  == task[t].prev
      stamp == MonotonicStamp(op.updated, prev.updated)
  IN
  /\ task[t].at = "stamped"
  /\ row' = [row EXCEPT ![op.id] =
       [edit |-> op.key, updated |-> stamp, deleted |-> op.kind = "DELETE",
        synced |-> FALSE,
        base |-> IF prev.base # None THEN prev.base ELSE task[t].base]]
  /\ outbox' = [outbox EXCEPT ![op.id] = [op EXCEPT !.updated = stamp]]
  /\ task' = [task EXCEPT ![t] = IdleTask]
  /\ own' = own \union {op.key}
  /\ UNCHANGED <<now, doc, minted, run, book, used, accepted, quiet>>

-----------------------------------------------------------------------------
(* The server (external), and the other devices writing to it. *)

SlotTaken(i) == IF Kind = "bookmarks" THEN \E j \in Ids \ {i} : LiveDoc(j)
                                      ELSE \E j \in Ids : doc[j] # None

Stored(key, gone) == [edit |-> key, updated |-> ServerNow, deleted |-> gone]

OtherDeviceWrites(i, gone) ==
  /\ used.remote < MaxRemote
  /\ \/ LiveDoc(i)
     \/ Kind # "bookmarks" /\ doc[i] # None /\ ~gone
     \/ /\ doc[i] = None /\ ~SlotTaken(i) /\ ~gone
        /\ Kind # "progress" => i \notin minted
  /\ doc' = [doc EXCEPT ![i] = Stored(NextEdit, gone)]
  /\ minted' = minted \union {i}
  /\ used' = [used EXCEPT !.remote = @ + 1]
  /\ ClockAdvances
  /\ Disturbed
  /\ UNCHANGED <<row, outbox, run, book, task, accepted, own>>

-----------------------------------------------------------------------------
(* syncEngine.run(), push *)

Local == <<now, row, doc, outbox, minted, book, task, used, accepted, own, quiet>>

Cur == Head(run.todo)
At(place) == run.at = place
Goto(place) == run' = [run EXCEPT !.at = place]
GotoWith(place, rec) == run' = [run EXCEPT !.at = place, !.rec = rec]
NextOp == run' = [IdleRun EXCEPT !.at = "next", !.todo = Tail(run.todo)]

Queued(op) == outbox[op.id] # None /\ outbox[op.id].key = op.key

FirstRequest(op) == CASE op.kind = "CREATE" -> "post"
                      [] op.kind = "UPDATE" -> "put"
                      [] op.kind = "DELETE" -> "delete"

(* outboxStore.listPending(): the FAILED ones whose backoff has passed too. *)
RunStarts ==
  /\ At("idle")
  /\ \E due \in SUBSET {i \in Ids : outbox[i] # None /\ outbox[i].status = "FAILED"} :
       LET ops == {outbox[i] : i \in due \union
                     {j \in Ids : outbox[j] # None /\ outbox[j].status = "PENDING"}}
       IN \E todo \in SetToSeqs(ops) :
            /\ \A m, n \in DOMAIN todo : m < n => todo[m].key < todo[n].key
            /\ run' = [IdleRun EXCEPT !.at = "next", !.todo = todo]
  /\ quiet' = (book.at = "idle" /\ \A t \in Tasks : task[t].at = "idle")
  /\ UNCHANGED <<now, row, doc, outbox, minted, book, task, used, accepted, own>>

(* serverHasDiverged(): the base version this device last saw.              *)
Examines ==
  /\ At("next") /\ run.todo # <<>>
  /\ LET base == IF row[Cur.id] = None THEN None ELSE row[Cur.id].base IN
     IF base = None /\ (Kind # "progress" \/ Cur.kind # "UPDATE")
     THEN Goto(FirstRequest(Cur))
     ELSE run' = [run EXCEPT !.at = "probe", !.base = base]
  /\ UNCHANGED Local

Probes ==
  /\ At("probe")
  /\ IF ~LiveDoc(Cur.id) \/ doc[Cur.id].updated = run.base
     THEN Goto(FirstRequest(Cur))
     ELSE run' = [run EXCEPT !.at = "judge", !.rec = DocRecord(Cur.id),
                             !.then = "conflict"]
  /\ UNCHANGED Local

(* applyServerRecord: the SELECT and the decision ...                       *)
Judges ==
  /\ At("judge")
  /\ IF Takes(row[run.rec.id], run.rec)
     THEN Goto("upsert")
     ELSE Goto(IF run.then = "conflict" THEN FirstRequest(Cur) ELSE run.then)
  /\ UNCHANGED Local

(* ... then the upsert.  A server that won a conflict drops the operation.  *)
Upserts ==
  /\ At("upsert")
  /\ row' = [row EXCEPT ![run.rec.id] = AsRow(run.rec)]
  /\ Goto(IF run.then = "conflict" THEN "drop" ELSE run.then)
  /\ UNCHANGED <<now, doc, outbox, minted, book, task, used, accepted, own, quiet>>

-----------------------------------------------------------------------------
(* syncEngine.run(), push: the requests *)

Requesting ==
  \/ run.at \in {"probe", "put", "post", "putOwn", "delete", "findDuplicate",
                 "findTaken", "restore", "putTheirs"}
  \/ At("next") /\ run.todo = <<>>

(* A request throws: the run ends with the queue intact, except that while  *)
(* a taken scope is being resolved the operation is parked.                 *)
Breaks ==
  /\ used.faults < MaxFaults
  /\ used' = [used EXCEPT !.faults = @ + 1]
  /\ IF run.at \in {"findTaken", "restore", "putTheirs"} THEN Goto("fail")
                                                         ELSE run' = IdleRun
  /\ Disturbed

NetworkFails ==
  /\ Requesting
  /\ Breaks
  /\ UNCHANGED <<now, row, doc, outbox, minted, book, task, accepted, own>>

(* 400 or 422: this one operation cannot succeed as sent.                   *)
Rejected ==
  /\ run.at \in {"put", "post", "putOwn"}
  /\ used.faults < MaxFaults
  /\ used' = [used EXCEPT !.faults = @ + 1]
  /\ Goto("fail")
  /\ UNCHANGED <<now, row, doc, outbox, minted, book, task, accepted, own, quiet>>

(* The server writes the document i and answers with what it stored; the    *)
(* answer may get lost.                                                     *)
Writes(i, key, gone, place) ==
  /\ doc' = [doc EXCEPT ![i] = Stored(key, gone)]
  /\ ClockAdvances
  /\ \/ /\ GotoWith(place, [id |-> i, edit |-> key, updated |-> ServerNow,
                            deleted |-> gone])
        /\ UNCHANGED <<used, quiet>>
     \/ Breaks
  /\ UNCHANGED <<row, outbox, minted, book, task, own>>

Accepts == accepted' = accepted \union {Cur.key}

(* PUT, or POST when the server does not have the record.                   *)
Puts ==
  /\ At("put")
  /\ IF LiveDoc(Cur.id)
     THEN Writes(Cur.id, Cur.key, FALSE, "settle") /\ Accepts
     ELSE Goto("post") /\ UNCHANGED Local

(* POST.  A 409 is our own earlier attempt, or somebody else's record at    *)
(* this locator, or a document that holds this scope.                       *)
Posts ==
  /\ At("post")
  /\ IF doc[Cur.id] = None /\ ~SlotTaken(Cur.id)
     THEN Writes(Cur.id, Cur.key, FALSE, "settle") /\ Accepts
     ELSE /\ Goto(IF Kind # "bookmarks" THEN "findTaken"
                  ELSE IF doc[Cur.id] # None THEN "putOwn" ELSE "findDuplicate")
          /\ UNCHANGED Local

PutsOwn ==
  /\ At("putOwn")
  /\ IF LiveDoc(Cur.id)
     THEN Writes(Cur.id, Cur.key, FALSE, "settle") /\ Accepts
     ELSE Goto("fail") /\ UNCHANGED Local

(* DELETE.  A 404 counts as done, and yields no record to adopt.            *)
Deletes ==
  /\ At("delete")
  /\ Accepts
  /\ IF LiveDoc(Cur.id)
     THEN Writes(Cur.id, Cur.key, TRUE, "settle")
     ELSE /\ GotoWith("settle", None)
          /\ UNCHANGED <<now, row, doc, outbox, minted, book, task, used, own, quiet>>

-----------------------------------------------------------------------------
(* syncEngine.run(), push: after the answer *)

(* Mutant: remove() by record, not by the operation's own id.               *)
RemovesRecord == outbox' = [outbox EXCEPT ![Cur.id] = None]

RemovesOp == outbox' = [outbox EXCEPT ![Cur.id] = IF Queued(Cur) THEN None ELSE @]

Settles ==
  /\ At("settle")
  /\ RemovesOp
  /\ Goto("adopt")
  /\ UNCHANGED <<now, row, doc, minted, book, task, used, accepted, own, quiet>>

(* adoptPushResult: the SELECT.  A row edited meanwhile is left alone; a    *)
(* record without its columns cannot be written, and the run aborts.        *)
Adopts ==
  /\ At("adopt")
  /\ IF row[Cur.id] # None /\ row[Cur.id].updated # Cur.updated THEN NextOp
     ELSE IF run.rec = None THEN run' = IdleRun
     ELSE Goto("store")
  /\ UNCHANGED Local

Stores ==
  /\ At("store")
  /\ row' = [row EXCEPT ![Cur.id] = AsRow(run.rec)]
  /\ NextOp
  /\ UNCHANGED <<now, doc, outbox, minted, book, task, used, accepted, own, quiet>>

(* LocatorCollision: adopt the record that holds the locator.               *)
FindsDuplicate ==
  /\ At("findDuplicate")
  /\ \/ /\ \A j \in Ids : ~LiveDoc(j)
        /\ Goto("discard")
     \/ \E j \in Ids :
          /\ LiveDoc(j)
          /\ run' = [run EXCEPT !.at = "judge", !.rec = DocRecord(j), !.then = "discard"]
  /\ UNCHANGED Local

(* DownloadRestoreCollision, ProgressRestoreCollision: the record that      *)
(* holds the scope.  Live progress is taken as it is; anything else is      *)
(* restored and overwritten with this device's fields.                      *)
FindsTaken ==
  /\ At("findTaken")
  /\ \E j \in Ids :
       /\ doc[j] # None
       /\ GotoWith(IF Kind = "progress" /\ ~doc[j].deleted THEN "writeBack" ELSE "restore",
                   DocRecord(j))
  /\ UNCHANGED Local

Restores ==
  /\ At("restore")
  /\ IF LiveDoc(run.rec.id) THEN Goto("putTheirs") /\ UNCHANGED Local
     ELSE /\ Writes(run.rec.id, doc[run.rec.id].edit, FALSE, "putTheirs")
          /\ UNCHANGED accepted

PutsTheirs ==
  /\ At("putTheirs")
  /\ IF LiveDoc(run.rec.id)
     THEN Writes(run.rec.id, Cur.key, FALSE, "writeBack") /\ Accepts
     ELSE Goto("fail") /\ UNCHANGED Local

WritesBack ==
  /\ At("writeBack")
  /\ row' = [row EXCEPT ![run.rec.id] = AsRow(run.rec)]
  /\ Goto(IF Kind = "progress" /\ run.rec.id = Cur.id THEN "drop" ELSE "discard")
  /\ UNCHANGED <<now, doc, outbox, minted, book, task, used, accepted, own, quiet>>

(* Mutant: the id this device had chosen keeps its row.                     *)
DiscardsNothing ==
  /\ At("discard")
  /\ Goto("drop")
  /\ UNCHANGED Local

(* hardDeleteLocal of the id this device had chosen.                        *)
Discards ==
  /\ At("discard")
  /\ row' = [row EXCEPT ![Cur.id] = None]
  /\ Goto("drop")
  /\ UNCHANGED <<now, doc, outbox, minted, book, task, used, accepted, own, quiet>>

Drops ==
  /\ At("drop")
  /\ RemovesOp
  /\ NextOp
  /\ UNCHANGED <<now, row, doc, minted, book, task, used, accepted, own, quiet>>

(* Mutant: a status no reader of the outbox looks for.                      *)
ParksUnknown ==
  /\ At("fail")
  /\ outbox' = [outbox EXCEPT ![Cur.id] =
       IF Queued(Cur) THEN [@ EXCEPT !.status = "ERROR"] ELSE @]
  /\ NextOp
  /\ UNCHANGED <<now, row, doc, minted, book, task, used, accepted, own, quiet>>

(* outboxStore.markFailed(), which finds only the operation it was given.   *)
Parks ==
  /\ At("fail")
  /\ outbox' = [outbox EXCEPT ![Cur.id] =
       IF ~Queued(Cur) THEN @
       ELSE [outbox[Cur.id] EXCEPT
               !.retries = Cur.retries + 1,
               !.status = IF Cur.retries + 1 >= MaxRetries THEN "DEAD" ELSE "FAILED"]]
  /\ NextOp
  /\ UNCHANGED <<now, row, doc, minted, book, task, used, accepted, own, quiet>>

-----------------------------------------------------------------------------
(* syncEngine.run(), pull; and pullBook(), which any open book may start *)

Pulls ==
  /\ At("next") /\ run.todo = <<>>
  /\ run' = [IdleRun EXCEPT !.at = "pulling", !.docs = AllDocs]
  /\ UNCHANGED Local

PullsRecord ==
  /\ At("pulling")
  /\ \E rec \in run.docs :
       run' = [run EXCEPT !.at = "judge", !.rec = rec, !.then = "pulling",
                          !.docs = @ \ {rec}]
  /\ UNCHANGED Local

RunEnds ==
  /\ At("pulling") /\ run.docs = {}
  /\ run' = IdleRun
  /\ UNCHANGED Local

BookStarts ==
  /\ book.at = "idle"
  /\ Kind # "downloads"
  /\ used.books < MaxBooks
  /\ used' = [used EXCEPT !.books = @ + 1]
  /\ book' = [IdleBook EXCEPT !.at = "pulling", !.docs = AllDocs]
  /\ Disturbed
  /\ UNCHANGED <<now, row, doc, outbox, minted, run, task, accepted, own>>

BookJudges ==
  /\ book.at = "pulling"
  /\ \E rec \in book.docs :
       book' = [at   |-> IF Takes(row[rec.id], rec) THEN "upsert" ELSE "pulling",
                rec  |-> IF Takes(row[rec.id], rec) THEN rec ELSE None,
                docs |-> book.docs \ {rec}]
  /\ UNCHANGED <<now, row, doc, outbox, minted, run, task, used, accepted, own, quiet>>

BookUpserts ==
  /\ book.at = "upsert"
  /\ row' = [row EXCEPT ![book.rec.id] = AsRow(book.rec)]
  /\ book' = [book EXCEPT !.at = "pulling", !.rec = None]
  /\ UNCHANGED <<now, doc, outbox, minted, run, task, used, accepted, own, quiet>>

BookEnds ==
  /\ book.at = "pulling" /\ book.docs = {}
  /\ book' = IdleBook
  /\ UNCHANGED <<now, row, doc, outbox, minted, run, task, used, accepted, own, quiet>>

-----------------------------------------------------------------------------
(* The process dies: SQLite and the server keep what they have.             *)
Crash ==
  /\ used.crashes < MaxCrashes
  /\ used' = [used EXCEPT !.crashes = @ + 1]
  /\ run' = IdleRun
  /\ book' = IdleBook
  /\ task' = [t \in Tasks |-> IdleTask]
  /\ Disturbed
  /\ UNCHANGED <<now, row, doc, outbox, minted, accepted, own>>

LocalWrite ==
  \E t \in Tasks :
    \/ \E kind \in {"CREATE", "UPDATE", "DELETE"}, i \in Ids : TaskReads(t, kind, i)
    \/ TaskStamps(t)
    \/ TaskCommits(t)

Push ==
  \/ RunStarts \/ Examines \/ Probes \/ Judges \/ Upserts
  \/ Puts \/ Posts \/ PutsOwn \/ Deletes
  \/ NetworkFails \/ Rejected
  \/ Settles \/ Adopts \/ Stores \/ Drops \/ Parks
  \/ FindsDuplicate \/ FindsTaken \/ Restores \/ PutsTheirs \/ WritesBack \/ Discards

Pull == Pulls \/ PullsRecord \/ RunEnds

PullBook == BookStarts \/ BookJudges \/ BookUpserts \/ BookEnds

Next ==
  \/ LocalWrite
  \/ \E i \in Ids, gone \in BOOLEAN : OtherDeviceWrites(i, gone)
  \/ Push
  \/ Pull
  \/ PullBook
  \/ Crash

Spec == Init /\ [][Next]_vars

-----------------------------------------------------------------------------
(* "That pairing is what makes an offline edit survive an app restart and   *)
(* still reach the server" (syncableTable.ts): an edit the device shows and *)
(* the server never had is still queued, whatever pushes, pulls, crashes    *)
(* and lost replies came in between.                                        *)
ShownEditIsSafe ==
  \A i \in Ids :
    row[i] # None /\ row[i].edit \in own \ accepted =>
      outbox[i] # None /\ outbox[i].key = row[i].edit

(* A row whose push the server carried out and this device died before      *)
(* adopting (push(): remove, then adoptPushResult): it keeps the stamp of   *)
(* this device's clock, and a pull takes no document that is not later.     *)
HeldBack(i) ==
  /\ LiveRow(i) /\ ~row[i].synced /\ outbox[i] = None
  /\ LiveDoc(i) /\ row[i].updated >= doc[i].updated

(* After a run that nothing disturbed, the device shows what the server     *)
(* has; what is still queued is parked, and a tombstone stays a tombstone.  *)
(* A row that is held back may show less.                                   *)
QuietRunSettles ==
  At("pulling") /\ run.docs = {} /\ quiet =>
    \A i \in Ids :
      \/ outbox[i] # None /\ outbox[i].status # "PENDING"
      \/ row[i] # None /\ row[i].deleted
      \/ row[i] = None /\ doc[i] = None
      \/ LiveRow(i) /\ LiveDoc(i) /\ row[i].edit = doc[i].edit
      \/ HeldBack(i)

(* LocatorCollision, DownloadRestoreCollision: two devices that chose two   *)
(* ids for one thing end up with one record, and the run that found out     *)
(* leaves one on the device.                                                *)
QuietRunUnifies ==
  At("pulling") /\ run.docs = {} /\ quiet =>
    \A i, j \in {k \in Ids : LiveRow(k) /\ outbox[k] = None} : i = j

(* Several ids for one thing become one, the device shows what the server    *)
(* has, and no edit is lost on the way (syncEngine.ts).                      *)
UnifiesSafely == ShownEditIsSafe /\ QuietRunSettles /\ QuietRunUnifies

-----------------------------------------------------------------------------
(* What comments of the source say, and interleavings contradict.           *)

(* "different means a genuine concurrent write" (syncEngine.ts,             *)
(* serverHasDiverged): no edit of this device is dropped in favour of       *)
(* another edit of this device.                                             *)
OnlyOthersWinConflicts ==
  At("drop") /\ run.then = "conflict" => run.rec.edit \notin own

(* "Whoever does the comparison, the later updatedAt wins" (syncEngine.ts,  *)
(* invariant 3): an operation that is dropped carries an earlier stamp than *)
(* the record it is dropped for, or that record is a delete.                *)
LaterStampWins ==
  [][At("drop") /\ run.then = "conflict" /\ outbox' # outbox
       => run.rec.deleted \/ run.rec.updated > Cur.updated]_vars

(* "a few seconds of skew is enough to throw away a page turn"              *)
(* (serverHasDiverged, of why it compares base versions): nor does a pull   *)
(* pass over what another device has written since.                         *)
SkewHidesNothing ==
  At("pulling") /\ run.docs = {} /\ quiet =>
    \A i \in Ids : HeldBack(i) => row[i].edit = doc[i].edit

(* "nothing to tombstone, only to discard" (syncEngine.ts,                  *)
(* DownloadRestoreCollision): discarding the device's own id leaves the     *)
(* record that was restored in its place.                                   *)
DownloadIsKept ==
  [][At("discard") /\ ~At("discard")' /\ (\E i \in Ids : LiveRow(i))
       => \E i \in Ids : LiveRow(i)']_vars
=============================================================================
