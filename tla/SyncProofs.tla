----------------------------- MODULE SyncProofs -----------------------------
(* What sync keeps of an edit, for every number of records, fields, saves,    *)
(* runs, failures and deaths: what this device shows of its own, and the      *)
(* server never had, stays queued - as a whole record (SyncEngine) and field  *)
(* by field (Preferences) - and no preference goes back to an earlier choice. *)
(* After a run that nothing disturbed device and server agree.                *)
EXTENDS SyncEngine, Preferences, FiniteSetTheorems, SequenceTheorems, TLAPS

-----------------------------------------------------------------------------
(* SyncEngine.                                                                *)

Run == [at : Places, todo : Seq(Op), base : Stamps \union {None},
        rec : Record \union {None}, then : Places, docs : SUBSET Record]
Book == [at : {"idle", "pulling", "upsert"}, rec : Record \union {None}, docs : SUBSET Record]
Task == [at : {"idle", "read", "stamped"}, op : Op \union {None}, base : Stamps \union {None},
         prev : [updated : Stamps \union {None}, base : Stamps \union {None}]]
Used == [edits : 0..MaxEdits, remote : 0..MaxRemote, books : 0..MaxBooks,
         faults : 0..MaxFaults, crashes : 0..MaxCrashes]

(* What comes from the server is an edit it accepted, or not this device's:   *)
(* neither made here nor about to be.                                         *)
Busy(t) == task[t].at # "idle"
KnownEdits == accepted \union
  {e \in 0..(NextEdit - 1) : e \notin own /\ \A t \in Tasks : Busy(t) => task[t].op.key # e}

(* Every edit has a number of its own, what is queued was committed, and what *)
(* this device shows is its own or known.                                     *)
TasksOK ==
  \A t \in Tasks : Busy(t) =>
    /\ task[t].op # None
    /\ task[t].op.key \notin own /\ task[t].op.key < NextEdit
    /\ \A u \in Tasks : Busy(u) /\ t # u => task[t].op.key # task[u].op.key
DataOK ==
  /\ own \subseteq 0..(NextEdit - 1) /\ accepted \subseteq own
  /\ \A i \in Ids : outbox[i] # None => outbox[i].key \in own
  /\ \A i \in Ids : doc[i] # None => doc[i].edit \in KnownEdits
  /\ \A i \in Ids : row[i] # None => row[i].edit \in own \union KnownEdits

BookOK ==
  /\ book.at = "upsert" => book.rec # None
  /\ book.rec # None => book.rec.edit \in KnownEdits
  /\ \A r \in book.docs : r.edit \in KnownEdits

(* A run has the operation it works on, and the record it works with; a       *)
(* conflict is about the operation's own record.  It takes an operation out   *)
(* of the outbox only when the server has had it, or the row shows it no more. *)
Judging == run.at \in {"judge", "upsert"}
HasOp ==
  run.at \notin {"idle", "next", "pulling"} /\ ~(Judging /\ run.then = "pulling")
    => run.todo # <<>>
HasRec ==
  /\ run.at \in {"judge", "upsert", "store", "restore", "putTheirs", "writeBack"}
       => run.rec # None
  /\ Judging => run.then \in {"conflict", "discard", "pulling"}
  /\ Judging /\ run.then = "conflict" => run.rec.id = Cur.id
  /\ run.at = "restore" => doc[run.rec.id] # None
MayDrop ==
  /\ run.at = "settle" => Cur.key \in accepted
  /\ run.at = "drop" => \/ Cur.key \in accepted
                        \/ row[Cur.id] = None
                        \/ row[Cur.id].edit # Cur.key
RunOK ==
  /\ HasOp /\ HasRec /\ MayDrop
  /\ \A n \in 1..Len(run.todo) : run.todo[n].key \in own
  /\ run.rec # None => run.rec.edit \in KnownEdits
  /\ \A r \in run.docs : r.edit \in KnownEdits

SyncInv == TypeOK /\ TasksOK /\ DataOK /\ BookOK /\ RunOK /\ ShownEditIsSafe
-----------------------------------------------------------------------------
LEMMA SyncConstants ==
  /\ Skew \in Int /\ MaxRetries \in Nat \ {0}
  /\ MaxEdits \in Nat /\ MaxRemote \in Nat /\ MaxBooks \in Nat /\ MaxFaults \in Nat
  /\ MaxCrashes \in Nat
  /\ None \notin Int /\ None \notin Ids /\ None \notin Row /\ None \notin Doc
  /\ None \notin Record /\ None \notin Op
BY SkewAssumption, BoundsAssumption, NoneAssumption, NoRecordAssumption

LEMMA SyncTypes ==
  TypeOK <=>
    /\ now \in Nat /\ row \in [Ids -> Row \union {None}] /\ doc \in [Ids -> Doc \union {None}]
    /\ outbox \in [Ids -> Op \union {None}] /\ minted \subseteq Ids
    /\ run \in Run /\ book \in Book /\ task \in [Tasks -> Task] /\ used \in Used
    /\ accepted \subseteq Nat /\ own \subseteq Nat /\ quiet \in BOOLEAN
BY DEF TypeOK, Run, Book, Task, Used, Edits

(* Where the run goes.                                                        *)
LEMMA Idle == IdleRun \in Run /\ IdleBook \in Book /\ IdleTask \in Task
<1>1. <<>> \in Seq(Op)
  BY EmptySeq
<1>2. IdleRun \in Run
  BY <1>1 DEF IdleRun, Run, Places
<1>3. IdleBook \in Book
  BY DEF IdleBook, Book
<1>4. IdleTask \in Task
  BY DEF IdleTask, Task, Unwritten
<1>5. QED
  BY <1>2, <1>3, <1>4

LEMMA Goes ==
  ASSUME run \in Run, NEW p \in Places, Goto(p)
  PROVE  /\ run' \in Run /\ run'.at = p
         /\ UNCHANGED <<run.todo, run.base, run.rec, run.then, run.docs>>
BY DEF Goto, Run

LEMMA GoesWith ==
  ASSUME run \in Run, NEW p \in Places, NEW x \in Record \union {None}, GotoWith(p, x)
  PROVE  /\ run' \in Run /\ run'.at = p /\ run'.rec = x
         /\ UNCHANGED <<run.todo, run.base, run.then, run.docs>>
BY DEF GotoWith, Run

LEMMA Judgement ==
  ASSUME run \in Run, NEW x \in Record, NEW p \in Places,
         run' = [run EXCEPT !.at = "judge", !.rec = x, !.then = p]
  PROVE  /\ run' \in Run /\ run'.at = "judge" /\ run'.rec = x /\ run'.then = p
         /\ UNCHANGED <<run.todo, run.base, run.docs>>
BY DEF Run, Places

(* The operation at the head of the run's list, and those after it.           *)
LEMMA Todo ==
  ASSUME run \in Run, run.todo # <<>>
  PROVE  /\ Cur \in Op /\ Cur = run.todo[1] /\ Cur.id \in Ids /\ Cur.key \in Nat
         /\ Len(run.todo) \in Nat \ {0} /\ Tail(run.todo) \in Seq(Op)
         /\ Len(Tail(run.todo)) = Len(run.todo) - 1
         /\ \A n \in 1..Len(Tail(run.todo)) : Tail(run.todo)[n] = run.todo[n + 1]
<1>1. run.todo \in Seq(Op)
  BY DEF Run
<1>2. /\ Head(run.todo) \in Op /\ Head(run.todo) = run.todo[1] /\ Tail(run.todo) \in Seq(Op)
      /\ Len(run.todo) \in Nat \ {0} /\ Len(Tail(run.todo)) = Len(run.todo) - 1
      /\ \A n \in 1..Len(Tail(run.todo)) : Tail(run.todo)[n] = run.todo[n + 1]
  BY <1>1
<1>3. QED
  BY <1>2 DEF Cur, Op, Edits

LEMMA GoesOn ==
  ASSUME run \in Run, run.todo # <<>>, NextOp
  PROVE  /\ run' \in Run /\ run'.at = "next" /\ run'.todo = Tail(run.todo)
         /\ run'.rec = None /\ run'.docs = {} /\ run'.then = "idle"
<1>1. Tail(run.todo) \in Seq(Op)
  BY Todo
<1>2. run' = [IdleRun EXCEPT !.at = "next", !.todo = Tail(run.todo)]
  BY DEF NextOp
<1>3. IdleRun \in Run
  BY Idle
<1>4. QED
  BY <1>1, <1>2, <1>3 DEF IdleRun, Run, Places

LEMMA Requested ==
  ASSUME NEW op \in Op
  PROVE  FirstRequest(op) \in {"post", "put", "delete"} /\ FirstRequest(op) \in Places
<1>1. op.kind \in {"CREATE", "UPDATE", "DELETE"}
  BY DEF Op
<1>2. QED
  BY <1>1 DEF FirstRequest, Places

LEMMA Fetched ==
  ASSUME doc \in [Ids -> Doc \union {None}]
  PROVE  /\ \A i \in Ids : doc[i] # None =>
              DocRecord(i) \in Record /\ DocRecord(i).id = i /\ DocRecord(i).edit = doc[i].edit
         /\ AllDocs \subseteq Record
<1>1. \A i \in Ids : doc[i] # None =>
        DocRecord(i) \in Record /\ DocRecord(i).id = i /\ DocRecord(i).edit = doc[i].edit
  BY DEF DocRecord, Record, Doc
<1>2. QED
  BY <1>1 DEF AllDocs

LEMMA Rowed == \A x \in Record : AsRow(x) \in Row /\ AsRow(x).edit = x.edit
BY DEF AsRow, Record, Row

(* A run is of operations that are queued, and of all that are due.           *)
LEMMA Started ==
  ASSUME TypeOK, RunStarts
  PROVE  /\ run' \in Run /\ run'.at = "next" /\ run'.rec = None /\ run'.docs = {}
         /\ quiet' \in BOOLEAN
         /\ \A n \in 1..Len(run'.todo) :
              \E i \in Ids : outbox[i] # None /\ run'.todo[n] = outbox[i]
         /\ \A i \in Ids : outbox[i] # None /\ outbox[i].status = "PENDING" =>
              \E n \in 1..Len(run'.todo) : run'.todo[n] = outbox[i]
<1> DEFINE Ops(due) == {outbox[i] : i \in due \union
                          {j \in Ids : outbox[j] # None /\ outbox[j].status = "PENDING"}}
<1>1. PICK due \in SUBSET {i \in Ids : outbox[i] # None /\ outbox[i].status = "FAILED"} :
        \E todo \in SetToSeqs(Ops(due)) : run' = [IdleRun EXCEPT !.at = "next", !.todo = todo]
  BY DEF RunStarts
<1>2. PICK todo \in SetToSeqs(Ops(due)) :
        run' = [IdleRun EXCEPT !.at = "next", !.todo = todo]
  BY <1>1
<1> DEFINE queued == due \union {j \in Ids : outbox[j] # None /\ outbox[j].status = "PENDING"}
<1>3. queued \in SUBSET Ids /\ \A i \in queued : outbox[i] # None /\ outbox[i] \in Op
  BY <1>1, SyncTypes
<1>4. IsFiniteSet(queued)
  BY <1>3, FS_Subset, IdsAssumption
<1>5. Ops(due) = {outbox[i] : i \in queued}
  OBVIOUS
<1> HIDE DEF queued
<1>6. IsFiniteSet({outbox[i] : i \in queued})
  <2>1. PICK m \in Nat : ExistsSurjection(1..m, queued)
    BY <1>4, FS_NatSurjection
  <2>2. PICK f \in [1..m -> queued] : \A i \in queued : \E k \in 1..m : f[k] = i
    BY <2>1 DEF ExistsSurjection, Surjection
  <2> DEFINE g == [k \in 1..m |-> outbox[f[k]]]
  <2>3. g \in Surjection(1..m, {outbox[i] : i \in queued})
    BY <2>2 DEF Surjection
  <2>4. ExistsSurjection(1..m, {outbox[i] : i \in queued})
    BY <2>3 DEF ExistsSurjection
  <2>5. QED
    BY <2>1, <2>4, FS_NatSurjection
<1>7. Cardinality(Ops(due)) \in Nat
  BY <1>5, <1>6, FS_CardinalityType
<1>8. todo \in [1..Cardinality(Ops(due)) -> Ops(due)]
  BY <1>2 DEF SetToSeqs
<1>9. Ops(due) \subseteq Op
  BY <1>3, <1>5
<1>16. \A i \in Ids : outbox[i] # None /\ outbox[i].status = "PENDING" => outbox[i] \in Ops(due)
  OBVIOUS
<1>17. IsFiniteSet(Ops(due))
  BY <1>5, <1>6
<1>18. \A m, n \in 1..Cardinality(Ops(due)) : m # n => todo[m] # todo[n]
  BY <1>2 DEF SetToSeqs
<1> HIDE DEF Ops
<1>10. todo \in Seq(Op) /\ Len(todo) = Cardinality(Ops(due))
       /\ \A n \in 1..Len(todo) : todo[n] \in Ops(due)
  BY <1>7, <1>8, <1>9
<1>11. IdleRun \in Run
  BY Idle
<1>12. /\ run' \in Run /\ run'.at = "next" /\ run'.todo = todo /\ run'.rec = None
       /\ run'.docs = {}
  BY <1>2, <1>10, <1>11 DEF IdleRun, Run, Places
<1>13. \A n \in 1..Len(todo) : \E i \in Ids : outbox[i] # None /\ todo[n] = outbox[i]
  BY <1>3, <1>5, <1>10
<1>14. quiet' \in BOOLEAN
  BY DEF RunStarts
<1>15. \A i \in Ids : outbox[i] # None /\ outbox[i].status = "PENDING" =>
         \E n \in 1..Len(todo) : todo[n] = outbox[i]
  <2>1. todo \in Injection(1..Cardinality(Ops(due)), Ops(due))
    BY <1>8, <1>18 DEF Injection, IsInjective
  <2>2. Cardinality(1..Cardinality(Ops(due))) = Cardinality(Ops(due))
    BY <1>7, FS_Interval
  <2>3. todo \in Surjection(1..Cardinality(Ops(due)), Ops(due))
    BY <1>17, <2>1, <2>2, FS_Injection
  <2>4. QED
    BY <1>10, <1>16, <2>3 DEF Surjection
<1>19. QED
  BY <1>12, <1>13, <1>14, <1>15

(* What an answer that is lost leaves.                                        *)
LEMMA Broken ==
  ASSUME TypeOK, Breaks
  PROVE  /\ used' \in Used /\ used'.edits = used.edits /\ used'.remote = used.remote
         /\ quiet' = FALSE
         /\ \/ run' = IdleRun
            \/ /\ run.at \in {"findTaken", "restore", "putTheirs"}
               /\ run' \in Run /\ run'.at = "fail"
               /\ UNCHANGED <<run.todo, run.base, run.rec, run.then, run.docs>>
<1>1. /\ used.faults < MaxFaults /\ used \in Used /\ run \in Run
      /\ used' = [used EXCEPT !.faults = @ + 1] /\ quiet' = FALSE
  BY SyncTypes DEF Breaks, Disturbed
<1>2. used' \in Used /\ used'.edits = used.edits /\ used'.remote = used.remote
  BY <1>1, SyncConstants DEF Used
<1>3. CASE run.at \in {"findTaken", "restore", "putTheirs"}
  <2>1. Goto("fail") /\ "fail" \in Places
    BY <1>3 DEF Breaks, Places
  <2>2. QED
    BY <1>1, <1>2, <1>3, <2>1, Goes
<1>4. CASE run.at \notin {"findTaken", "restore", "putTheirs"}
  BY <1>1, <1>2, <1>4 DEF Breaks
<1>5. QED
  BY <1>3, <1>4

(* What a request leaves that writes the document.                            *)
LEMMA Wrote ==
  ASSUME TypeOK, NEW i \in Ids, NEW key \in Nat, NEW gone \in BOOLEAN,
         NEW place \in Places, Writes(i, key, gone, place)
  PROVE  /\ now' \in Nat /\ doc' \in [Ids -> Doc \union {None}]
         /\ doc'[i].edit = key /\ \A j \in Ids \ {i} : doc'[j] = doc[j]
         /\ used' \in Used /\ used'.edits = used.edits /\ used'.remote = used.remote
         /\ quiet' \in BOOLEAN
         /\ \/ /\ run' \in Run /\ run'.at = place /\ run'.rec # None /\ run'.rec.id = i
               /\ run'.rec.edit = key /\ UNCHANGED <<run.todo, run.then, run.docs>>
            \/ run' = IdleRun
            \/ /\ run.at \in {"findTaken", "restore", "putTheirs"}
               /\ run' \in Run /\ run'.at = "fail"
               /\ UNCHANGED <<run.todo, run.base, run.rec, run.then, run.docs>>
         /\ UNCHANGED <<row, outbox, minted, book, task, own>>
<1>1. /\ now \in Nat /\ run \in Run /\ used \in Used /\ quiet \in BOOLEAN
      /\ doc \in [Ids -> Doc \union {None}]
      /\ doc' = [doc EXCEPT ![i] = Stored(key, gone)] /\ now' = now + 1
      /\ UNCHANGED <<row, outbox, minted, book, task, own>>
  BY SyncTypes DEF Writes, ClockAdvances
<1>2. Stored(key, gone) \in Doc /\ Stored(key, gone).edit = key
  BY <1>1 DEF Stored, Doc, ServerNow, Edits, Stamps
<1>3. /\ now' \in Nat /\ doc' \in [Ids -> Doc \union {None}]
      /\ doc'[i].edit = key /\ \A j \in Ids \ {i} : doc'[j] = doc[j]
  BY <1>1, <1>2
<1> DEFINE x == [id |-> i, edit |-> key, updated |-> ServerNow, deleted |-> gone]
<1>4. CASE GotoWith(place, x) /\ UNCHANGED <<used, quiet>>
  <2>1. x \in Record /\ x.id = i /\ x.edit = key
    BY <1>1 DEF Record, ServerNow, Edits, Stamps
  <2>2. x # None
    BY <2>1, SyncConstants
  <2> HIDE DEF x
  <2>3. /\ run' \in Run /\ run'.at = place /\ run'.rec = x
        /\ UNCHANGED <<run.todo, run.base, run.then, run.docs>>
    BY <1>1, <1>4, <2>1, GoesWith
  <2>4. QED
    BY <1>1, <1>3, <1>4, <2>1, <2>2, <2>3
<1>5. CASE Breaks
  <2>1. /\ used' \in Used /\ used'.edits = used.edits /\ used'.remote = used.remote
        /\ quiet' = FALSE
        /\ \/ run' = IdleRun
           \/ /\ run.at \in {"findTaken", "restore", "putTheirs"}
              /\ run' \in Run /\ run'.at = "fail"
              /\ UNCHANGED <<run.todo, run.base, run.rec, run.then, run.docs>>
    BY <1>5, Broken
  <2>2. QED
    BY <1>1, <1>3, <2>1
<1>6. QED
  BY <1>4, <1>5 DEF Writes

(* What the step conclusions are put together from.                           *)
LEMMA Typed ==
  ASSUME now' \in Nat, row' \in [Ids -> Row \union {None}],
         doc' \in [Ids -> Doc \union {None}], outbox' \in [Ids -> Op \union {None}],
         minted' \subseteq Ids, run' \in Run, book' \in Book, task' \in [Tasks -> Task],
         used' \in Used, accepted' \subseteq Nat, own' \subseteq Nat, quiet' \in BOOLEAN
  PROVE  TypeOK'
BY DEF TypeOK, Run, Book, Task, Used, Edits

(* An edit that is known stays so: it is accepted for good, and what is made  *)
(* here has a number that nothing had before.                                 *)
LEMMA KnownGrows ==
  ASSUME accepted \subseteq accepted', UNCHANGED <<own, task, used.edits, used.remote>>
  PROVE  KnownEdits \subseteq KnownEdits'
BY DEF KnownEdits, Busy, NextEdit

LEMMA KnownAreNat == ASSUME TypeOK PROVE NextEdit \in Nat /\ KnownEdits \subseteq Nat
<1>1. used.edits \in Nat /\ used.remote \in Nat /\ accepted \subseteq Nat
  BY SyncTypes, SyncConstants DEF Used
<1>2. NextEdit \in Nat
  BY <1>1 DEF NextEdit
<1>3. KnownEdits \subseteq accepted \union 0..(NextEdit - 1)
  BY DEF KnownEdits
<1>4. 0..(NextEdit - 1) \subseteq Nat
  BY <1>2
<1>5. QED
  BY <1>1, <1>2, <1>3, <1>4

(* What the device does not take from the server, it does not lose.           *)
LEMMA RunKept ==
  ASSUME RunOK, TypeOK, UNCHANGED run, own \subseteq own', accepted \subseteq accepted',
         KnownEdits \subseteq KnownEdits', \A i \in Ids : doc[i] # None => doc'[i] # None,
         run.at = "drop" => \/ Cur.key \in accepted
                            \/ row'[Cur.id] = row[Cur.id]
                            \/ row'[Cur.id] = None
                            \/ row'[Cur.id].edit # Cur.key
  PROVE  RunOK'
<1>1. run \in Run /\ run.rec \in Record \union {None}
  BY SyncTypes DEF Run
<1>2. Cur' = Cur
  BY DEF Cur
<1>3. HasOp'
  BY DEF RunOK, HasOp, Judging
<1>4. HasRec'
  BY <1>1, <1>2 DEF RunOK, HasRec, Judging, Record
<1>5. MayDrop'
  BY <1>2 DEF RunOK, MayDrop
<1>6. QED
  BY <1>3, <1>4, <1>5 DEF RunOK

(* The operation in hand is an edit of this device.                           *)
LEMMA Held ==
  ASSUME TypeOK, RunOK
  PROVE  /\ run.todo # <<>> => Cur \in Op /\ Cur.id \in Ids /\ Cur.key \in own
         /\ run.at \notin {"idle", "next", "pulling", "judge", "upsert"} =>
              Cur \in Op /\ Cur.id \in Ids /\ Cur.key \in own /\ run.todo # <<>>
<1>1. run.todo # <<>> => Cur \in Op /\ Cur.id \in Ids /\ Cur.key \in own
  <2>1. SUFFICES ASSUME run.todo # <<>>
                 PROVE  Cur \in Op /\ Cur.id \in Ids /\ Cur.key \in own
    OBVIOUS
  <2>2. Cur \in Op /\ Cur = run.todo[1] /\ Cur.id \in Ids /\ Len(run.todo) \in Nat \ {0}
    BY <2>1, SyncTypes, Todo
  <2>3. QED
    BY <2>2 DEF RunOK
<1>2. QED
  BY <1>1 DEF RunOK, HasOp, Judging

LEMMA BookKept ==
  ASSUME BookOK, UNCHANGED book, KnownEdits \subseteq KnownEdits'
  PROVE  BookOK'
BY DEF BookOK

LEMMA TasksKept ==
  ASSUME TasksOK, UNCHANGED <<task, own, used.edits, used.remote>>
  PROVE  TasksOK'
BY DEF TasksOK, Busy, NextEdit

LEMMA DataKept ==
  ASSUME DataOK, ShownEditIsSafe,
         UNCHANGED <<row, doc, outbox, own, accepted, task, used.edits, used.remote>>
  PROVE  DataOK' /\ ShownEditIsSafe'
<1>1. KnownEdits \subseteq KnownEdits'
  BY KnownGrows
<1>2. NextEdit' = NextEdit
  BY DEF NextEdit
<1>3. QED
  BY <1>1, <1>2 DEF DataOK, ShownEditIsSafe

(* A row that is known, or none, in the place of what was shown.              *)
LEMMA RowPut ==
  ASSUME TypeOK, DataOK, ShownEditIsSafe, NEW i \in Ids, NEW x \in Row \union {None},
         x # None => x.edit \in KnownEdits, row' = [row EXCEPT ![i] = x],
         UNCHANGED <<doc, outbox, own, accepted, task, used.edits, used.remote>>
  PROVE  DataOK' /\ ShownEditIsSafe' /\ row' \in [Ids -> Row \union {None}]
<1>1. KnownEdits \subseteq KnownEdits' /\ NextEdit' = NextEdit
  BY KnownGrows DEF NextEdit
<1>2. row \in [Ids -> Row \union {None}]
  BY SyncTypes
<1>3. row'[i] = x /\ \A j \in Ids \ {i} : row'[j] = row[j]
  BY <1>2
<1>4. DataOK'
  BY <1>1, <1>3 DEF DataOK
<1>5. x # None => x.edit \notin own \ accepted
  BY DEF KnownEdits
<1>6. ShownEditIsSafe'
  BY <1>3, <1>5 DEF ShownEditIsSafe
<1>7. QED
  BY <1>2, <1>4, <1>6

(* The run alone moves.                                                       *)
LEMMA RunAlone ==
  ASSUME SyncInv, UNCHANGED <<now, row, doc, outbox, minted, book, task, accepted, own>>,
         used' \in Used, UNCHANGED <<used.edits, used.remote>>,
         quiet' \in BOOLEAN, run' \in Run, RunOK'
  PROVE  SyncInv'
<1>1. TypeOK'
  BY Typed, SyncTypes DEF SyncInv
<1>2. BookOK'
  BY BookKept, KnownGrows DEF SyncInv
<1>3. TasksOK' /\ DataOK' /\ ShownEditIsSafe'
  BY TasksKept, DataKept DEF SyncInv
<1>4. QED
  BY <1>1, <1>2, <1>3 DEF SyncInv

(* A run without anything in hand is in order, wherever it stands.            *)
LEMMA RunIdle ==
  ASSUME run' = IdleRun
  PROVE  run' \in Run /\ RunOK'
<1>1. run' \in Run
  BY Idle
<1>2. run'.at = "idle" /\ run'.todo = <<>> /\ run'.rec = None /\ run'.docs = {}
  BY DEF IdleRun
<1>3. Len(run'.todo) = 0
  BY <1>2
<1>4. HasOp' /\ HasRec' /\ MayDrop'
  BY <1>2 DEF HasOp, HasRec, MayDrop, Judging
<1>5. QED
  BY <1>1, <1>2, <1>3, <1>4 DEF RunOK

LEMMA RunGoesOn ==
  ASSUME SyncInv, run.todo # <<>>, NextOp, own \subseteq own'
  PROVE  run' \in Run /\ RunOK'
<1>1. /\ run' \in Run /\ run'.at = "next" /\ run'.todo = Tail(run.todo)
      /\ run'.rec = None /\ run'.docs = {}
  BY GoesOn, SyncTypes DEF SyncInv
<1>2. /\ Len(run.todo) \in Nat \ {0} /\ Len(Tail(run.todo)) = Len(run.todo) - 1
      /\ \A n \in 1..Len(Tail(run.todo)) : Tail(run.todo)[n] = run.todo[n + 1]
  BY Todo, SyncTypes DEF SyncInv
<1>3. HasOp' /\ HasRec' /\ MayDrop'
  BY <1>1 DEF HasOp, HasRec, MayDrop, Judging
<1>4. \A n \in 1..Len(run'.todo) : run'.todo[n].key \in own'
  BY <1>1, <1>2 DEF SyncInv, RunOK
<1>5. QED
  BY <1>1, <1>3, <1>4 DEF RunOK

(* From one place to the next, with the operation in hand.                    *)
LEMMA RunTurns ==
  ASSUME SyncInv, run' \in Run, run'.todo = run.todo, run.todo # <<>>,
         run'.docs \subseteq run.docs, run'.rec # None => run'.rec.edit \in KnownEdits',
         own \subseteq own', KnownEdits \subseteq KnownEdits', HasRec', MayDrop'
  PROVE  RunOK'
<1>1. HasOp'
  BY DEF HasOp
<1>2. QED
  BY <1>1 DEF RunOK, SyncInv

LEMMA RunGoes ==
  ASSUME SyncInv, NEW p \in Places, Goto(p),
         run.todo # <<>> \/ p \in {"idle", "next", "pulling"},
         p \notin {"judge", "upsert", "store", "restore", "putTheirs", "writeBack",
                   "settle", "drop"},
         own \subseteq own', KnownEdits \subseteq KnownEdits'
  PROVE  run' \in Run /\ RunOK'
<1>1. /\ run' \in Run /\ run'.at = p
      /\ UNCHANGED <<run.todo, run.rec, run.docs>>
  BY Goes, SyncTypes DEF SyncInv
<1>2. HasOp' /\ HasRec' /\ MayDrop'
  BY <1>1 DEF HasOp, HasRec, MayDrop, Judging
<1>3. QED
  BY <1>1, <1>2 DEF RunOK, SyncInv

LEMMA RunJudges ==
  ASSUME SyncInv, NEW x \in Record, x.edit \in KnownEdits,
         NEW p \in {"conflict", "discard", "pulling"},
         p = "conflict" => x.id = Cur.id, p # "pulling" => run.todo # <<>>,
         run' \in Run, run'.at = "judge", run'.rec = x, run'.then = p, run'.todo = run.todo,
         run'.docs \subseteq run.docs, own \subseteq own', KnownEdits \subseteq KnownEdits'
  PROVE  RunOK'
<1>1. x # None
  BY SyncConstants
<1>2. Cur' = Cur
  BY DEF Cur
<1>3. HasOp' /\ HasRec' /\ MayDrop'
  BY <1>1, <1>2 DEF HasOp, HasRec, MayDrop, Judging
<1>4. QED
  BY <1>3 DEF RunOK, SyncInv

-----------------------------------------------------------------------------
(* The device's own writes.                                                   *)

LEMMA ReadsKeep ==
  ASSUME SyncInv, NEW t \in Tasks, NEW i \in Ids, NEW kind \in {"CREATE", "UPDATE", "DELETE"},
         TaskReads(t, kind, i)
  PROVE  SyncInv'
<1> DEFINE op == [id |-> i, key |-> NextEdit, kind |-> kind, updated |-> DeviceNow,
                  status |-> "PENDING", retries |-> 0]
           base == IF row[i] = None \/ LocksFirst(kind) THEN None ELSE row[i].base
           new == [at |-> "read", prev |-> Unwritten, base |-> base, op |-> op]
<1>1. /\ used.edits < MaxEdits /\ now' = now + 1 /\ quiet' = FALSE
      /\ task[t].at = "idle" /\ task' = [task EXCEPT ![t] = new]
      /\ minted' = minted \union {i} /\ used' = [used EXCEPT !.edits = @ + 1]
      /\ UNCHANGED <<row, doc, outbox, run, book, accepted, own>>
  BY DEF TaskReads, ClockAdvances, Disturbed
<1>2. TypeOK /\ TasksOK /\ DataOK /\ BookOK /\ RunOK /\ ShownEditIsSafe
  BY DEF SyncInv
<1>3. /\ now \in Nat /\ row \in [Ids -> Row \union {None}] /\ minted \subseteq Ids
      /\ task \in [Tasks -> Task] /\ used \in Used
  BY <1>2, SyncTypes
<1>4. NextEdit \in Nat /\ KnownEdits \subseteq Nat
  BY <1>2, KnownAreNat
<1>5. op \in Op /\ op.key = NextEdit
  BY <1>3, <1>4, SyncConstants DEF Op, Edits, Stamps, DeviceNow
<1>6. op # None
  BY <1>5, SyncConstants
<1>7. base \in Stamps \union {None}
  BY <1>3 DEF Row
<1> HIDE DEF op, base
<1>8. new \in Task /\ new.at = "read" /\ new.op = op
  BY <1>5, <1>7 DEF Task, Unwritten
<1> HIDE DEF new
<1>9. task' \in [Tasks -> Task] /\ task'[t] = new /\ \A u \in Tasks \ {t} : task'[u] = task[u]
  BY <1>1, <1>3, <1>8
<1>10. used' \in Used /\ used'.edits = used.edits + 1 /\ used'.remote = used.remote
  BY <1>1, <1>3, SyncConstants DEF Used
<1>11. NextEdit' = NextEdit + 1
  BY <1>3, <1>10, SyncConstants DEF NextEdit, Used
<1>12. TypeOK'
  <2>1. now' \in Nat
    BY <1>1, <1>3
  <2>2. minted' \subseteq Ids
    BY <1>1, <1>3
  <2>3. quiet' \in BOOLEAN
    BY <1>1
  <2>4. QED
    BY <1>1, <1>2, <1>9, <1>10, <2>1, <2>2, <2>3, Typed, SyncTypes
<1>13. \A u \in Tasks : Busy(u)' => u = t \/ (Busy(u) /\ task'[u].op = task[u].op)
  BY <1>9 DEF Busy
<1>14. \A e \in KnownEdits : e < NextEdit
  BY <1>2, <1>4 DEF KnownEdits, DataOK
<1>15. KnownEdits \subseteq KnownEdits'
  BY <1>1, <1>4, <1>5, <1>8, <1>9, <1>11, <1>13, <1>14 DEF KnownEdits
<1>16. TasksOK'
  <2>1. Busy(t)' /\ task'[t].op # None /\ task'[t].op.key = NextEdit
    BY <1>5, <1>6, <1>8, <1>9 DEF Busy
  <2>2. \A u \in Tasks : Busy(u) => task[u].op.key \in Nat
    BY <1>2, <1>3 DEF TasksOK, Task, Op, Edits
  <2>3. NextEdit \notin own
    BY <1>2, <1>4 DEF DataOK
  <2>4. QED
    BY <1>1, <1>2, <1>4, <1>9, <1>11, <1>13, <2>1, <2>2, <2>3 DEF TasksOK
<1>17. DataOK'
  BY <1>1, <1>2, <1>4, <1>11, <1>15 DEF DataOK
<1>18. ShownEditIsSafe'
  BY <1>1, <1>2 DEF ShownEditIsSafe
<1>19. BookOK' /\ RunOK'
  BY <1>1, <1>2, <1>15, BookKept, RunKept
<1>20. QED
  BY <1>12, <1>16, <1>17, <1>18, <1>19 DEF SyncInv

LEMMA StampsKeep ==
  ASSUME SyncInv, NEW t \in Tasks, TaskStamps(t)
  PROVE  SyncInv'
<1> DEFINE old == row[task[t].op.id]
           prev == IF old = None THEN Unwritten
                   ELSE [updated |-> old.updated, base |-> old.base]
<1>1. /\ task[t].at = "read" /\ task' = [task EXCEPT ![t].at = "stamped", ![t].prev = prev]
      /\ UNCHANGED <<now, row, doc, outbox, minted, run, book, used, accepted, own, quiet>>
  BY DEF TaskStamps
<1>2. TypeOK /\ TasksOK /\ DataOK /\ BookOK /\ RunOK /\ ShownEditIsSafe
  BY DEF SyncInv
<1>3. row \in [Ids -> Row \union {None}] /\ task \in [Tasks -> Task]
  BY <1>2, SyncTypes
<1>4. task[t].op \in Op /\ task[t].op.id \in Ids
  BY <1>1, <1>2, <1>3 DEF TasksOK, Busy, Task, Op
<1>5. prev \in [updated : Stamps \union {None}, base : Stamps \union {None}]
  <2>1. CASE old = None
    BY <2>1 DEF Unwritten
  <2>2. CASE old # None
    BY <1>3, <1>4, <2>2 DEF Row
  <2>3. QED
    BY <2>1, <2>2
<1> HIDE DEF prev
<1>6. /\ task' \in [Tasks -> Task] /\ task'[t].at = "stamped" /\ task'[t].op = task[t].op
      /\ \A u \in Tasks \ {t} : task'[u] = task[u]
  BY <1>1, <1>3, <1>5 DEF Task
<1>7. \A u \in Tasks : (Busy(u)' <=> Busy(u)) /\ task'[u].op = task[u].op
  BY <1>1, <1>6 DEF Busy
<1>8. KnownEdits \subseteq KnownEdits' /\ NextEdit' = NextEdit
  BY <1>1, <1>7 DEF KnownEdits, NextEdit
<1>9. TypeOK'
  BY <1>1, <1>2, <1>6, Typed, SyncTypes
<1>10. TasksOK'
  <2>1. SUFFICES ASSUME NEW u \in Tasks, Busy(u)'
                 PROVE  /\ task'[u].op # None
                        /\ task'[u].op.key \notin own' /\ task'[u].op.key < NextEdit'
                        /\ \A v \in Tasks : Busy(v)' /\ u # v
                             => task'[u].op.key # task'[v].op.key
    BY DEF TasksOK
  <2>2. Busy(u) /\ task'[u].op = task[u].op
    BY <1>7, <2>1
  <2>3. \A v \in Tasks : Busy(v)' => Busy(v) /\ task'[v].op = task[v].op
    BY <1>7
  <2>4. own' = own
    BY <1>1
  <2>5. /\ task[u].op # None /\ task[u].op.key \notin own /\ task[u].op.key < NextEdit
        /\ \A v \in Tasks : Busy(v) /\ u # v => task[u].op.key # task[v].op.key
    BY <1>2, <2>2 DEF TasksOK
  <2>6. \A v \in Tasks : Busy(v)' /\ u # v => task'[u].op.key # task'[v].op.key
    BY <2>2, <2>3, <2>5
  <2>7. QED
    BY <1>8, <2>2, <2>4, <2>5, <2>6
<1>11. DataOK' /\ ShownEditIsSafe'
  BY <1>1, <1>2, <1>8 DEF DataOK, ShownEditIsSafe
<1>12. BookOK' /\ RunOK'
  BY <1>1, <1>2, <1>8, BookKept, RunKept
<1>13. QED
  BY <1>9, <1>10, <1>11, <1>12 DEF SyncInv

LEMMA CommitsKeep ==
  ASSUME SyncInv, NEW t \in Tasks, TaskCommits(t)
  PROVE  SyncInv'
<1> DEFINE op == task[t].op
           i == op.id
           stamp == MonotonicStamp(op.updated, task[t].prev.updated)
           x == [edit |-> op.key, updated |-> stamp, deleted |-> op.kind = "DELETE",
                 synced |-> FALSE,
                 base |-> IF task[t].prev.base # None THEN task[t].prev.base ELSE task[t].base]
           y == [op EXCEPT !.updated = stamp]
<1>1. /\ task[t].at = "stamped" /\ row' = [row EXCEPT ![i] = x]
      /\ outbox' = [outbox EXCEPT ![i] = y] /\ task' = [task EXCEPT ![t] = IdleTask]
      /\ own' = own \union {op.key}
      /\ UNCHANGED <<now, doc, minted, run, book, used, accepted, quiet>>
  BY DEF TaskCommits
<1>2. TypeOK /\ TasksOK /\ DataOK /\ BookOK /\ RunOK /\ ShownEditIsSafe
  BY DEF SyncInv
<1>3. /\ row \in [Ids -> Row \union {None}] /\ task \in [Tasks -> Task]
      /\ outbox \in [Ids -> Op \union {None}] /\ own \subseteq Nat
  BY <1>2, SyncTypes
<1>4. /\ Busy(t) /\ op \in Op /\ i \in Ids /\ op.key \in Nat /\ op.updated \in Stamps
      /\ op.key \notin own /\ op.key < NextEdit
  BY <1>1, <1>2, <1>3 DEF TasksOK, Busy, Task, Op, Edits
<1>5. /\ task[t].prev.updated \in Stamps \union {None}
      /\ task[t].prev.base \in Stamps \union {None} /\ task[t].base \in Stamps \union {None}
  BY <1>3 DEF Task
<1>6. stamp \in Stamps
  BY <1>4, <1>5 DEF MonotonicStamp, Stamps
<1> HIDE DEF stamp
<1>7. x \in Row /\ x.edit = op.key
  BY <1>4, <1>5, <1>6 DEF Row, Edits
<1>8. y \in Op /\ y.key = op.key
  BY <1>4, <1>6 DEF Op
<1>9. x # None /\ y # None
  BY <1>7, <1>8, SyncConstants
<1> HIDE DEF x, y, op, i
<1>10. row' \in [Ids -> Row \union {None}] /\ row'[i] = x
       /\ \A j \in Ids \ {i} : row'[j] = row[j]
  BY <1>1, <1>3, <1>4, <1>7
<1>11. outbox' \in [Ids -> Op \union {None}] /\ outbox'[i] = y
       /\ \A j \in Ids \ {i} : outbox'[j] = outbox[j]
  BY <1>1, <1>3, <1>4, <1>8
<1>12. task' \in [Tasks -> Task] /\ task'[t].at = "idle"
       /\ \A u \in Tasks \ {t} : task'[u] = task[u]
  BY <1>1, <1>3, Idle DEF IdleTask
<1>13. own' \subseteq Nat
  BY <1>1, <1>3, <1>4
<1>14. TypeOK'
  BY <1>1, <1>2, <1>10, <1>11, <1>12, <1>13, Typed, SyncTypes
<1>15. NextEdit' = NextEdit /\ NextEdit \in Nat
  BY <1>1, <1>2, KnownAreNat DEF NextEdit
<1>16. \A u \in Tasks : Busy(u)' => u # t /\ Busy(u) /\ task'[u].op = task[u].op
  BY <1>12 DEF Busy
<1>17. op = task[t].op
  BY DEF op
<1>18. KnownEdits \subseteq KnownEdits'
  BY <1>1, <1>4, <1>15, <1>16, <1>17 DEF KnownEdits
<1>19. TasksOK'
  BY <1>1, <1>2, <1>4, <1>15, <1>16, <1>17 DEF TasksOK
<1>20. DataOK'
  <2>1. own' \subseteq 0..(NextEdit' - 1) /\ accepted' \subseteq own'
    <3>1. own \subseteq 0..(NextEdit - 1) /\ accepted \subseteq own
      BY <1>2 DEF DataOK
    <3>2. op.key \in 0..(NextEdit - 1)
      BY <1>4, <1>15
    <3>3. QED
      BY <1>1, <1>15, <3>1, <3>2
  <2>2. op.key \in own'
    BY <1>1
  <2>3. \A j \in Ids : outbox'[j] # None => outbox'[j].key \in own'
    BY <1>1, <1>2, <1>8, <1>11, <2>2 DEF DataOK
  <2>4. \A j \in Ids : row'[j] # None => row'[j].edit \in own' \union KnownEdits'
    BY <1>1, <1>2, <1>7, <1>10, <1>18, <2>2 DEF DataOK
  <2>5. \A j \in Ids : doc'[j] # None => doc'[j].edit \in KnownEdits'
    BY <1>1, <1>2, <1>18 DEF DataOK
  <2>6. QED
    BY <2>1, <2>3, <2>4, <2>5 DEF DataOK
<1>21. ShownEditIsSafe'
  <2>1. SUFFICES ASSUME NEW j \in Ids, row'[j] # None, row'[j].edit \in own' \ accepted'
                 PROVE  outbox'[j] # None /\ outbox'[j].key = row'[j].edit
    BY DEF ShownEditIsSafe
  <2>2. CASE j = i
    BY <1>7, <1>8, <1>9, <1>10, <1>11, <2>2
  <2>3. CASE j # i
    <3>1. row[j] # None /\ row[j].edit \in own' /\ row[j].edit \notin accepted
      BY <1>1, <1>10, <2>1, <2>3
    <3>2. row[j].edit # op.key
      BY <1>2, <1>4, <1>17, <3>1 DEF DataOK, KnownEdits
    <3>3. QED
      BY <1>1, <1>2, <1>11, <2>3, <3>1, <3>2 DEF ShownEditIsSafe
  <2>4. QED
    BY <2>2, <2>3
<1>22. BookOK'
  BY <1>1, <1>2, <1>18, BookKept
<1>23. RunOK'
  <2>1. run.at = "drop" => Cur.id \in Ids /\ Cur.key \in own
    BY <1>2, Held
  <2>2. run.at = "drop" => row'[Cur.id] = row[Cur.id] \/ row'[Cur.id].edit # Cur.key
    BY <1>4, <1>7, <1>10, <2>1
  <2>3. QED
    BY <1>1, <1>2, <1>18, <2>2, RunKept
<1>24. QED
  BY <1>14, <1>19, <1>20, <1>21, <1>22, <1>23 DEF SyncInv

-----------------------------------------------------------------------------
(* The other devices, the book that is opened, and the process that dies.     *)

LEMMA OthersKeep ==
  ASSUME SyncInv, NEW i \in Ids, NEW gone \in BOOLEAN, OtherDeviceWrites(i, gone)
  PROVE  SyncInv'
<1>1. /\ used.remote < MaxRemote /\ doc' = [doc EXCEPT ![i] = Stored(NextEdit, gone)]
      /\ minted' = minted \union {i} /\ used' = [used EXCEPT !.remote = @ + 1]
      /\ now' = now + 1 /\ quiet' = FALSE
      /\ UNCHANGED <<row, outbox, run, book, task, accepted, own>>
  BY DEF OtherDeviceWrites, ClockAdvances, Disturbed
<1>2. TypeOK /\ TasksOK /\ DataOK /\ BookOK /\ RunOK /\ ShownEditIsSafe
  BY DEF SyncInv
<1>3. /\ now \in Nat /\ doc \in [Ids -> Doc \union {None}] /\ minted \subseteq Ids
      /\ used \in Used /\ task \in [Tasks -> Task]
  BY <1>2, SyncTypes
<1>4. NextEdit \in Nat
  BY <1>2, KnownAreNat
<1>5. Stored(NextEdit, gone) \in Doc /\ Stored(NextEdit, gone).edit = NextEdit
  BY <1>3, <1>4 DEF Stored, Doc, ServerNow, Edits, Stamps
<1>6. Stored(NextEdit, gone) # None
  BY <1>5, SyncConstants
<1>7. /\ doc' \in [Ids -> Doc \union {None}] /\ doc'[i] # None /\ doc'[i].edit = NextEdit
      /\ \A j \in Ids \ {i} : doc'[j] = doc[j]
  BY <1>1, <1>3, <1>5, <1>6
<1>8. used' \in Used /\ used'.edits = used.edits /\ used'.remote = used.remote + 1
  BY <1>1, <1>3, SyncConstants DEF Used
<1>9. NextEdit' = NextEdit + 1
  BY <1>3, <1>8, SyncConstants DEF NextEdit, Used
<1>10. TypeOK'
  <2>1. now' \in Nat
    BY <1>1, <1>3
  <2>2. minted' \subseteq Ids
    BY <1>1, <1>3
  <2>3. quiet' \in BOOLEAN
    BY <1>1
  <2>4. QED
    BY <1>1, <1>2, <1>7, <1>8, <2>1, <2>2, <2>3, Typed, SyncTypes
<1>11. \A u \in Tasks : Busy(u) => task[u].op.key \in Nat /\ task[u].op.key < NextEdit
  BY <1>2, <1>3 DEF TasksOK, Task, Op, Edits
<1>12. KnownEdits \subseteq KnownEdits'
  BY <1>1, <1>4, <1>9 DEF KnownEdits, Busy
<1>13. NextEdit \in KnownEdits'
  <2>1. NextEdit \notin own
    BY <1>2, <1>4 DEF DataOK
  <2>2. NextEdit \in 0..(NextEdit' - 1)
    BY <1>4, <1>9
  <2>3. \A u \in Tasks : Busy(u) => task[u].op.key # NextEdit
    BY <1>4, <1>11
  <2>4. QED
    BY <1>1, <2>1, <2>2, <2>3 DEF KnownEdits, Busy
<1>14. TasksOK'
  BY <1>1, <1>2, <1>4, <1>9, <1>11 DEF TasksOK, Busy
<1>15. DataOK'
  <2>1. own' \subseteq 0..(NextEdit' - 1) /\ accepted' \subseteq own'
    BY <1>1, <1>2, <1>4, <1>9 DEF DataOK
  <2>2. \A j \in Ids : doc'[j] # None => doc'[j].edit \in KnownEdits'
    BY <1>2, <1>7, <1>12, <1>13 DEF DataOK
  <2>3. QED
    BY <1>1, <1>2, <1>12, <2>1, <2>2 DEF DataOK
<1>16. ShownEditIsSafe'
  BY <1>1, <1>2 DEF ShownEditIsSafe
<1>17. BookOK'
  BY <1>1, <1>2, <1>12, BookKept
<1>18. RunOK'
  BY <1>1, <1>2, <1>7, <1>12, RunKept
<1>19. QED
  BY <1>10, <1>14, <1>15, <1>16, <1>17, <1>18 DEF SyncInv

(* The book moves, and at most one row with it.                               *)
LEMMA BookMoves ==
  ASSUME SyncInv, UNCHANGED <<now, doc, outbox, minted, run, task, accepted, own>>,
         used' \in Used, UNCHANGED <<used.edits, used.remote>>,
         quiet' \in BOOLEAN, book' \in Book, BookOK', UNCHANGED row
  PROVE  SyncInv'
<1>1. TypeOK'
  BY Typed, SyncTypes DEF SyncInv
<1>2. RunOK'
  <2>1. KnownEdits \subseteq KnownEdits'
    BY KnownGrows
  <2>2. QED
    BY <2>1, RunKept DEF SyncInv
<1>3. TasksOK' /\ DataOK' /\ ShownEditIsSafe'
  BY TasksKept, DataKept DEF SyncInv
<1>4. QED
  BY <1>1, <1>2, <1>3 DEF SyncInv

LEMMA BookStartsKeeps ==
  ASSUME SyncInv, BookStarts
  PROVE  SyncInv'
<1>1. /\ used.books < MaxBooks /\ used' = [used EXCEPT !.books = @ + 1]
      /\ book' = [IdleBook EXCEPT !.at = "pulling", !.docs = AllDocs] /\ quiet' = FALSE
      /\ UNCHANGED <<now, row, doc, outbox, minted, run, task, accepted, own>>
  BY DEF BookStarts, Disturbed
<1>2. TypeOK /\ DataOK
  BY DEF SyncInv
<1>3. used' \in Used /\ used'.edits = used.edits /\ used'.remote = used.remote
  BY <1>1, <1>2, SyncTypes, SyncConstants DEF Used
<1>4. AllDocs \subseteq Record /\ \A r \in AllDocs : r.edit \in KnownEdits
  BY <1>2, SyncTypes, Fetched DEF AllDocs, DataOK
<1>5. book' \in Book /\ book'.at = "pulling" /\ book'.rec = None /\ book'.docs = AllDocs
  BY <1>1, <1>4 DEF IdleBook, Book
<1>6. KnownEdits \subseteq KnownEdits'
  BY <1>1, <1>3, KnownGrows
<1>7. BookOK'
  BY <1>4, <1>5, <1>6 DEF BookOK
<1>8. quiet' \in BOOLEAN
  BY <1>1
<1>9. QED
  BY <1>1, <1>3, <1>5, <1>7, <1>8, BookMoves

LEMMA BookJudgesKeeps ==
  ASSUME SyncInv, BookJudges
  PROVE  SyncInv'
<1>1. PICK rec \in book.docs :
        book' = [at   |-> IF Takes(row[rec.id], rec) THEN "upsert" ELSE "pulling",
                 rec  |-> IF Takes(row[rec.id], rec) THEN rec ELSE None,
                 docs |-> book.docs \ {rec}]
  BY DEF BookJudges
<1>2. UNCHANGED <<now, row, doc, outbox, minted, run, task, used, accepted, own, quiet>>
  BY DEF BookJudges
<1>3. TypeOK /\ BookOK /\ used \in Used /\ quiet \in BOOLEAN /\ book \in Book
  BY SyncTypes DEF SyncInv
<1>4. rec \in Record /\ rec # None /\ rec.edit \in KnownEdits
  BY <1>3, SyncConstants DEF Book, BookOK
<1>5. /\ book' \in Book /\ book'.docs \subseteq book.docs
      /\ book'.rec \in {rec, None} /\ (book'.at = "upsert" => book'.rec = rec)
  BY <1>1, <1>3, <1>4 DEF Book
<1>6. KnownEdits \subseteq KnownEdits'
  BY <1>2, KnownGrows
<1>7. BookOK'
  BY <1>3, <1>4, <1>5, <1>6 DEF BookOK
<1>8. QED
  BY <1>2, <1>3, <1>5, <1>7, BookMoves

LEMMA BookUpsertsKeeps ==
  ASSUME SyncInv, BookUpserts
  PROVE  SyncInv'
<1>1. /\ book.at = "upsert" /\ row' = [row EXCEPT ![book.rec.id] = AsRow(book.rec)]
      /\ book' = [book EXCEPT !.at = "pulling", !.rec = None]
      /\ UNCHANGED <<now, doc, outbox, minted, run, task, used, accepted, own, quiet>>
  BY DEF BookUpserts
<1>2. TypeOK /\ TasksOK /\ DataOK /\ BookOK /\ RunOK /\ ShownEditIsSafe /\ book \in Book
      /\ row \in [Ids -> Row \union {None}]
  BY SyncTypes DEF SyncInv
<1>3. book.rec \in Record /\ book.rec.id \in Ids /\ book.rec.edit \in KnownEdits
  BY <1>1, <1>2 DEF Book, BookOK, Record
<1>4. AsRow(book.rec) \in Row /\ AsRow(book.rec).edit = book.rec.edit
  BY <1>3, Rowed
<1>5. book' \in Book /\ book'.at = "pulling" /\ book'.rec = None /\ book'.docs = book.docs
  BY <1>1, <1>2 DEF Book
<1>6. KnownEdits \subseteq KnownEdits'
  BY <1>1, KnownGrows
<1> DEFINE i == book.rec.id
           x == AsRow(book.rec)
<1>7. i \in Ids /\ x \in Row /\ x.edit \in KnownEdits /\ row' = [row EXCEPT ![i] = x]
  BY <1>1, <1>3, <1>4
<1> HIDE DEF i, x
<1>8. DataOK' /\ ShownEditIsSafe' /\ row' \in [Ids -> Row \union {None}]
  BY <1>1, <1>2, <1>7, RowPut
<1>9. TypeOK'
  BY <1>1, <1>2, <1>5, <1>8, Typed, SyncTypes
<1>10. BookOK'
  BY <1>2, <1>5, <1>6 DEF BookOK
<1>11. TasksOK'
  BY <1>1, <1>2, TasksKept
<1>12. RunOK'
  <2>1. run.at = "drop" => Cur.id \in Ids /\ Cur.key \in own
    BY <1>2, Held
  <2>2. x.edit \notin own \/ x.edit \in accepted
    BY <1>7 DEF KnownEdits
  <2>3. ASSUME run.at = "drop", Cur.key \notin accepted
        PROVE  row'[Cur.id] = row[Cur.id] \/ row'[Cur.id].edit # Cur.key
    BY <1>2, <1>7, <2>1, <2>2, <2>3
  <2>4. QED
    BY <1>1, <1>2, <1>6, <2>3, RunKept
<1>13. QED
  BY <1>8, <1>9, <1>10, <1>11, <1>12 DEF SyncInv

LEMMA BookEndsKeeps ==
  ASSUME SyncInv, BookEnds
  PROVE  SyncInv'
<1>1. /\ book' = IdleBook
      /\ UNCHANGED <<now, row, doc, outbox, minted, run, task, used, accepted, own, quiet>>
  BY DEF BookEnds
<1>2. book' \in Book /\ BookOK'
  BY <1>1, Idle DEF IdleBook, BookOK
<1>3. used \in Used /\ quiet \in BOOLEAN
  BY SyncTypes DEF SyncInv
<1>4. QED
  BY <1>1, <1>2, <1>3, BookMoves

LEMMA CrashKeeps ==
  ASSUME SyncInv, Crash
  PROVE  SyncInv'
<1>1. /\ used.crashes < MaxCrashes /\ used' = [used EXCEPT !.crashes = @ + 1]
      /\ run' = IdleRun /\ book' = IdleBook /\ task' = [t \in Tasks |-> IdleTask]
      /\ quiet' = FALSE /\ UNCHANGED <<now, row, doc, outbox, minted, accepted, own>>
  BY DEF Crash, Disturbed
<1>2. TypeOK /\ DataOK /\ ShownEditIsSafe
  BY DEF SyncInv
<1>3. used' \in Used /\ used'.edits = used.edits /\ used'.remote = used.remote
  BY <1>1, <1>2, SyncTypes, SyncConstants DEF Used
<1>4. task' \in [Tasks -> Task] /\ \A t \in Tasks : ~Busy(t)'
  BY <1>1, Idle DEF IdleTask, Busy
<1>5. KnownEdits \subseteq KnownEdits' /\ NextEdit' = NextEdit
  BY <1>1, <1>3, <1>4 DEF KnownEdits, NextEdit
<1>6. run' \in Run /\ RunOK'
  BY <1>1, RunIdle
<1>7. book' \in Book /\ BookOK'
  BY <1>1, Idle DEF IdleBook, BookOK
<1>8. quiet' \in BOOLEAN
  BY <1>1
<1>9. TypeOK'
  BY <1>1, <1>2, <1>3, <1>4, <1>6, <1>7, <1>8, Typed, SyncTypes
<1>10. TasksOK'
  BY <1>4 DEF TasksOK
<1>11. DataOK' /\ ShownEditIsSafe'
  BY <1>1, <1>2, <1>5 DEF DataOK, ShownEditIsSafe
<1>12. QED
  BY <1>6, <1>7, <1>9, <1>10, <1>11 DEF SyncInv

-----------------------------------------------------------------------------
(* The run, while it touches nothing but itself.                              *)

LEMMA LocalKept ==
  ASSUME SyncInv, UNCHANGED Local, run' \in Run, RunOK'
  PROVE  SyncInv'
<1>1. /\ UNCHANGED <<now, row, doc, outbox, minted, book, task, accepted, own>>
      /\ used' = used /\ quiet' = quiet
  BY DEF Local
<1>2. used \in Used /\ quiet \in BOOLEAN
  BY SyncTypes DEF SyncInv
<1>3. QED
  BY <1>1, <1>2, RunAlone

LEMMA LocalKnown ==
  ASSUME UNCHANGED Local
  PROVE  KnownEdits \subseteq KnownEdits' /\ own \subseteq own'
BY KnownGrows DEF Local

LEMMA StartsKeep ==
  ASSUME SyncInv, RunStarts
  PROVE  SyncInv'
<1>1. UNCHANGED <<now, row, doc, outbox, minted, book, task, used, accepted, own>>
  BY DEF RunStarts
<1>2. /\ run' \in Run /\ run'.at = "next" /\ run'.rec = None /\ run'.docs = {}
      /\ quiet' \in BOOLEAN
      /\ \A n \in 1..Len(run'.todo) :
           \E i \in Ids : outbox[i] # None /\ run'.todo[n] = outbox[i]
  BY Started DEF SyncInv
<1>3. HasOp' /\ HasRec' /\ MayDrop'
  BY <1>2 DEF HasOp, HasRec, MayDrop, Judging
<1>4. \A n \in 1..Len(run'.todo) : run'.todo[n].key \in own'
  BY <1>1, <1>2 DEF SyncInv, DataOK
<1>5. RunOK'
  BY <1>2, <1>3, <1>4 DEF RunOK
<1>6. used \in Used
  BY SyncTypes DEF SyncInv
<1>7. QED
  BY <1>1, <1>2, <1>5, <1>6, RunAlone

LEMMA ExaminesKeeps ==
  ASSUME SyncInv, Examines
  PROVE  SyncInv'
<1> DEFINE base == IF row[Cur.id] = None THEN None ELSE row[Cur.id].base
<1>1. /\ run.at = "next" /\ run.todo # <<>> /\ UNCHANGED Local
      /\ Goto(FirstRequest(Cur)) \/ run' = [run EXCEPT !.at = "probe", !.base = base]
  BY DEF Examines, At
<1>2. TypeOK /\ RunOK /\ run \in Run /\ row \in [Ids -> Row \union {None}]
  BY SyncTypes DEF SyncInv
<1>3. Cur \in Op /\ Cur.id \in Ids
  BY <1>1, <1>2, Held
<1>4. KnownEdits \subseteq KnownEdits' /\ own \subseteq own'
  BY <1>1, LocalKnown
<1>5. CASE Goto(FirstRequest(Cur))
  <2>1. FirstRequest(Cur) \in {"post", "put", "delete"} /\ FirstRequest(Cur) \in Places
    BY <1>3, Requested
  <2>2. run' \in Run /\ RunOK'
    BY <1>1, <1>4, <1>5, <2>1, RunGoes
  <2>3. QED
    BY <1>1, <2>2, LocalKept
<1>6. CASE run' = [run EXCEPT !.at = "probe", !.base = base]
  <2>1. base \in Stamps \union {None}
    BY <1>2, <1>3 DEF Row
  <2> HIDE DEF base
  <2>2. run' \in Run /\ run'.at = "probe" /\ UNCHANGED <<run.todo, run.rec, run.docs>>
    BY <1>2, <1>6, <2>1 DEF Run, Places
  <2>3. HasRec' /\ MayDrop'
    BY <2>2 DEF HasRec, MayDrop, Judging
  <2>4. RunOK'
    BY <1>1, <1>2, <1>4, <2>2, <2>3, RunTurns DEF RunOK
  <2>5. QED
    BY <1>1, <2>2, <2>4, LocalKept
<1>7. QED
  BY <1>1, <1>5, <1>6

LEMMA ProbesKeeps ==
  ASSUME SyncInv, Probes
  PROVE  SyncInv'
<1>1. /\ run.at = "probe" /\ UNCHANGED Local
      /\ \/ Goto(FirstRequest(Cur))
         \/ LiveDoc(Cur.id) /\ run' = [run EXCEPT !.at = "judge", !.rec = DocRecord(Cur.id),
                                                  !.then = "conflict"]
  BY DEF Probes, At
<1>2. TypeOK /\ RunOK /\ DataOK /\ run \in Run /\ doc \in [Ids -> Doc \union {None}]
  BY SyncTypes DEF SyncInv
<1>3. Cur \in Op /\ Cur.id \in Ids /\ run.todo # <<>>
  BY <1>1, <1>2, Held
<1>4. KnownEdits \subseteq KnownEdits' /\ own \subseteq own'
  BY <1>1, LocalKnown
<1>5. CASE Goto(FirstRequest(Cur))
  <2>1. FirstRequest(Cur) \in {"post", "put", "delete"} /\ FirstRequest(Cur) \in Places
    BY <1>3, Requested
  <2>2. run' \in Run /\ RunOK'
    BY <1>3, <1>4, <1>5, <2>1, RunGoes
  <2>3. QED
    BY <1>1, <2>2, LocalKept
<1>6. CASE LiveDoc(Cur.id) /\ run' = [run EXCEPT !.at = "judge", !.rec = DocRecord(Cur.id),
                                                 !.then = "conflict"]
  <2> DEFINE x == DocRecord(Cur.id)
  <2>1. x \in Record /\ x.id = Cur.id /\ x.edit \in KnownEdits
    BY <1>2, <1>3, <1>6, Fetched DEF LiveDoc, DataOK
  <2>2. run' = [run EXCEPT !.at = "judge", !.rec = x, !.then = "conflict"]
    BY <1>6
  <2> HIDE DEF x
  <2>3. /\ run' \in Run /\ run'.at = "judge" /\ run'.rec = x /\ run'.then = "conflict"
        /\ UNCHANGED <<run.todo, run.docs>>
    BY <1>2, <2>1, <2>2 DEF Run, Places
  <2>4. RunOK'
    BY <1>3, <1>4, <2>1, <2>3, RunJudges
  <2>5. QED
    BY <1>1, <2>3, <2>4, LocalKept
<1>7. QED
  BY <1>1, <1>5, <1>6

LEMMA JudgesKeeps ==
  ASSUME SyncInv, Judges
  PROVE  SyncInv'
<1>1. /\ run.at = "judge" /\ UNCHANGED Local
      /\ \/ Goto("upsert")
         \/ run.then = "conflict" /\ Goto(FirstRequest(Cur))
         \/ run.then # "conflict" /\ Goto(run.then)
  BY DEF Judges, At
<1>2. TypeOK /\ RunOK /\ run \in Run
  BY SyncTypes DEF SyncInv
<1>3. run.then \in {"conflict", "discard", "pulling"} /\ (run.then # "pulling" => run.todo # <<>>)
  BY <1>1, <1>2 DEF RunOK, HasRec, HasOp, Judging
<1>4. KnownEdits \subseteq KnownEdits' /\ own \subseteq own'
  BY <1>1, LocalKnown
<1>5. CASE Goto("upsert")
  <2>1. "upsert" \in Places
    BY DEF Places
  <2>2. /\ run' \in Run /\ run'.at = "upsert"
        /\ UNCHANGED <<run.todo, run.rec, run.then, run.docs>>
    BY <1>2, <1>5, <2>1, Goes
  <2>3. Cur' = Cur
    BY <2>2 DEF Cur
  <2>4. HasOp' /\ HasRec' /\ MayDrop'
    BY <1>1, <1>2, <2>2, <2>3 DEF RunOK, HasOp, HasRec, MayDrop, Judging
  <2>5. RunOK'
    BY <1>2, <1>4, <2>2, <2>4 DEF RunOK
  <2>6. QED
    BY <1>1, <2>2, <2>5, LocalKept
<1>6. CASE run.then = "conflict" /\ Goto(FirstRequest(Cur))
  <2>1. FirstRequest(Cur) \in {"post", "put", "delete"} /\ FirstRequest(Cur) \in Places
    BY <1>2, <1>3, <1>6, Held, Requested
  <2>2. run' \in Run /\ RunOK'
    BY <1>3, <1>4, <1>6, <2>1, RunGoes
  <2>3. QED
    BY <1>1, <2>2, LocalKept
<1>7. CASE run.then # "conflict" /\ Goto(run.then)
  <2>1. run.then \in {"discard", "pulling"} /\ run.then \in Places
    BY <1>3, <1>7 DEF Places
  <2>2. run' \in Run /\ RunOK'
    BY <1>3, <1>4, <1>7, <2>1, RunGoes
  <2>3. QED
    BY <1>1, <2>2, LocalKept
<1>8. QED
  BY <1>1, <1>5, <1>6, <1>7

LEMMA AdoptsKeeps ==
  ASSUME SyncInv, Adopts
  PROVE  SyncInv'
<1>1. /\ run.at = "adopt" /\ UNCHANGED Local
      /\ NextOp \/ run' = IdleRun \/ (run.rec # None /\ Goto("store"))
  BY DEF Adopts, At
<1>2. TypeOK /\ RunOK /\ run \in Run
  BY SyncTypes DEF SyncInv
<1>3. run.todo # <<>>
  BY <1>1, <1>2, Held
<1>4. KnownEdits \subseteq KnownEdits' /\ own \subseteq own'
  BY <1>1, LocalKnown
<1>5. CASE NextOp
  BY <1>1, <1>3, <1>4, <1>5, RunGoesOn, LocalKept
<1>6. CASE run' = IdleRun
  BY <1>1, <1>6, RunIdle, LocalKept
<1>7. CASE run.rec # None /\ Goto("store")
  <2>1. "store" \in Places
    BY DEF Places
  <2>2. /\ run' \in Run /\ run'.at = "store"
        /\ UNCHANGED <<run.todo, run.rec, run.then, run.docs>>
    BY <1>2, <1>7, <2>1, Goes
  <2>3. HasOp' /\ HasRec' /\ MayDrop'
    BY <1>3, <1>7, <2>2 DEF HasOp, HasRec, MayDrop, Judging
  <2>4. RunOK'
    BY <1>2, <1>4, <2>2, <2>3 DEF RunOK
  <2>5. QED
    BY <1>1, <2>2, <2>4, LocalKept
<1>8. QED
  BY <1>1, <1>5, <1>6, <1>7

LEMMA FindsKeep ==
  ASSUME SyncInv, FindsDuplicate \/ FindsTaken
  PROVE  SyncInv'
<1>1. /\ run.at \in {"findDuplicate", "findTaken"} /\ UNCHANGED Local
      /\ \/ Goto("discard")
         \/ \E j \in Ids : doc[j] # None /\
              \/ run' = [run EXCEPT !.at = "judge", !.rec = DocRecord(j), !.then = "discard"]
              \/ GotoWith("writeBack", DocRecord(j))
              \/ GotoWith("restore", DocRecord(j))
  BY DEF FindsDuplicate, FindsTaken, At, LiveDoc
<1>2. TypeOK /\ RunOK /\ DataOK /\ run \in Run /\ doc \in [Ids -> Doc \union {None}]
  BY SyncTypes DEF SyncInv
<1>3. run.todo # <<>>
  BY <1>1, <1>2, Held
<1>4. KnownEdits \subseteq KnownEdits' /\ own \subseteq own'
  BY <1>1, LocalKnown
<1>5. CASE Goto("discard")
  <2>1. "discard" \in Places
    BY DEF Places
  <2>2. run' \in Run /\ RunOK'
    BY <1>3, <1>4, <1>5, <2>1, RunGoes
  <2>3. QED
    BY <1>1, <2>2, LocalKept
<1>6. ASSUME NEW j \in Ids, doc[j] # None,
             \/ run' = [run EXCEPT !.at = "judge", !.rec = DocRecord(j), !.then = "discard"]
             \/ GotoWith("writeBack", DocRecord(j))
             \/ GotoWith("restore", DocRecord(j))
      PROVE  SyncInv'
  <2> DEFINE x == DocRecord(j)
  <2>1. x \in Record /\ x.id = j /\ x.edit \in KnownEdits
    BY <1>2, <1>6, Fetched DEF DataOK
  <2>2. x # None
    BY <2>1, SyncConstants
  <2>3. \/ run' = [run EXCEPT !.at = "judge", !.rec = x, !.then = "discard"]
        \/ GotoWith("writeBack", x)
        \/ GotoWith("restore", x)
    BY <1>6
  <2> HIDE DEF x
  <2>4. CASE run' = [run EXCEPT !.at = "judge", !.rec = x, !.then = "discard"]
    <3>1. /\ run' \in Run /\ run'.at = "judge" /\ run'.rec = x /\ run'.then = "discard"
          /\ UNCHANGED <<run.todo, run.docs>>
      BY <1>2, <2>1, <2>4 DEF Run, Places
    <3>2. RunOK'
      BY <1>3, <1>4, <2>1, <3>1, RunJudges
    <3>3. QED
      BY <1>1, <3>1, <3>2, LocalKept
  <2>5. CASE GotoWith("writeBack", x) \/ GotoWith("restore", x)
    <3>1. /\ run' \in Run /\ run'.at \in {"writeBack", "restore"} /\ run'.rec = x
          /\ UNCHANGED <<run.todo, run.docs>>
      BY <1>2, <2>1, <2>5 DEF GotoWith, Run, Places
    <3>2. doc' = doc
      BY <1>1 DEF Local
    <3>3. HasRec' /\ MayDrop'
      BY <1>6, <2>1, <2>2, <3>1, <3>2 DEF HasRec, MayDrop, Judging
    <3>4. RunOK'
      BY <1>3, <1>4, <2>1, <3>1, <3>3, RunTurns
    <3>5. QED
      BY <1>1, <3>1, <3>4, LocalKept
  <2>6. QED
    BY <2>3, <2>4, <2>5
<1>7. QED
  BY <1>1, <1>5, <1>6

LEMMA PullsKeep ==
  ASSUME SyncInv, Pull
  PROVE  SyncInv'
<1>1. UNCHANGED Local
  BY DEF Pull, Pulls, PullsRecord, RunEnds
<1>2. TypeOK /\ RunOK /\ DataOK /\ run \in Run /\ doc \in [Ids -> Doc \union {None}]
  BY SyncTypes DEF SyncInv
<1>3. KnownEdits \subseteq KnownEdits' /\ own \subseteq own'
  BY <1>1, LocalKnown
<1>4. CASE Pulls
  <2>1. AllDocs \subseteq Record /\ \A r \in AllDocs : r.edit \in KnownEdits
    BY <1>2, Fetched DEF AllDocs, DataOK
  <2>2. run' = [IdleRun EXCEPT !.at = "pulling", !.docs = AllDocs]
    BY <1>4 DEF Pulls
  <2>3. /\ run' \in Run /\ run'.at = "pulling" /\ run'.todo = <<>> /\ run'.rec = None
        /\ run'.docs = AllDocs
    BY <2>1, <2>2, Idle DEF IdleRun, Run, Places
  <2>4. HasOp' /\ HasRec' /\ MayDrop' /\ Len(run'.todo) = 0
    BY <2>3 DEF HasOp, HasRec, MayDrop, Judging
  <2>5. RunOK'
    BY <1>3, <2>1, <2>3, <2>4 DEF RunOK
  <2>6. QED
    BY <1>1, <2>3, <2>5, LocalKept
<1>5. CASE PullsRecord
  <2>1. PICK x \in run.docs :
          run' = [run EXCEPT !.at = "judge", !.rec = x, !.then = "pulling",
                             !.docs = run.docs \ {x}]
    BY <1>5 DEF PullsRecord
  <2>2. x \in Record /\ x.edit \in KnownEdits
    BY <1>2 DEF Run, RunOK
  <2>3. /\ run' \in Run /\ run'.at = "judge" /\ run'.rec = x /\ run'.then = "pulling"
        /\ run'.todo = run.todo /\ run'.docs \subseteq run.docs
    BY <1>2, <2>1, <2>2 DEF Run, Places
  <2>4. RunOK'
    BY <1>3, <2>2, <2>3, RunJudges
  <2>5. QED
    BY <1>1, <2>3, <2>4, LocalKept
<1>6. CASE RunEnds
  <2>1. run' = IdleRun
    BY <1>6 DEF RunEnds
  <2>2. QED
    BY <1>1, <2>1, RunIdle, LocalKept
<1>7. QED
  BY <1>4, <1>5, <1>6 DEF Pull

(* Parked by an answer, or ended by none.                                     *)
LEMMA FaultsKeep ==
  ASSUME SyncInv, NetworkFails \/ Rejected
  PROVE  SyncInv'
<1>1. UNCHANGED <<now, row, doc, outbox, minted, book, task, accepted, own>>
  BY DEF NetworkFails, Rejected
<1>2. TypeOK /\ RunOK /\ run \in Run /\ used \in Used /\ quiet \in BOOLEAN
  BY SyncTypes DEF SyncInv
<1>3. ASSUME used' \in Used, UNCHANGED <<used.edits, used.remote>>, quiet' \in BOOLEAN,
             run' = IdleRun
      PROVE  SyncInv'
  BY <1>1, <1>3, RunIdle, RunAlone
<1>4. ASSUME used' \in Used, UNCHANGED <<used.edits, used.remote>>, quiet' \in BOOLEAN,
             run.todo # <<>>, run' \in Run, run'.at = "fail",
             UNCHANGED <<run.todo, run.rec, run.docs>>
      PROVE  SyncInv'
  <2>1. KnownEdits \subseteq KnownEdits' /\ own \subseteq own'
    BY <1>1, <1>4, KnownGrows
  <2>2. HasRec' /\ MayDrop'
    BY <1>4 DEF HasRec, MayDrop, Judging
  <2>3. RunOK'
    BY <1>2, <1>4, <2>1, <2>2, RunTurns DEF RunOK
  <2>4. QED
    BY <1>1, <1>4, <2>3, RunAlone
<1>5. CASE NetworkFails
  <2>1. /\ used' \in Used /\ used'.edits = used.edits /\ used'.remote = used.remote
        /\ quiet' = FALSE
        /\ \/ run' = IdleRun
           \/ /\ run.at \in {"findTaken", "restore", "putTheirs"}
              /\ run' \in Run /\ run'.at = "fail"
              /\ UNCHANGED <<run.todo, run.base, run.rec, run.then, run.docs>>
    BY <1>2, <1>5, Broken DEF NetworkFails
  <2>2. run.at \in {"findTaken", "restore", "putTheirs"} => run.todo # <<>>
    BY <1>2, Held
  <2>3. quiet' \in BOOLEAN
    BY <2>1
  <2>4. QED
    BY <1>3, <1>4, <2>1, <2>2, <2>3
<1>6. CASE Rejected
  <2>1. /\ run.at \in {"put", "post", "putOwn"} /\ used.faults < MaxFaults
        /\ used' = [used EXCEPT !.faults = @ + 1] /\ Goto("fail") /\ quiet' = quiet
    BY <1>6 DEF Rejected
  <2>2. used' \in Used /\ used'.edits = used.edits /\ used'.remote = used.remote
    BY <1>2, <2>1, SyncConstants DEF Used
  <2>3. "fail" \in Places /\ run.todo # <<>>
    BY <1>2, <2>1, Held DEF Places
  <2>4. /\ run' \in Run /\ run'.at = "fail"
        /\ UNCHANGED <<run.todo, run.rec, run.docs>>
    BY <1>2, <2>1, <2>3, Goes
  <2>5. QED
    BY <1>2, <1>4, <2>1, <2>2, <2>3, <2>4
<1>7. QED
  BY <1>5, <1>6

-----------------------------------------------------------------------------
(* The run's requests that write.                                             *)

LEMMA WritesKeep ==
  ASSUME SyncInv, NEW i \in Ids, NEW key \in Nat, NEW gone \in BOOLEAN,
         NEW place \in {"settle", "putTheirs", "writeBack"}, Writes(i, key, gone, place),
         run.todo # <<>>, accepted \subseteq accepted', accepted' \subseteq own,
         key \in KnownEdits', place = "settle" => Cur.key \in accepted'
  PROVE  SyncInv'
<1>1. TypeOK /\ TasksOK /\ DataOK /\ BookOK /\ RunOK /\ ShownEditIsSafe
  BY DEF SyncInv
<1>2. place \in Places
  BY DEF Places
<1>3. /\ now' \in Nat /\ doc' \in [Ids -> Doc \union {None}]
      /\ doc'[i].edit = key /\ \A j \in Ids \ {i} : doc'[j] = doc[j]
      /\ used' \in Used /\ used'.edits = used.edits /\ used'.remote = used.remote
      /\ quiet' \in BOOLEAN
      /\ \/ /\ run' \in Run /\ run'.at = place /\ run'.rec # None /\ run'.rec.id = i
            /\ run'.rec.edit = key /\ UNCHANGED <<run.todo, run.then, run.docs>>
         \/ run' = IdleRun
         \/ /\ run.at \in {"findTaken", "restore", "putTheirs"}
            /\ run' \in Run /\ run'.at = "fail"
            /\ UNCHANGED <<run.todo, run.base, run.rec, run.then, run.docs>>
      /\ UNCHANGED <<row, outbox, minted, book, task, own>>
  BY <1>1, <1>2, Wrote
<1>4. KnownEdits \subseteq KnownEdits' /\ NextEdit' = NextEdit
  BY <1>3, KnownGrows DEF NextEdit
<1>5. run' \in Run /\ RunOK'
  <2>1. CASE /\ run' \in Run /\ run'.at = place /\ run'.rec # None
             /\ run'.rec.edit = key /\ UNCHANGED <<run.todo, run.docs>>
    <3>1. Cur' = Cur
      BY <2>1 DEF Cur
    <3>2. HasRec'
      BY <2>1 DEF HasRec, Judging
    <3>3. MayDrop'
      BY <2>1, <3>1 DEF MayDrop
    <3>4. RunOK'
      BY <1>3, <1>4, <2>1, <3>2, <3>3, RunTurns
    <3>5. QED
      BY <2>1, <3>4
  <2>2. CASE run' = IdleRun
    BY <2>2, RunIdle
  <2>3. CASE /\ run' \in Run /\ run'.at = "fail"
             /\ UNCHANGED <<run.todo, run.rec, run.docs>>
    <3>1. HasRec' /\ MayDrop'
      BY <2>3 DEF HasRec, MayDrop, Judging
    <3>2. RunOK'
      BY <1>1, <1>3, <1>4, <2>3, <3>1, RunTurns DEF RunOK
    <3>3. QED
      BY <2>3, <3>2
  <2>4. QED
    BY <1>3, <2>1, <2>2, <2>3
<1>6. TypeOK'
  <2>1. accepted' \subseteq Nat
    BY <1>1, SyncTypes
  <2>2. QED
    BY <1>1, <1>3, <1>5, <2>1, Typed, SyncTypes
<1>7. TasksOK'
  BY <1>1, <1>3, TasksKept
<1>8. DataOK'
  <2>1. \A j \in Ids : doc'[j] # None => doc'[j].edit \in KnownEdits'
    BY <1>1, <1>3, <1>4 DEF DataOK
  <2>2. QED
    BY <1>1, <1>3, <1>4, <2>1 DEF DataOK
<1>9. ShownEditIsSafe'
  BY <1>1, <1>3 DEF ShownEditIsSafe
<1>10. BookOK'
  BY <1>1, <1>3, <1>4, BookKept
<1>11. QED
  BY <1>5, <1>6, <1>7, <1>8, <1>9, <1>10 DEF SyncInv

(* A request about the operation in hand, that the server accepts.            *)
LEMMA AcceptsKeep ==
  ASSUME SyncInv, run.at \in {"put", "post", "putOwn", "delete"}, NEW gone \in BOOLEAN,
         Writes(Cur.id, Cur.key, gone, "settle"), Accepts
  PROVE  SyncInv'
<1>1. TypeOK /\ DataOK /\ RunOK
  BY DEF SyncInv
<1>2. Cur \in Op /\ Cur.id \in Ids /\ Cur.key \in own /\ Cur.key \in Nat /\ run.todo # <<>>
  BY <1>1, Held, SyncTypes
<1>3. PICK i \in Ids, key \in Nat : i = Cur.id /\ key = Cur.key
  BY <1>2
<1>4. accepted' = accepted \union {key} /\ Writes(i, key, gone, "settle")
  BY <1>3 DEF Accepts
<1>5. accepted \subseteq accepted' /\ accepted' \subseteq own /\ Cur.key \in accepted'
  BY <1>1, <1>2, <1>3, <1>4 DEF DataOK
<1>6. key \in KnownEdits'
  BY <1>4 DEF KnownEdits
<1>7. QED
  BY <1>2, <1>4, <1>5, <1>6, WritesKeep

LEMMA PushesKeep ==
  ASSUME SyncInv, Puts \/ Posts \/ PutsOwn \/ Deletes
  PROVE  SyncInv'
<1>1. run.at \in {"put", "post", "putOwn", "delete"}
  BY DEF Puts, Posts, PutsOwn, Deletes, At
<1>2. TypeOK /\ TasksOK /\ DataOK /\ BookOK /\ RunOK /\ ShownEditIsSafe /\ run \in Run
  BY SyncTypes DEF SyncInv
<1>3. Cur \in Op /\ Cur.id \in Ids /\ Cur.key \in own /\ run.todo # <<>>
  BY <1>1, <1>2, Held
<1>4. CASE \E gone \in BOOLEAN : Writes(Cur.id, Cur.key, gone, "settle") /\ Accepts
  BY <1>1, <1>4, AcceptsKeep
<1>5. CASE UNCHANGED Local /\
           \E p \in {"post", "findTaken", "putOwn", "findDuplicate", "fail"} : Goto(p)
  <2>1. PICK p \in {"post", "findTaken", "putOwn", "findDuplicate", "fail"} : Goto(p)
    BY <1>5
  <2>2. p \in Places
    BY DEF Places
  <2>3. KnownEdits \subseteq KnownEdits' /\ own \subseteq own'
    BY <1>5, LocalKnown
  <2>4. run' \in Run /\ RunOK'
    BY <1>3, <2>1, <2>2, <2>3, RunGoes
  <2>5. QED
    BY <1>5, <2>4, LocalKept
<1>6. CASE /\ Accepts /\ GotoWith("settle", None)
           /\ UNCHANGED <<now, row, doc, outbox, minted, book, task, used, own, quiet>>
  <2>1. "settle" \in Places
    BY DEF Places
  <2>2. /\ run' \in Run /\ run'.at = "settle" /\ run'.rec = None
        /\ UNCHANGED <<run.todo, run.docs>>
    BY <1>2, <1>6, <2>1, GoesWith
  <2>3. accepted' = accepted \union {Cur.key} /\ accepted' \subseteq own
    BY <1>2, <1>3, <1>6 DEF Accepts, DataOK
  <2>4. accepted \subseteq accepted' /\ Cur.key \in accepted' /\ Cur' = Cur
    BY <2>2, <2>3 DEF Cur
  <2>5. KnownEdits \subseteq KnownEdits' /\ NextEdit' = NextEdit
    BY <1>6, <2>4, KnownGrows DEF NextEdit
  <2>6. HasRec' /\ MayDrop'
    BY <2>2, <2>4 DEF HasRec, MayDrop, Judging
  <2>7. RunOK'
    BY <1>3, <1>6, <2>2, <2>5, <2>6, RunTurns
  <2>8. TypeOK'
    BY <1>2, <1>6, <2>2, <2>3, Typed, SyncTypes
  <2>9. DataOK' /\ ShownEditIsSafe'
    BY <1>2, <1>6, <2>3, <2>4, <2>5 DEF DataOK, ShownEditIsSafe
  <2>10. TasksOK' /\ BookOK'
    BY <1>2, <1>6, <2>5, TasksKept, BookKept
  <2>11. QED
    BY <2>7, <2>8, <2>9, <2>10 DEF SyncInv
<1>7. CASE Puts
  BY <1>4, <1>5, <1>7 DEF Puts
<1>8. CASE Posts
  BY <1>4, <1>5, <1>8 DEF Posts
<1>9. CASE PutsOwn
  BY <1>4, <1>5, <1>9 DEF PutsOwn
<1>10. CASE Deletes
  BY <1>4, <1>6, <1>10 DEF Deletes
<1>11. QED
  BY <1>7, <1>8, <1>9, <1>10

LEMMA RestoresKeep ==
  ASSUME SyncInv, Restores \/ PutsTheirs
  PROVE  SyncInv'
<1>1. run.at \in {"restore", "putTheirs"}
  BY DEF Restores, PutsTheirs, At
<1>2. /\ TypeOK /\ DataOK /\ RunOK /\ run \in Run
      /\ doc \in [Ids -> Doc \union {None}] /\ own \subseteq Nat
  BY SyncTypes DEF SyncInv
<1>3. Cur \in Op /\ Cur.id \in Ids /\ Cur.key \in own /\ run.todo # <<>>
  BY <1>1, <1>2, Held
<1>4. run.rec # None /\ run.rec \in Record /\ run.rec.id \in Ids
  BY <1>1, <1>2 DEF RunOK, HasRec, Run, Record
<1>5. CASE UNCHANGED Local /\ Goto("fail")
  <2>1. "fail" \in Places
    BY DEF Places
  <2>2. KnownEdits \subseteq KnownEdits' /\ own \subseteq own'
    BY <1>5, LocalKnown
  <2>3. run' \in Run /\ RunOK'
    BY <1>3, <1>5, <2>1, <2>2, RunGoes
  <2>4. QED
    BY <1>5, <2>3, LocalKept
<1>6. CASE UNCHANGED Local /\ Goto("putTheirs")
  <2>1. "putTheirs" \in Places
    BY DEF Places
  <2>2. KnownEdits \subseteq KnownEdits' /\ own \subseteq own'
    BY <1>6, LocalKnown
  <2>3. /\ run' \in Run /\ run'.at = "putTheirs"
        /\ UNCHANGED <<run.todo, run.rec, run.docs>>
    BY <1>2, <1>6, <2>1, Goes
  <2>4. HasRec' /\ MayDrop'
    BY <1>4, <2>3 DEF HasRec, MayDrop, Judging
  <2>5. RunOK'
    BY <1>2, <1>3, <2>2, <2>3, <2>4, RunTurns DEF RunOK
  <2>6. QED
    BY <1>6, <2>3, <2>5, LocalKept
<1>7. PICK i \in Ids : i = run.rec.id
  BY <1>4
<1>8. ASSUME run.at = "restore", Writes(i, doc[i].edit, FALSE, "putTheirs"),
             accepted' = accepted
      PROVE  SyncInv'
  <2>1. doc[i] # None
    BY <1>2, <1>7, <1>8 DEF RunOK, HasRec
  <2>2. doc[i].edit \in KnownEdits /\ doc[i].edit \in Nat
    BY <1>2, <2>1 DEF DataOK, Doc, Edits
  <2>3. PICK key \in Nat : key = doc[i].edit
    BY <2>2
  <2>4. Writes(i, key, FALSE, "putTheirs")
    BY <1>8, <2>3
  <2>5. UNCHANGED <<own, task, used.edits, used.remote>>
    BY <1>2, <2>4, Wrote DEF Places
  <2>6. key \in KnownEdits'
    BY <1>8, <2>2, <2>3, <2>5, KnownGrows
  <2>7. accepted \subseteq accepted' /\ accepted' \subseteq own
    BY <1>2, <1>8 DEF DataOK
  <2>8. QED
    BY <1>3, <2>4, <2>6, <2>7, WritesKeep
<1>9. ASSUME Writes(i, Cur.key, FALSE, "writeBack"), Accepts
      PROVE  SyncInv'
  <2>1. PICK key \in Nat : key = Cur.key
    BY <1>2, <1>3
  <2>2. accepted' = accepted \union {key} /\ Writes(i, key, FALSE, "writeBack")
    BY <1>9, <2>1 DEF Accepts
  <2>3. accepted \subseteq accepted' /\ accepted' \subseteq own
    BY <1>2, <1>3, <2>1, <2>2 DEF DataOK
  <2>4. key \in KnownEdits'
    BY <2>2 DEF KnownEdits
  <2>5. QED
    BY <1>3, <2>2, <2>3, <2>4, WritesKeep
<1>10. CASE Restores
  BY <1>6, <1>7, <1>8, <1>10 DEF Restores, At
<1>11. CASE PutsTheirs
  BY <1>5, <1>7, <1>9, <1>11 DEF PutsTheirs
<1>12. QED
  BY <1>10, <1>11

-----------------------------------------------------------------------------
(* The rows the run writes, and the operations it takes out.                  *)

LEMMA RowsKeep ==
  ASSUME SyncInv, NEW i \in Ids, NEW x \in Row \union {None}, x # None => x.edit \in KnownEdits,
         row' = [row EXCEPT ![i] = x], run' \in Run, RunOK',
         UNCHANGED <<now, doc, outbox, minted, book, task, used, accepted, own, quiet>>
  PROVE  SyncInv'
<1>1. TypeOK /\ TasksOK /\ DataOK /\ BookOK /\ RunOK /\ ShownEditIsSafe
  BY DEF SyncInv
<1>2. DataOK' /\ ShownEditIsSafe' /\ row' \in [Ids -> Row \union {None}]
  BY <1>1, RowPut
<1>3. TypeOK'
  BY <1>1, <1>2, Typed, SyncTypes
<1>4. TasksOK' /\ BookOK'
  BY <1>1, TasksKept, BookKept, KnownGrows
<1>5. QED
  BY <1>2, <1>3, <1>4 DEF SyncInv

LEMMA UpsertsKeep ==
  ASSUME SyncInv, Upserts
  PROVE  SyncInv'
<1>1. /\ run.at = "upsert" /\ row' = [row EXCEPT ![run.rec.id] = AsRow(run.rec)]
      /\ Goto(IF run.then = "conflict" THEN "drop" ELSE run.then)
      /\ UNCHANGED <<now, doc, outbox, minted, book, task, used, accepted, own, quiet>>
  BY DEF Upserts, At
<1>2. TypeOK /\ RunOK /\ run \in Run /\ row \in [Ids -> Row \union {None}]
  BY SyncTypes DEF SyncInv
<1>3. /\ run.rec # None /\ run.rec \in Record /\ run.rec.id \in Ids /\ run.rec.edit \in KnownEdits
      /\ run.then \in {"conflict", "discard", "pulling"}
      /\ run.then # "pulling" => run.todo # <<>>
      /\ run.then = "conflict" => run.rec.id = Cur.id
  BY <1>1, <1>2 DEF RunOK, HasOp, HasRec, Judging, Run, Record
<1>4. KnownEdits \subseteq KnownEdits' /\ own \subseteq own'
  BY <1>1, KnownGrows
<1>5. PICK i \in Ids, x \in Row :
        /\ i = run.rec.id /\ x.edit \in KnownEdits /\ x # None
        /\ row' = [row EXCEPT ![i] = x]
  BY <1>1, <1>3, Rowed, SyncConstants
<1>6. CASE run.then = "conflict"
  <2>1. Goto("drop") /\ "drop" \in Places
    BY <1>1, <1>6 DEF Places
  <2>2. /\ run' \in Run /\ run'.at = "drop"
        /\ UNCHANGED <<run.todo, run.rec, run.docs>>
    BY <1>2, <2>1, Goes
  <2>3. Cur' = Cur /\ Cur.id = i
    BY <1>3, <1>5, <1>6, <2>2 DEF Cur
  <2>4. row'[Cur.id] = x /\ (x.edit # Cur.key \/ Cur.key \in accepted)
    <3>1. row'[Cur.id] = x
      BY <1>2, <1>5, <2>3
    <3>2. Cur.key \in own
      BY <1>2, <1>3, <1>6, Held
    <3>3. QED
      BY <1>5, <3>1, <3>2 DEF KnownEdits
  <2>5. HasRec'
    BY <2>2 DEF HasRec, Judging
  <2>6. MayDrop'
    BY <1>1, <2>2, <2>3, <2>4 DEF MayDrop
  <2>7. RunOK'
    BY <1>2, <1>3, <1>4, <1>6, <2>2, <2>5, <2>6, RunTurns DEF RunOK
  <2>8. QED
    BY <1>1, <1>5, <2>2, <2>7, RowsKeep
<1>7. CASE run.then # "conflict"
  <2>1. Goto(run.then) /\ run.then \in {"discard", "pulling"} /\ run.then \in Places
    BY <1>1, <1>3, <1>7 DEF Places
  <2>2. run' \in Run /\ RunOK'
    BY <1>3, <1>4, <2>1, RunGoes
  <2>3. QED
    BY <1>1, <1>5, <2>2, RowsKeep
<1>8. QED
  BY <1>6, <1>7

LEMMA StoresKeep ==
  ASSUME SyncInv, Stores
  PROVE  SyncInv'
<1>1. /\ run.at = "store" /\ row' = [row EXCEPT ![Cur.id] = AsRow(run.rec)] /\ NextOp
      /\ UNCHANGED <<now, doc, outbox, minted, book, task, used, accepted, own, quiet>>
  BY DEF Stores, At
<1>2. TypeOK /\ RunOK /\ run \in Run
  BY SyncTypes DEF SyncInv
<1>3. run.rec # None /\ run.rec \in Record /\ run.rec.edit \in KnownEdits
  BY <1>1, <1>2 DEF RunOK, HasRec, Run
<1>4. Cur.id \in Ids /\ run.todo # <<>>
  BY <1>1, <1>2, Held
<1>5. PICK i \in Ids, x \in Row : x.edit \in KnownEdits /\ row' = [row EXCEPT ![i] = x]
  BY <1>1, <1>3, <1>4, Rowed
<1>6. run' \in Run /\ RunOK'
  BY <1>1, <1>4, RunGoesOn
<1>7. QED
  BY <1>1, <1>5, <1>6, RowsKeep

(* What is written back in place of the operation's record, and what is       *)
(* discarded: either way the row does not show the operation any more.        *)
LEMMA WritesBackKeeps ==
  ASSUME SyncInv, WritesBack
  PROVE  SyncInv'
<1>1. /\ run.at = "writeBack" /\ row' = [row EXCEPT ![run.rec.id] = AsRow(run.rec)]
      /\ \/ Goto("discard")
         \/ run.rec.id = Cur.id /\ Goto("drop")
      /\ UNCHANGED <<now, doc, outbox, minted, book, task, used, accepted, own, quiet>>
  BY DEF WritesBack, At
<1>2. TypeOK /\ RunOK /\ run \in Run /\ row \in [Ids -> Row \union {None}]
  BY SyncTypes DEF SyncInv
<1>3. run.rec # None /\ run.rec \in Record /\ run.rec.id \in Ids /\ run.rec.edit \in KnownEdits
  BY <1>1, <1>2 DEF RunOK, HasRec, Run, Record
<1>4. Cur.id \in Ids /\ Cur.key \in own /\ run.todo # <<>>
  BY <1>1, <1>2, Held
<1>5. KnownEdits \subseteq KnownEdits' /\ own \subseteq own'
  BY <1>1, KnownGrows
<1>6. PICK i \in Ids, x \in Row :
        i = run.rec.id /\ x.edit \in KnownEdits /\ row' = [row EXCEPT ![i] = x]
  BY <1>1, <1>3, Rowed
<1>7. CASE Goto("discard")
  <2>1. "discard" \in Places
    BY DEF Places
  <2>2. run' \in Run /\ RunOK'
    BY <1>4, <1>5, <1>7, <2>1, RunGoes
  <2>3. QED
    BY <1>1, <1>6, <2>2, RowsKeep
<1>8. CASE run.rec.id = Cur.id /\ Goto("drop")
  <2>1. "drop" \in Places
    BY DEF Places
  <2>2. /\ run' \in Run /\ run'.at = "drop"
        /\ UNCHANGED <<run.todo, run.rec, run.docs>>
    BY <1>2, <1>8, <2>1, Goes
  <2>3. Cur' = Cur /\ Cur.id = i
    BY <1>6, <1>8, <2>2 DEF Cur
  <2>4. row'[Cur.id] = x /\ (x.edit # Cur.key \/ Cur.key \in accepted)
    <3>1. row'[Cur.id] = x
      BY <1>2, <1>6, <2>3
    <3>2. QED
      BY <1>4, <1>6, <3>1 DEF KnownEdits
  <2>5. HasRec'
    BY <2>2 DEF HasRec, Judging
  <2>6. MayDrop'
    BY <1>1, <2>2, <2>3, <2>4 DEF MayDrop
  <2>7. RunOK'
    BY <1>2, <1>4, <1>5, <2>2, <2>5, <2>6, RunTurns DEF RunOK
  <2>8. QED
    BY <1>1, <1>6, <2>2, <2>7, RowsKeep
<1>9. QED
  BY <1>1, <1>7, <1>8

LEMMA DiscardsKeeps ==
  ASSUME SyncInv, Discards
  PROVE  SyncInv'
<1>1. /\ run.at = "discard" /\ row' = [row EXCEPT ![Cur.id] = None] /\ Goto("drop")
      /\ UNCHANGED <<now, doc, outbox, minted, book, task, used, accepted, own, quiet>>
  BY DEF Discards, At
<1>2. TypeOK /\ RunOK /\ run \in Run /\ row \in [Ids -> Row \union {None}]
  BY SyncTypes DEF SyncInv
<1>3. Cur.id \in Ids /\ run.todo # <<>>
  BY <1>1, <1>2, Held
<1>4. KnownEdits \subseteq KnownEdits' /\ own \subseteq own'
  BY <1>1, KnownGrows
<1>5. PICK i \in Ids : i = Cur.id
  BY <1>3
<1>6. row' = [row EXCEPT ![i] = None] /\ row'[i] = None
  BY <1>1, <1>2, <1>5
<1>7. "drop" \in Places
  BY DEF Places
<1>8. /\ run' \in Run /\ run'.at = "drop"
      /\ UNCHANGED <<run.todo, run.rec, run.docs>>
  BY <1>1, <1>2, <1>7, Goes
<1>9. Cur' = Cur
  BY <1>8 DEF Cur
<1>10. HasRec' /\ MayDrop'
  BY <1>5, <1>6, <1>8, <1>9 DEF HasRec, MayDrop, Judging
<1>11. RunOK'
  BY <1>2, <1>3, <1>4, <1>8, <1>10, RunTurns DEF RunOK
<1>12. QED
  BY <1>1, <1>6, <1>8, <1>11, RowsKeep

(* An outbox whose entries keep their keys, or lose what may be lost.         *)
LEMMA OutboxKept ==
  ASSUME SyncInv, outbox' \in [Ids -> Op \union {None}],
         \A i \in Ids : \/ /\ outbox[i] # None /\ outbox'[i] # None
                           /\ outbox'[i].key = outbox[i].key
                        \/ outbox'[i] = outbox[i]
                        \/ outbox'[i] = None /\
                             (row[i] # None => row[i].edit \notin own \ accepted),
         run' \in Run, RunOK',
         UNCHANGED <<now, row, doc, minted, book, task, used, accepted, own, quiet>>
  PROVE  SyncInv'
<1>1. TypeOK /\ TasksOK /\ DataOK /\ BookOK /\ RunOK /\ ShownEditIsSafe
  BY DEF SyncInv
<1>2. KnownEdits \subseteq KnownEdits' /\ NextEdit' = NextEdit
  BY KnownGrows DEF NextEdit
<1>3. TypeOK'
  BY <1>1, Typed, SyncTypes
<1>4. DataOK'
  BY <1>1, <1>2 DEF DataOK
<1>5. ShownEditIsSafe'
  BY <1>1 DEF ShownEditIsSafe
<1>6. TasksOK' /\ BookOK'
  BY <1>1, <1>2, TasksKept, BookKept
<1>7. QED
  BY <1>3, <1>4, <1>5, <1>6 DEF SyncInv

LEMMA RemovalIsSafe ==
  ASSUME SyncInv, RemovesOp, run.at \in {"settle", "drop"}
  PROVE  /\ outbox' \in [Ids -> Op \union {None}]
         /\ \A i \in Ids : \/ outbox'[i] = outbox[i]
                           \/ outbox'[i] = None /\
                                (row[i] # None => row[i].edit \notin own \ accepted)
<1>1. TypeOK /\ RunOK /\ ShownEditIsSafe /\ outbox \in [Ids -> Op \union {None}]
  BY SyncTypes DEF SyncInv
<1>2. Cur.id \in Ids /\ Cur.key \in own
  BY <1>1, Held
<1>3. PICK c \in Ids : c = Cur.id
  BY <1>2
<1>4. outbox' = [outbox EXCEPT ![c] = IF Queued(Cur) THEN None ELSE outbox[c]]
  BY <1>3 DEF RemovesOp
<1>5. outbox' \in [Ids -> Op \union {None}] /\ \A i \in Ids \ {c} : outbox'[i] = outbox[i]
  BY <1>1, <1>4
<1>6. CASE ~Queued(Cur)
  BY <1>1, <1>4, <1>5, <1>6
<1>7. CASE Queued(Cur)
  <2>1. outbox'[c] = None /\ outbox[c] # None /\ outbox[c].key = Cur.key
    BY <1>1, <1>3, <1>4, <1>7 DEF Queued
  <2>2. \/ Cur.key \in accepted
        \/ row[c] = None
        \/ row[c].edit # Cur.key
    BY <1>1, <1>3 DEF RunOK, MayDrop
  <2>3. row[c] # None => row[c].edit \notin own \ accepted
    BY <1>1, <2>1, <2>2 DEF ShownEditIsSafe
  <2>4. QED
    BY <1>5, <2>1, <2>3
<1>8. QED
  BY <1>6, <1>7

LEMMA SettlesKeep ==
  ASSUME SyncInv, Settles \/ Drops
  PROVE  SyncInv'
<1>1. /\ run.at \in {"settle", "drop"} /\ RemovesOp /\ (Goto("adopt") \/ NextOp)
      /\ UNCHANGED <<now, row, doc, minted, book, task, used, accepted, own, quiet>>
  BY DEF Settles, Drops, At
<1>2. TypeOK /\ RunOK
  BY DEF SyncInv
<1>3. run.todo # <<>>
  BY <1>1, <1>2, Held
<1>4. KnownEdits \subseteq KnownEdits' /\ own \subseteq own'
  BY <1>1, KnownGrows
<1>5. run' \in Run /\ RunOK'
  <2>1. "adopt" \in Places
    BY DEF Places
  <2>2. CASE Goto("adopt")
    BY <1>3, <1>4, <2>1, <2>2, RunGoes
  <2>3. CASE NextOp
    BY <1>3, <1>4, <2>3, RunGoesOn
  <2>4. QED
    BY <1>1, <2>2, <2>3
<1>6. /\ outbox' \in [Ids -> Op \union {None}]
      /\ \A i \in Ids : \/ outbox'[i] = outbox[i]
                        \/ outbox'[i] = None /\
                             (row[i] # None => row[i].edit \notin own \ accepted)
  BY <1>1, RemovalIsSafe
<1>7. QED
  BY <1>1, <1>5, <1>6, OutboxKept

LEMMA ParksKeeps ==
  ASSUME SyncInv, Parks
  PROVE  SyncInv'
<1> DEFINE parked == [outbox[Cur.id] EXCEPT
                        !.retries = Cur.retries + 1,
                        !.status = IF Cur.retries + 1 >= MaxRetries THEN "DEAD" ELSE "FAILED"]
<1>1. /\ run.at = "fail" /\ NextOp
      /\ outbox' = [outbox EXCEPT ![Cur.id] =
                      IF ~Queued(Cur) THEN outbox[Cur.id] ELSE parked]
      /\ UNCHANGED <<now, row, doc, minted, book, task, used, accepted, own, quiet>>
  BY DEF Parks, At
<1>2. TypeOK /\ RunOK /\ outbox \in [Ids -> Op \union {None}]
  BY SyncTypes DEF SyncInv
<1>3. run.todo # <<>> /\ Cur \in Op /\ Cur.id \in Ids
  BY <1>1, <1>2, Held
<1>4. Cur.retries + 1 \in Nat
  BY <1>3 DEF Op
<1>5. Queued(Cur) => parked \in Op /\ parked.key = outbox[Cur.id].key /\ outbox[Cur.id] # None
  BY <1>2, <1>3, <1>4 DEF Queued, Op
<1> HIDE DEF parked
<1>6. Queued(Cur) => parked # None
  BY <1>5, SyncConstants
<1>7. /\ outbox' \in [Ids -> Op \union {None}]
      /\ \A i \in Ids : \/ /\ outbox[i] # None /\ outbox'[i] # None
                           /\ outbox'[i].key = outbox[i].key
                        \/ outbox'[i] = outbox[i]
  BY <1>1, <1>2, <1>3, <1>5, <1>6
<1>8. run' \in Run /\ RunOK'
  BY <1>1, <1>3, RunGoesOn
<1>9. QED
  BY <1>1, <1>7, <1>8, OutboxKept

-----------------------------------------------------------------------------
LEMMA SyncSteps == SyncInv /\ [Next]_vars => SyncInv'
<1>1. SUFFICES ASSUME SyncInv, [Next]_vars PROVE SyncInv'
  OBVIOUS
<1>2. CASE LocalWrite
  BY <1>1, <1>2, ReadsKeep, StampsKeep, CommitsKeep DEF LocalWrite
<1>3. CASE \E i \in Ids, gone \in BOOLEAN : OtherDeviceWrites(i, gone)
  BY <1>1, <1>3, OthersKeep
<1>4. CASE RunStarts \/ Examines \/ Probes \/ Judges \/ Upserts
  BY <1>1, <1>4, StartsKeep, ExaminesKeeps, ProbesKeeps, JudgesKeeps, UpsertsKeep
<1>5. CASE Puts \/ Posts \/ PutsOwn \/ Deletes \/ NetworkFails \/ Rejected
  BY <1>1, <1>5, PushesKeep, FaultsKeep
<1>6. CASE Settles \/ Adopts \/ Stores \/ Drops \/ Parks
  BY <1>1, <1>6, SettlesKeep, AdoptsKeeps, StoresKeep, ParksKeeps
<1>7. CASE FindsDuplicate \/ FindsTaken \/ Restores \/ PutsTheirs \/ WritesBack \/ Discards
  BY <1>1, <1>7, FindsKeep, RestoresKeep, WritesBackKeeps, DiscardsKeeps
<1>8. CASE Pull
  BY <1>1, <1>8, PullsKeep
<1>9. CASE PullBook
  BY <1>1, <1>9, BookStartsKeeps, BookJudgesKeeps, BookUpsertsKeeps, BookEndsKeeps DEF PullBook
<1>10. CASE Crash
  BY <1>1, <1>10, CrashKeeps
<1>11. CASE UNCHANGED vars
  <2>1. /\ UNCHANGED Local /\ run' = run
    BY <1>11 DEF vars, Local
  <2>2. TypeOK /\ RunOK /\ run \in Run
    BY <1>1, SyncTypes DEF SyncInv
  <2>3. RunOK'
    <3>1. KnownEdits \subseteq KnownEdits' /\ own \subseteq own'
      BY <2>1, LocalKnown
    <3>2. accepted' = accepted /\ doc' = doc /\ row' = row
      BY <2>1 DEF Local
    <3>3. QED
      BY <2>1, <2>2, <3>1, <3>2, RunKept
  <2>4. QED
    BY <1>1, <2>1, <2>2, <2>3, LocalKept
<1>12. QED
  BY <1>1, <1>2, <1>3, <1>4, <1>5, <1>6, <1>7, <1>8, <1>9, <1>10, <1>11 DEF Next, Push

(* Types, numbers and the run's place hold in every behaviour: this is the    *)
(* induction ShownEditIsSafe needs (syncEngine.ts, syncableTable.ts,          *)
(* outboxStore.ts).                                                           *)
THEOREM SyncInvariance == Spec => []SyncInv
<1>1. Init => SyncInv
  <2>1. SUFFICES ASSUME Init PROVE SyncInv
    OBVIOUS
  <2>2. /\ now = 0 /\ row = [i \in Ids |-> None] /\ doc = [i \in Ids |-> None]
        /\ outbox = [i \in Ids |-> None] /\ minted = {} /\ run = IdleRun /\ book = IdleBook
        /\ task = [t \in Tasks |-> IdleTask] /\ accepted = {} /\ own = {} /\ quiet = FALSE
        /\ used = [edits |-> 0, remote |-> 0, books |-> 0, faults |-> 0, crashes |-> 0]
    BY <2>1 DEF Init
  <2>3. used \in Used /\ quiet \in BOOLEAN
    <3>1. used \in Used
      BY <2>2, SyncConstants DEF Used
    <3>2. quiet \in BOOLEAN
      BY <2>2
    <3>3. QED
      BY <3>1, <3>2
  <2>4. TypeOK
    BY <2>2, <2>3, Idle, SyncTypes
  <2>5. TasksOK /\ DataOK /\ ShownEditIsSafe
    BY <2>2 DEF TasksOK, Busy, IdleTask, DataOK, ShownEditIsSafe
  <2>6. BookOK
    BY <2>2 DEF BookOK, IdleBook
  <2>7. RunOK
    <3>1. run.at = "idle" /\ run.todo = <<>> /\ run.rec = None /\ run.docs = {}
      BY <2>2 DEF IdleRun
    <3>2. Len(run.todo) = 0 /\ HasOp /\ HasRec /\ MayDrop
      BY <3>1 DEF HasOp, HasRec, MayDrop, Judging
    <3>3. QED
      BY <3>1, <3>2 DEF RunOK
  <2>8. QED
    BY <2>4, <2>5, <2>6, <2>7 DEF SyncInv
<1>2. QED
  BY <1>1, SyncSteps, PTL DEF Spec

(* The property: an edit the device shows and the server never had is still   *)
(* queued, for any number of records, writers, faults and crashes.            *)
THEOREM ShownEditsAreSafe == Spec => []ShownEditIsSafe
<1>1. SyncInv => ShownEditIsSafe
  BY DEF SyncInv
<1>2. QED
  BY <1>1, SyncInvariance, PTL

(* The tables, and what is in hand at every await, keep their types.          *)
THEOREM SyncTypesHold == Spec => []TypeOK
<1>1. SyncInv => TypeOK
  BY DEF SyncInv
<1>2. QED
  BY <1>1, SyncInvariance, PTL

-----------------------------------------------------------------------------
(* What a quiet run leaves.                                                   *)

(* A record or a synced row is what a document was, or is.                    *)
Behind(x, d) ==
  /\ d # None
  /\ x.updated <= d.updated
  /\ x.updated = d.updated => x.edit = d.edit /\ x.deleted = d.deleted

(* The clock is ahead of the documents, so each write of one is later; and    *)
(* what came from the server is of a document.                                *)
InStep ==
  /\ \A i \in Ids : doc[i] # None => doc[i].updated <= now
  /\ \A i \in Ids : row[i] # None /\ row[i].synced => Behind(row[i], doc[i])
  /\ run.rec # None => Behind(run.rec, doc[run.rec.id])
  /\ book.rec # None => Behind(book.rec, doc[book.rec.id])
  /\ \A r \in run.docs \union book.docs : Behind(r, doc[r.id])

(* An unsynced row is of the operation that is queued, or the server has a    *)
(* document of it.                                                            *)
Unsynced ==
  \A i \in Ids :
    row[i] # None /\ ~row[i].synced =>
      IF outbox[i] = None THEN row[i].deleted \/ doc[i] # None
      ELSE outbox[i].key = row[i].edit /\ (outbox[i].kind = "DELETE" <=> row[i].deleted)

(* What a run knows of the operations it has in hand, and of the record it    *)
(* has for one.                                                               *)
Named == \A i \in Ids : outbox[i] # None => outbox[i].id = i
Pulling == At("pulling") \/ (Judging /\ run.then = "pulling")
Kinds ==
  \A n \in 1..Len(run.todo) :
    Queued(run.todo[n]) => outbox[run.todo[n].id].kind = run.todo[n].kind
Working ==
  /\ At("delete") => Cur.kind = "DELETE"
  /\ run.at \in {"settle", "adopt", "store"} /\ run.rec # None => run.rec.id = Cur.id
  /\ At("settle") => Cur.kind = "DELETE" \/ doc[Cur.id] # None
  /\ At("drop") /\ Queued(Cur) => row[Cur.id] = None \/ row[Cur.id].synced
  /\ run.at \in {"adopt", "store"} => ~Queued(Cur)
  /\ Pulling => run.todo = <<>>

(* Nothing else moves while a run is quiet: what is due is in its hands,      *)
(* and the documents it has not met are still to come.                        *)
Alone == book.at = "idle" /\ \A t \in Tasks : ~Busy(t)
Due(i) == outbox[i] # None /\ outbox[i].status = "PENDING"
InHands ==
  ~At("idle") =>
    \A i \in Ids : Due(i) =>
      \E n \in 1..Len(run.todo) : run.todo[n].id = i /\ run.todo[n].key = outbox[i].key
Met(i) ==
  \/ outbox[i] # None /\ outbox[i].status # "PENDING"
  \/ row[i] # None /\ row[i].deleted
  \/ LiveRow(i) /\ LiveDoc(i) /\ row[i].edit = doc[i].edit
  \/ HeldBack(i)
Meeting ==
  Pulling =>
    /\ \A r \in run.docs : doc[r.id] # None /\ r = DocRecord(r.id)
    /\ Judging => doc[run.rec.id] # None /\ run.rec = DocRecord(run.rec.id)
    /\ \A i \in Ids : doc[i] # None =>
         DocRecord(i) \in run.docs \/ (Judging /\ run.rec.id = i) \/ Met(i)
Quiet == Alone /\ InHands /\ Meeting

SettleInv == InStep /\ Unsynced /\ Named /\ Kinds /\ Working /\ (quiet => Quiet)
-----------------------------------------------------------------------------
LEMMA HandTypes ==
  ASSUME TypeOK
  PROVE  /\ now \in Nat
         /\ \A i \in Ids : doc[i] # None => doc[i] \in Doc /\ doc[i].updated \in Int
         /\ \A i \in Ids : row[i] # None => row[i] \in Row /\ row[i].updated \in Int
         /\ run.rec # None => run.rec \in Record /\ run.rec.id \in Ids /\ run.rec.updated \in Int
         /\ book.rec # None => book.rec \in Record /\ book.rec.id \in Ids /\ book.rec.updated \in Int
         /\ \A r \in run.docs \union book.docs : r \in Record /\ r.id \in Ids /\ r.updated \in Int
<1>1. /\ run.rec \in Record \union {None} /\ run.docs \subseteq Record
      /\ book.rec \in Record \union {None} /\ book.docs \subseteq Record
  BY SyncTypes DEF Run, Book
<1>2. \A r \in Record : r.id \in Ids /\ r.updated \in Int
  BY DEF Record, Stamps
<1>3. /\ \A i \in Ids : doc[i] # None => doc[i] \in Doc
      /\ \A i \in Ids : row[i] # None => row[i] \in Row
  BY SyncTypes
<1> QED BY <1>1, <1>2, <1>3, SyncTypes DEF Doc, Row, Stamps

LEMMA DocIsBehind ==
  ASSUME TypeOK, NEW i \in Ids, doc[i] # None
  PROVE  Behind(DocRecord(i), doc[i]) /\ DocRecord(i).id = i
BY HandTypes DEF Behind, DocRecord

LEMMA RowIsBehind ==
  ASSUME NEW x \in Record, NEW d, Behind(x, d)
  PROVE  Behind(AsRow(x), d) /\ AsRow(x).synced /\ AsRow(x) # None
<1>1. AsRow(x) # None
  BY Rowed, SyncConstants
<1> QED BY <1>1 DEF Behind, AsRow, Record

(* How the documents move: a write of one is later than all there are.        *)
DocsMove ==
  \/ now' = now /\ doc' = doc
  \/ /\ now' = now + 1
     /\ \A i \in Ids : doc'[i] = doc[i] \/ (doc'[i] # None /\ doc'[i].updated = now + 1)

LEMMA StaysBehind ==
  ASSUME TypeOK, InStep, DocsMove, NEW i \in Ids, NEW x, x.updated \in Int, Behind(x, doc[i])
  PROVE  Behind(x, doc'[i])
<1>1. doc[i] # None /\ doc[i].updated \in Int /\ doc[i].updated <= now /\ now \in Nat
  BY HandTypes DEF Behind, InStep
<1> QED BY <1>1 DEF DocsMove, Behind

LEMMA InStepKept ==
  ASSUME TypeOK, InStep, DocsMove, TypeOK',
         \A i \in Ids : row'[i] # None /\ row'[i].synced =>
           row'[i] = row[i] \/ Behind(row'[i], doc'[i]),
         run'.rec # None => run'.rec = run.rec \/ Behind(run'.rec, doc'[run'.rec.id]),
         \A r \in run'.docs : r \in run.docs \/ Behind(r, doc'[r.id]),
         book'.rec # None =>
           \/ book'.rec = book.rec
           \/ book'.rec \in book.docs
           \/ Behind(book'.rec, doc'[book'.rec.id]),
         \A r \in book'.docs : r \in book.docs \/ Behind(r, doc'[r.id])
  PROVE  InStep'
<1>0. now \in Nat
  BY SyncTypes
<1>1. \A i \in Ids : doc'[i] # None => doc'[i].updated <= now'
  <2>1. \A i \in Ids : doc[i] # None => doc[i].updated \in Int /\ doc[i].updated <= now
    BY HandTypes DEF InStep
  <2> QED BY <1>0, <2>1 DEF DocsMove
<1>2. \A i \in Ids : row'[i] # None /\ row'[i].synced => Behind(row'[i], doc'[i])
  BY StaysBehind, HandTypes DEF InStep
<1>3. \A r \in Record : r.id \in Ids /\ r.updated \in Int
  BY DEF Record, Stamps
<1>4. /\ run.rec # None => run.rec \in Record
      /\ book.rec # None => book.rec \in Record
      /\ run.docs \subseteq Record /\ book.docs \subseteq Record
  BY HandTypes
<1>5. /\ run.rec # None => Behind(run.rec, doc'[run.rec.id])
      /\ book.rec # None => Behind(book.rec, doc'[book.rec.id])
      /\ \A r \in run.docs \union book.docs : Behind(r, doc'[r.id])
  BY <1>3, <1>4, StaysBehind DEF InStep
<1> QED BY <1>1, <1>2, <1>5 DEF InStep

(* Rows and operations stay as they are, or change together.                  *)
LEMMA UnsyncedKept ==
  ASSUME Unsynced, \A i \in Ids : doc[i] # None => doc'[i] # None,
         \A i \in Ids :
           \/ row'[i] = None
           \/ row'[i].synced
           \/ /\ row'[i] = row[i]
              /\ \/ outbox'[i] = outbox[i]
                 \/ /\ outbox[i] # None /\ outbox'[i] # None
                    /\ outbox'[i].key = outbox[i].key /\ outbox'[i].kind = outbox[i].kind
                 \/ outbox'[i] = None /\ (row[i].deleted \/ doc[i] # None)
  PROVE  Unsynced'
BY DEF Unsynced

LEMMA KindsKept ==
  ASSUME Kinds,
         \A n \in 1..Len(run'.todo) : \E m \in 1..Len(run.todo) : run'.todo[n] = run.todo[m],
         \A m \in 1..Len(run.todo) :
           LET i == run.todo[m].id IN
           \/ outbox'[i] = outbox[i]
           \/ outbox'[i] = None
           \/ outbox'[i].key # run.todo[m].key
           \/ outbox[i] # None /\ outbox'[i].kind = outbox[i].kind /\ outbox'[i].key = outbox[i].key
  PROVE  Kinds'
<1> SUFFICES ASSUME NEW n \in 1..Len(run'.todo),
                    outbox'[run'.todo[n].id] # None,
                    outbox'[run'.todo[n].id].key = run'.todo[n].key
             PROVE  outbox'[run'.todo[n].id].kind = run'.todo[n].kind
  BY DEF Kinds, Queued
<1>1. PICK m \in 1..Len(run.todo) : run'.todo[n] = run.todo[m]
  OBVIOUS
<1> DEFINE i == run.todo[m].id
<1>2. \/ outbox'[i] = outbox[i]
      \/ outbox'[i] = None
      \/ outbox'[i].key # run.todo[m].key
      \/ outbox[i] # None /\ outbox'[i].kind = outbox[i].kind /\ outbox'[i].key = outbox[i].key
  OBVIOUS
<1>3. outbox[i] # None /\ outbox[i].key = run.todo[m].key => outbox[i].kind = run.todo[m].kind
  BY DEF Kinds, Queued
<1> QED BY ONLY <1>1, <1>2, <1>3, outbox'[run'.todo[n].id] # None,
                outbox'[run'.todo[n].id].key = run'.todo[n].key

(* A step of the run, or of nothing at all, that leaves rows and operations.  *)
LEMMA RunSteps ==
  ASSUME SyncInv, TypeOK', SettleInv, DocsMove, UNCHANGED <<row, outbox>>,
         run'.rec # None => run'.rec = run.rec \/ Behind(run'.rec, doc'[run'.rec.id]),
         \A r \in run'.docs : r \in run.docs \/ Behind(r, doc'[r.id]),
         book'.rec # None =>
           \/ book'.rec = book.rec
           \/ book'.rec \in book.docs
           \/ Behind(book'.rec, doc'[book'.rec.id]),
         \A r \in book'.docs : r \in book.docs \/ Behind(r, doc'[r.id]),
         Kinds', Working', quiet' => Quiet'
  PROVE  SettleInv'
<1>1. InStep'
  BY InStepKept DEF SyncInv, SettleInv
<1>2. \A i \in Ids : doc[i] # None => doc'[i] # None
  BY DEF DocsMove
<1>3. Unsynced'
  BY <1>2, UnsyncedKept DEF SettleInv
<1> QED BY <1>1, <1>3 DEF SettleInv, Named

(* The run stays with the operation it works on.                              *)
LEMMA RunStays ==
  ASSUME SyncInv, TypeOK', SettleInv, DocsMove, UNCHANGED <<row, outbox, book, task>>,
         ~At("idle"), run'.todo = run.todo,
         run'.rec # None => run'.rec = run.rec \/ Behind(run'.rec, doc'[run'.rec.id]),
         run'.docs \subseteq run.docs, quiet' => quiet,
         run'.at \notin {"idle", "drop", "adopt", "store", "pulling"},
         run'.at \in {"judge", "upsert"} => run'.then # "pulling",
         run'.at = "delete" => Cur.kind = "DELETE",
         run'.at = "settle" =>
           /\ Cur.kind = "DELETE" \/ doc'[Cur.id] # None
           /\ run'.rec # None => run'.rec.id = Cur.id
  PROVE  SettleInv'
<1>1. Kinds'
  BY KindsKept DEF SettleInv
<1>2. ~Pulling'
  BY DEF Pulling, At, Judging
<1>3. Working'
  BY <1>2 DEF Working, At, Cur
<1>4. quiet' => Quiet'
  BY <1>2 DEF SettleInv, Quiet, Alone, Busy, InHands, Due, Meeting, At
<1>5. \A r \in run'.docs : r \in run.docs
  OBVIOUS
<1> QED BY <1>1, <1>3, <1>4, <1>5, RunSteps

(* The run ends where it is.                                                  *)
LEMMA RunStops ==
  ASSUME SyncInv, TypeOK', SettleInv, DocsMove, UNCHANGED <<row, outbox>>,
         run' = IdleRun, quiet' => quiet /\ UNCHANGED <<book, task>>,
         book' = book \/ book' = IdleBook
  PROVE  SettleInv'
<1>1. run'.at = "idle" /\ run'.todo = <<>> /\ run'.rec = None /\ run'.docs = {} /\ Len(run'.todo) = 0
  BY DEF IdleRun
<1>2. Kinds'
  BY <1>1 DEF Kinds
<1>3. ~Pulling' /\ Working'
  BY <1>1 DEF Pulling, Working, At, Judging
<1>4. quiet' => Quiet'
  BY <1>1, <1>3 DEF SettleInv, Quiet, Alone, Busy, InHands, Meeting, At
<1>5. book' = IdleBook => book'.rec = None /\ book'.docs = {}
  BY DEF IdleBook
<1> QED BY <1>1, <1>2, <1>3, <1>4, <1>5, RunSteps

(* Something else happens, and what the run has in hand stays.                *)
LEMMA OthersStep ==
  ASSUME SyncInv, TypeOK', SettleInv, DocsMove, UNCHANGED <<row, outbox, run>>, ~quiet',
         book'.rec # None =>
           \/ book'.rec = book.rec
           \/ book'.rec \in book.docs
           \/ Behind(book'.rec, doc'[book'.rec.id]),
         \A r \in book'.docs : r \in book.docs \/ Behind(r, doc'[r.id])
  PROVE  SettleInv'
<1>1. Kinds'
  BY DEF SettleInv, Kinds, Queued
<1>2. Working'
  <2>1. \A i \in Ids : doc[i] # None => doc'[i] # None
    BY DEF DocsMove
  <2>2. At("settle") => Cur.id \in Ids
    BY Held DEF SyncInv, At
  <2> QED BY <2>1, <2>2 DEF SettleInv, Working, At, Cur, Queued, Pulling, Judging
<1> QED BY <1>1, <1>2, RunSteps

-----------------------------------------------------------------------------
(* Another device, a store call's read, a pullBook's start; a process death.  *)
LEMMA OthersLeaveIt ==
  ASSUME SyncInv, TypeOK', SettleInv,
         \/ \E i \in Ids, gone \in BOOLEAN : OtherDeviceWrites(i, gone)
         \/ \E t \in Tasks, kind \in {"CREATE", "UPDATE", "DELETE"}, i \in Ids : TaskReads(t, kind, i)
         \/ BookStarts
  PROVE  SettleInv'
<1>0. TypeOK /\ doc \in [Ids -> Doc \union {None}] /\ now \in Nat
  BY SyncTypes DEF SyncInv
<1>1. ASSUME NEW i \in Ids, NEW gone \in BOOLEAN, OtherDeviceWrites(i, gone) PROVE SettleInv'
  <2>1. /\ doc' = [doc EXCEPT ![i] = Stored(NextEdit, gone)] /\ now' = now + 1 /\ ~quiet'
        /\ UNCHANGED <<row, outbox, run, book, task>>
    BY <1>1 DEF OtherDeviceWrites, ClockAdvances, Disturbed
  <2>2. doc'[i] = Stored(NextEdit, gone)
    BY <1>0, <2>1
  <2>3. doc'[i].updated = now + 1
    BY <2>2 DEF Stored, ServerNow
  <2>4. doc'[i] # None
    <3>1. Stored(NextEdit, gone) \in Doc
      BY <1>0, KnownAreNat DEF Stored, Doc, ServerNow, Edits, Stamps
    <3> QED BY <2>2, <3>1, SyncConstants
  <2>5. DocsMove
    BY <1>0, <2>1, <2>3, <2>4 DEF DocsMove
  <2> QED BY <2>1, <2>5, OthersStep
<1>2. ASSUME NEW t \in Tasks, NEW kind \in {"CREATE", "UPDATE", "DELETE"}, NEW i \in Ids, TaskReads(t, kind, i)
      PROVE  SettleInv'
  <2>1. UNCHANGED <<row, doc, outbox, run, book>> /\ now' = now + 1 /\ ~quiet'
    BY <1>2 DEF TaskReads, ClockAdvances, Disturbed
  <2>2. DocsMove
    BY <2>1 DEF DocsMove
  <2> QED BY <2>1, <2>2, OthersStep
<1>3. CASE BookStarts
  <2>1. /\ UNCHANGED <<now, row, doc, outbox, run>> /\ ~quiet'
        /\ book' = [IdleBook EXCEPT !.at = "pulling", !.docs = AllDocs]
    BY <1>3 DEF BookStarts, Disturbed
  <2>2. book'.rec = None /\ book'.docs = AllDocs
    BY <2>1 DEF IdleBook
  <2>3. DocsMove
    BY <2>1 DEF DocsMove
  <2>4. \A r \in AllDocs : Behind(r, doc[r.id])
    BY <1>0, DocIsBehind DEF AllDocs
  <2> QED BY <2>1, <2>2, <2>3, <2>4, OthersStep
<1> QED BY <1>1, <1>2, <1>3

LEMMA CrashLeavesIt ==
  ASSUME SyncInv, TypeOK', SettleInv, Crash
  PROVE  SettleInv'
<1>1. UNCHANGED <<now, row, doc, outbox>> /\ run' = IdleRun /\ book' = IdleBook /\ ~quiet'
  BY DEF Crash, Disturbed
<1>2. DocsMove
  BY <1>1 DEF DocsMove
<1> QED BY <1>1, <1>2, RunStops

(* What a request leaves that writes the document.                            *)
LEMMA WroteLater ==
  ASSUME TypeOK, TypeOK', NEW i \in Ids, NEW key \in Nat, NEW gone \in BOOLEAN,
         NEW place \in Places, Writes(i, key, gone, place)
  PROVE  /\ DocsMove /\ doc'[i] # None /\ UNCHANGED <<row, outbox, book, task>>
         /\ quiet' => quiet
         /\ \/ /\ run'.at = place /\ run'.rec # None /\ Behind(run'.rec, doc'[run'.rec.id])
               /\ run'.rec.id = i
               /\ UNCHANGED <<run.todo, run.docs>>
            \/ run' = IdleRun
            \/ run'.at = "fail" /\ UNCHANGED <<run.todo, run.rec, run.docs>>
<1> DEFINE x == [id |-> i, edit |-> key, updated |-> ServerNow, deleted |-> gone]
<1>1. /\ doc' = [doc EXCEPT ![i] = Stored(key, gone)] /\ now' = now + 1
      /\ doc \in [Ids -> Doc \union {None}] /\ now \in Nat /\ run \in Run
      /\ UNCHANGED <<row, outbox, book, task>>
      /\ \/ GotoWith(place, x) /\ UNCHANGED <<used, quiet>>
         \/ Breaks
  BY SyncTypes DEF Writes, ClockAdvances
<1>2. Stored(key, gone) \in Doc
  BY <1>1 DEF Stored, Doc, ServerNow, Edits, Stamps
<1>3. doc'[i] = Stored(key, gone) /\ doc'[i] # None /\ doc'[i].updated = now + 1
  BY <1>1, <1>2, SyncConstants DEF Stored, ServerNow
<1>4. DocsMove
  BY <1>1, <1>3 DEF DocsMove
<1>5. Behind(x, doc'[x.id]) /\ x.id = i
  BY <1>1, <1>3 DEF Behind, Stored, ServerNow
<1>6. CASE GotoWith(place, x) /\ UNCHANGED <<used, quiet>>
  <2>1. x \in Record
    BY <1>1 DEF Record, ServerNow, Edits, Stamps
  <2>2. x # None
    BY <2>1, SyncConstants
  <2> HIDE DEF x
  <2>3. run'.at = place /\ run'.rec = x /\ UNCHANGED <<run.todo, run.docs>>
    BY <1>1, <1>6, <2>1, GoesWith
  <2> QED BY <1>1, <1>3, <1>4, <1>5, <1>6, <2>2, <2>3
<1>7. CASE Breaks
  BY <1>1, <1>3, <1>4, <1>7, Broken
<1> QED BY <1>1, <1>6, <1>7

LEMMA WritesLeaveIt ==
  ASSUME SyncInv, TypeOK', SettleInv, NEW i \in Ids, NEW key \in Nat, NEW gone \in BOOLEAN,
         NEW place \in {"settle", "putTheirs", "writeBack"}, Writes(i, key, gone, place),
         ~At("idle"), place = "settle" => i = Cur.id
  PROVE  SettleInv'
<1>1. place \in Places
  BY DEF Places
<1>2. /\ DocsMove /\ doc'[i] # None /\ UNCHANGED <<row, outbox, book, task>>
      /\ quiet' => quiet
      /\ \/ /\ run'.at = place /\ run'.rec # None /\ Behind(run'.rec, doc'[run'.rec.id])
            /\ run'.rec.id = i
            /\ UNCHANGED <<run.todo, run.docs>>
         \/ run' = IdleRun
         \/ run'.at = "fail" /\ UNCHANGED <<run.todo, run.rec, run.docs>>
  BY <1>1, WroteLater DEF SyncInv
<1>3. CASE run' = IdleRun
  BY <1>2, <1>3, RunStops
<1>4. CASE run' # IdleRun
  <2>1. /\ run'.todo = run.todo /\ run'.docs = run.docs
        /\ \/ run'.at = place /\ Behind(run'.rec, doc'[run'.rec.id]) /\ run'.rec.id = i
           \/ run'.at = "fail" /\ run'.rec = run.rec
    BY <1>2, <1>4
  <2> QED BY <1>2, <2>1, RunStays
<1> QED BY <1>3, <1>4

(* A step of the run that changes nothing else, to another place.             *)
LEMMA GotoLeavesIt ==
  ASSUME SyncInv, TypeOK', SettleInv, UNCHANGED <<now, row, doc, outbox, book, task>>,
         quiet' => quiet, ~At("idle"),
         NEW place \in {"next", "probe", "conflict", "put", "post", "putOwn", "delete", "findDuplicate",
                        "findTaken", "restore", "putTheirs", "writeBack", "discard", "fail"},
         Goto(place), place = "delete" => Cur.kind = "DELETE"
  PROVE  SettleInv'
<1>1. place \in Places /\ run \in Run
  BY SyncTypes DEF Places, SyncInv
<1>2. run'.at = place /\ UNCHANGED <<run.todo, run.rec, run.docs>>
  BY <1>1, Goes
<1>3. DocsMove
  BY DEF DocsMove
<1> QED BY <1>2, <1>3, RunStays

LEMMA RequestsLeaveIt ==
  ASSUME SyncInv, TypeOK', SettleInv,
         Puts \/ Posts \/ PutsOwn \/ Deletes \/ Restores \/ PutsTheirs
  PROVE  SettleInv'
<1>0. /\ run.at \in {"put", "post", "putOwn", "delete", "restore", "putTheirs"}
      /\ ~At("idle") /\ run \in Run /\ TypeOK
      /\ Cur \in Op /\ Cur.id \in Ids /\ Cur.key \in Nat
      /\ run.rec # None => run.rec.id \in Ids
  <2>1. run.at \in {"put", "post", "putOwn", "delete", "restore", "putTheirs"}
    BY DEF Puts, Posts, PutsOwn, Deletes, Restores, PutsTheirs, At
  <2> QED BY <2>1, Held, HandTypes, SyncTypes DEF SyncInv, At, Op, Edits
<1>1. CASE Puts \/ Posts \/ PutsOwn
  <2>1. \/ Writes(Cur.id, Cur.key, FALSE, "settle")
        \/ \E p \in {"post", "findTaken", "putOwn", "findDuplicate", "fail"} : Goto(p) /\ UNCHANGED Local
    BY <1>1 DEF Puts, Posts, PutsOwn
  <2>2. CASE Writes(Cur.id, Cur.key, FALSE, "settle")
    BY <1>0, <2>2, WritesLeaveIt
  <2>3. ASSUME NEW p \in {"post", "findTaken", "putOwn", "findDuplicate", "fail"}, Goto(p), UNCHANGED Local
        PROVE  SettleInv'
    BY <1>0, <2>3, GotoLeavesIt DEF Local
  <2> QED BY <2>1, <2>2, <2>3
<1>2. CASE Deletes
  <2>1. CASE Writes(Cur.id, Cur.key, TRUE, "settle")
    BY <1>0, <2>1, WritesLeaveIt
  <2>2. CASE /\ GotoWith("settle", None)
             /\ UNCHANGED <<now, row, doc, outbox, minted, book, task, used, own, quiet>>
    <3>1. "settle" \in Places
      BY DEF Places
    <3>2. run'.at = "settle" /\ run'.rec = None /\ UNCHANGED <<run.todo, run.docs>>
      BY <1>0, <2>2, <3>1, GoesWith
    <3>3. DocsMove
      BY <2>2 DEF DocsMove
    <3>4. Cur.kind = "DELETE"
      BY <1>2 DEF SettleInv, Working, Deletes
    <3> QED BY <1>0, <2>2, <3>2, <3>3, <3>4, RunStays
  <2> QED BY <1>2, <2>1, <2>2 DEF Deletes
<1>3. CASE Restores
  <2>1. run.rec # None /\ run.rec.id \in Ids /\ doc[run.rec.id] # None
    BY <1>0, <1>3 DEF SyncInv, RunOK, HasRec, Restores, At
  <2>2. doc[run.rec.id].edit \in Nat
    BY <1>0, <2>1, HandTypes DEF Doc, Edits
  <2>3. CASE Writes(run.rec.id, doc[run.rec.id].edit, FALSE, "putTheirs")
    BY <1>0, <2>1, <2>2, <2>3, WritesLeaveIt
  <2>4. CASE Goto("putTheirs") /\ UNCHANGED Local
    BY <1>0, <2>4, GotoLeavesIt DEF Local
  <2> QED BY <1>3, <2>3, <2>4 DEF Restores
<1>4. CASE PutsTheirs
  <2>1. run.rec # None /\ run.rec.id \in Ids
    BY <1>0, <1>4 DEF SyncInv, RunOK, HasRec, PutsTheirs, At
  <2>2. CASE Writes(run.rec.id, Cur.key, FALSE, "writeBack")
    BY <1>0, <2>1, <2>2, WritesLeaveIt
  <2>3. CASE Goto("fail") /\ UNCHANGED Local
    BY <1>0, <2>3, GotoLeavesIt DEF Local
  <2> QED BY <1>4, <2>2, <2>3 DEF PutsTheirs
<1> QED BY <1>1, <1>2, <1>3, <1>4

LEMMA FaultsLeaveIt ==
  ASSUME SyncInv, TypeOK', SettleInv, NetworkFails \/ Rejected
  PROVE  SettleInv'
<1>1. CASE NetworkFails
  <2>1. /\ UNCHANGED <<now, row, doc, outbox, book, task>> /\ ~quiet' /\ ~At("idle") /\ DocsMove
        /\ Goto("fail") \/ run' = IdleRun
    BY <1>1 DEF NetworkFails, Requesting, Breaks, Disturbed, At, DocsMove
  <2> QED BY <2>1, GotoLeavesIt, RunStops
<1>2. CASE Rejected
  <2>1. UNCHANGED <<now, row, doc, outbox, book, task, quiet>> /\ Goto("fail") /\ ~At("idle")
    BY <1>2 DEF Rejected, At
  <2> QED BY <2>1, GotoLeavesIt
<1> QED BY <1>1, <1>2

-----------------------------------------------------------------------------
(* The run's way to a request, and through a pull.                            *)
LEMMA RequestOf ==
  ASSUME NEW op \in Op
  PROVE  /\ FirstRequest(op) \in {"post", "put", "delete"}
         /\ FirstRequest(op) = "delete" => op.kind = "DELETE"
<1>1. op.kind \in {"CREATE", "UPDATE", "DELETE"}
  BY DEF Op
<1> QED BY <1>1 DEF FirstRequest

LEMMA ExaminesLeavesIt ==
  ASSUME SyncInv, TypeOK', SettleInv, Examines \/ Probes
  PROVE  SettleInv'
<1>0. /\ TypeOK /\ run \in Run /\ UNCHANGED Local /\ run.at \in {"next", "probe"} /\ ~At("idle")
      /\ Cur \in Op /\ Cur.id \in Ids
  <2>1. run.at \in {"next", "probe"} /\ UNCHANGED Local /\ (At("next") => run.todo # <<>>)
    BY DEF Examines, Probes, At
  <2> QED BY <2>1, Held, SyncTypes DEF SyncInv, At
<1>1. UNCHANGED <<now, row, doc, outbox, book, task, quiet>> /\ DocsMove
  BY <1>0 DEF Local, DocsMove
<1>2. CASE Goto(FirstRequest(Cur))
  BY <1>0, <1>1, <1>2, RequestOf, GotoLeavesIt
<1>3. ASSUME NEW base, run' = [run EXCEPT !.at = "probe", !.base = base] PROVE SettleInv'
  <2>1. run'.at = "probe" /\ UNCHANGED <<run.todo, run.rec, run.docs>>
    BY <1>0, <1>3 DEF Run
  <2> QED BY <1>0, <1>1, <2>1, RunStays
<1>4. CASE LiveDoc(Cur.id) /\ run' = [run EXCEPT !.at = "judge", !.rec = DocRecord(Cur.id),
                                                !.then = "conflict"]
  <2>1. /\ run'.at = "judge" /\ run'.rec = DocRecord(Cur.id) /\ run'.then = "conflict"
        /\ UNCHANGED <<run.todo, run.docs>>
    BY <1>0, <1>4 DEF Run
  <2>2. Behind(run'.rec, doc'[run'.rec.id])
    BY <1>0, <1>1, <1>4, <2>1, DocIsBehind DEF LiveDoc
  <2> QED BY <1>0, <1>1, <2>1, <2>2, RunStays
<1> QED BY <1>2, <1>3, <1>4 DEF Examines, Probes

LEMMA FindsLeaveIt ==
  ASSUME SyncInv, TypeOK', SettleInv, FindsDuplicate \/ FindsTaken
  PROVE  SettleInv'
<1>0. /\ TypeOK /\ run \in Run /\ UNCHANGED Local /\ run.at \in {"findDuplicate", "findTaken"} /\ ~At("idle")
  BY SyncTypes DEF SyncInv, At, FindsDuplicate, FindsTaken
<1>1. UNCHANGED <<now, row, doc, outbox, book, task, quiet>> /\ DocsMove
  BY <1>0 DEF Local, DocsMove
<1>2. CASE Goto("discard")
  BY <1>0, <1>1, <1>2, GotoLeavesIt
<1>3. ASSUME NEW j \in Ids, LiveDoc(j),
             run' = [run EXCEPT !.at = "judge", !.rec = DocRecord(j), !.then = "discard"]
      PROVE  SettleInv'
  <2>1. /\ run'.at = "judge" /\ run'.rec = DocRecord(j) /\ run'.then = "discard"
        /\ UNCHANGED <<run.todo, run.docs>>
    BY <1>0, <1>3 DEF Run
  <2>2. Behind(run'.rec, doc'[run'.rec.id])
    BY <1>0, <1>1, <1>3, <2>1, DocIsBehind DEF LiveDoc
  <2> QED BY <1>0, <1>1, <2>1, <2>2, RunStays
<1>4. ASSUME NEW j \in Ids, doc[j] # None, NEW place \in {"writeBack", "restore"},
             GotoWith(place, DocRecord(j))
      PROVE  SettleInv'
  <2>1. place \in Places /\ DocRecord(j) \in Record
    BY <1>0, <1>4, Fetched, SyncTypes DEF Places
  <2>2. run'.at = place /\ run'.rec = DocRecord(j) /\ UNCHANGED <<run.todo, run.docs>>
    BY <1>0, <1>4, <2>1, GoesWith
  <2>3. Behind(run'.rec, doc'[run'.rec.id])
    BY <1>0, <1>1, <1>4, <2>2, DocIsBehind
  <2> QED BY <1>0, <1>1, <2>2, <2>3, RunStays
<1> QED BY <1>2, <1>3, <1>4 DEF FindsDuplicate, FindsTaken

(* A document that a pull does not take is met already.                       *)
LEMMA JudgedIsMet ==
  ASSUME SyncInv, SettleInv, quiet, At("judge"), run.then = "pulling",
         ~Takes(row[run.rec.id], run.rec)
  PROVE  Met(run.rec.id)
<1> DEFINE i == run.rec.id
<1>1. Pulling /\ Judging
  BY DEF Pulling, Judging, At
<1>2. doc[i] # None /\ run.rec = DocRecord(i) /\ run.todo = <<>> /\ i \in Ids
  <2>1. doc[i] # None /\ run.rec = DocRecord(i)
    BY <1>1 DEF SettleInv, Quiet, Meeting
  <2>2. run.rec # None
    BY DEF SyncInv, RunOK, HasRec, At
  <2>3. TypeOK
    BY DEF SyncInv
  <2> QED BY <1>1, <2>1, <2>2, <2>3, HandTypes DEF SettleInv, Working
<1>3. ~Due(i)
  <2>1. Len(run.todo) = 0 /\ ~At("idle")
    BY <1>2 DEF At
  <2> QED BY <1>2, <2>1 DEF SettleInv, Quiet, InHands
<1>4. /\ row[i] # None /\ row[i].updated \in Int /\ doc[i].updated \in Int
      /\ row[i].deleted \in BOOLEAN /\ row[i].synced \in BOOLEAN /\ doc[i].deleted \in BOOLEAN
  <2>1. row[i] # None
    BY DEF Takes
  <2> QED BY <1>2, <2>1, HandTypes DEF SyncInv, Row, Doc
<1>5. run.rec.updated = doc[i].updated /\ run.rec.deleted = doc[i].deleted
  BY <1>2 DEF DocRecord
<1>6. CASE row[i].deleted
  BY <1>4, <1>6 DEF Met
<1>7. CASE ~row[i].deleted
  <2>1. ~doc[i].deleted /\ row[i].updated >= doc[i].updated
    BY <1>4, <1>5, <1>7 DEF Takes
  <2>2. CASE row[i].synced
    <3>1. Behind(row[i], doc[i])
      BY <1>2, <1>4, <2>2 DEF SettleInv, InStep
    <3>2. row[i].edit = doc[i].edit
      BY <1>4, <2>1, <3>1 DEF Behind
    <3> QED BY <1>2, <1>4, <1>7, <2>1, <3>2 DEF Met, LiveRow, LiveDoc
  <2>3. CASE ~row[i].synced
    BY <1>2, <1>3, <1>4, <1>7, <2>1, <2>3 DEF Met, HeldBack, LiveRow, LiveDoc, Due
  <2> QED BY <1>4, <2>2, <2>3
<1> QED BY <1>6, <1>7

LEMMA PullMoves ==
  ASSUME SyncInv, TypeOK', SettleInv, UNCHANGED Local, run.todo = <<>>, run'.todo = <<>>, ~At("idle"),
         run'.at \in {"pulling", "judge", "upsert"}, run'.at # "pulling" => run'.then = "pulling",
         run'.rec # None => run'.rec = run.rec \/ Behind(run'.rec, doc[run'.rec.id]),
         \A r \in run'.docs : r \in run.docs \/ Behind(r, doc[r.id]),
         quiet => Meeting'
  PROVE  SettleInv'
<1>1. UNCHANGED <<now, row, doc, outbox, book, task, quiet>> /\ DocsMove
  BY DEF Local, DocsMove
<1>2. Kinds'
  <2>1. Len(run'.todo) = 0
    OBVIOUS
  <2> QED BY <2>1 DEF Kinds
<1>3. Working'
  BY DEF Working, Pulling, Judging, At
<1>4. quiet' => Quiet'
  <2>1. SUFFICES ASSUME quiet PROVE Quiet'
    BY <1>1
  <2>2. Alone' /\ InHands'
    BY <1>1, <2>1 DEF SettleInv, Quiet, Alone, Busy, InHands, Due, At
  <2> QED BY <2>1, <2>2 DEF Quiet
<1> QED BY <1>1, <1>2, <1>3, <1>4, RunSteps

LEMMA JudgesLeavesIt ==
  ASSUME SyncInv, TypeOK', SettleInv, Judges
  PROVE  SettleInv'
<1>0. /\ TypeOK /\ run \in Run /\ UNCHANGED Local /\ At("judge") /\ run.at = "judge" /\ ~At("idle")
      /\ run.then \in {"conflict", "discard", "pulling"} /\ run.rec # None /\ run.rec.id \in Ids
  BY SyncTypes, HandTypes DEF SyncInv, At, Judges, RunOK, HasRec, Judging
<1>1. UNCHANGED <<now, row, doc, outbox, book, task, quiet>> /\ DocsMove
  BY <1>0 DEF Local, DocsMove
<1>2. CASE run.then # "pulling"
  <2>1. Cur \in Op
    <3>1. run.todo # <<>>
      BY <1>0, <1>2 DEF SyncInv, RunOK, HasOp, Judging
    <3> QED BY <1>0, <3>1, Todo
  <2>2. CASE Goto("upsert")
    <3>1. run'.at = "upsert" /\ UNCHANGED <<run.todo, run.rec, run.docs, run.then>>
      BY <1>0, <2>2, Goes DEF Places
    <3> QED BY <1>0, <1>1, <1>2, <3>1, RunStays
  <2>3. CASE Goto(FirstRequest(Cur))
    BY <1>0, <1>1, <2>1, <2>3, RequestOf, GotoLeavesIt
  <2>4. CASE Goto("discard")
    BY <1>0, <1>1, <2>4, GotoLeavesIt
  <2> QED BY <1>0, <1>2, <2>2, <2>3, <2>4 DEF Judges
<1>3. CASE run.then = "pulling"
  <2>1. Pulling /\ Judging /\ run.todo = <<>>
    BY <1>0, <1>3 DEF Pulling, Judging, SettleInv, Working
  <2>2. CASE Takes(row[run.rec.id], run.rec) /\ Goto("upsert")
    <3>1. run'.at = "upsert" /\ UNCHANGED <<run.todo, run.rec, run.docs, run.then>>
      BY <1>0, <2>2, Goes DEF Places
    <3>2. quiet => Meeting'
      BY <1>1, <2>1, <3>1 DEF SettleInv, Quiet, Meeting, Judging, DocRecord, Met, LiveRow, LiveDoc, HeldBack
    <3> QED BY <1>0, <1>3, <2>1, <3>1, <3>2, PullMoves
  <2>3. CASE ~Takes(row[run.rec.id], run.rec) /\ Goto("pulling")
    <3>1. run'.at = "pulling" /\ UNCHANGED <<run.todo, run.rec, run.docs, run.then>>
      BY <1>0, <2>3, Goes DEF Places
    <3>2. ASSUME quiet PROVE Meeting'
      <4>1. Met(run.rec.id)
        BY <1>0, <1>3, <2>3, <3>2, JudgedIsMet
      <4>2. Meeting
        BY <3>2 DEF SettleInv, Quiet
      <4> QED BY <1>1, <2>1, <3>1, <4>1, <4>2 DEF Meeting, Judging, DocRecord, Met, LiveRow, LiveDoc, HeldBack
    <3> QED BY <1>0, <2>1, <3>1, <3>2, PullMoves
  <2> QED BY <1>0, <1>3, <2>2, <2>3 DEF Judges
<1> QED BY <1>2, <1>3

LEMMA PullsLeaveIt ==
  ASSUME SyncInv, TypeOK', SettleInv, Pull
  PROVE  SettleInv'
<1>0. /\ TypeOK /\ run \in Run /\ UNCHANGED Local /\ run.at \in {"next", "pulling"} /\ ~At("idle")
  BY SyncTypes DEF SyncInv, At, Pull, Pulls, PullsRecord, RunEnds
<1>1. UNCHANGED <<now, row, doc, outbox, book, task, quiet>> /\ DocsMove
  BY <1>0 DEF Local, DocsMove
<1>2. CASE Pulls
  <2>1. run.todo = <<>> /\ run' = [IdleRun EXCEPT !.at = "pulling", !.docs = AllDocs]
    BY <1>2 DEF Pulls
  <2>2. run'.at = "pulling" /\ run'.todo = <<>> /\ run'.rec = None /\ run'.docs = AllDocs
    BY <2>1 DEF IdleRun
  <2>3. \A i \in Ids : doc[i] # None => DocRecord(i).id = i /\ Behind(DocRecord(i), doc[i])
    BY <1>0, DocIsBehind
  <2>4. \A r \in AllDocs : Behind(r, doc[r.id]) /\ doc[r.id] # None /\ r = DocRecord(r.id)
    BY <2>3 DEF AllDocs
  <2>5. \A i \in Ids : doc[i] # None => DocRecord(i) \in AllDocs
    BY DEF AllDocs
  <2>6. Meeting'
    BY <1>1, <2>2, <2>4, <2>5 DEF Meeting, Judging, DocRecord
  <2> QED BY <1>0, <2>1, <2>2, <2>4, <2>6, PullMoves
<1>3. CASE PullsRecord
  <2>1. PICK rec \in run.docs :
          run' = [run EXCEPT !.at = "judge", !.rec = rec, !.then = "pulling", !.docs = @ \ {rec}]
    BY <1>3 DEF PullsRecord
  <2>2. /\ run'.at = "judge" /\ run'.rec = rec /\ run'.then = "pulling" /\ run'.docs = run.docs \ {rec}
        /\ run'.todo = run.todo /\ At("pulling") /\ Pulling /\ ~Judging /\ run.at = "pulling"
    BY <1>0, <1>3, <2>1 DEF Run, PullsRecord, Pulling, Judging, At
  <2>3. run.todo = <<>> /\ Behind(rec, doc[rec.id])
    BY <2>2 DEF SettleInv, Working, InStep
  <2>4. ASSUME quiet PROVE Meeting'
    <3>1. /\ \A r \in run.docs : doc[r.id] # None /\ r = DocRecord(r.id)
          /\ \A i \in Ids : doc[i] # None => DocRecord(i) \in run.docs \/ Met(i)
      BY <2>2, <2>4 DEF SettleInv, Quiet, Meeting
    <3>2. \A i \in Ids : DocRecord(i).id = i /\ DocRecord(i)' = DocRecord(i) /\ (Met(i)' <=> Met(i))
      BY <1>1 DEF DocRecord, Met, LiveRow, LiveDoc, HeldBack
    <3>3. rec.id \in Ids
      BY <1>0, HandTypes
    <3>4. /\ \A r \in run'.docs : doc'[r.id] # None /\ r = DocRecord(r.id)'
          /\ doc'[rec.id] # None /\ rec = DocRecord(rec.id)'
      BY <1>1, <2>2, <3>1 DEF DocRecord
    <3>5. \A i \in Ids : doc'[i] # None =>
            DocRecord(i)' \in run'.docs \/ rec.id = i \/ Met(i)'
      BY <1>1, <2>2, <3>1, <3>2
    <3>6. Judging'
      BY <2>2 DEF Judging
    <3>7. Meeting' <=>
            /\ \A r \in run'.docs : doc'[r.id] # None /\ r = DocRecord(r.id)'
            /\ doc'[rec.id] # None /\ rec = DocRecord(rec.id)'
            /\ \A i \in Ids : doc'[i] # None =>
                 DocRecord(i)' \in run'.docs \/ rec.id = i \/ Met(i)'
      BY <2>2, <3>6 DEF Meeting, Pulling, DocRecord
    <3> QED BY <3>4, <3>5, <3>7
  <2> QED BY <1>0, <2>2, <2>3, <2>4, PullMoves
<1>4. CASE RunEnds
  <2>1. run' = IdleRun
    BY <1>4 DEF RunEnds
  <2> QED BY <1>1, <2>1, RunStops
<1> QED BY <1>2, <1>3, <1>4 DEF Pull

-----------------------------------------------------------------------------
(* A run begins with all that is due.                                         *)
LEMMA StartsLeaveIt ==
  ASSUME SyncInv, TypeOK', SettleInv, RunStarts
  PROVE  SettleInv'
<1>1. /\ run'.at = "next" /\ run'.rec = None /\ run'.docs = {}
      /\ \A n \in 1..Len(run'.todo) :
           \E i \in Ids : outbox[i] # None /\ run'.todo[n] = outbox[i]
      /\ \A i \in Ids : outbox[i] # None /\ outbox[i].status = "PENDING" =>
           \E n \in 1..Len(run'.todo) : run'.todo[n] = outbox[i]
  BY Started DEF SyncInv
<1>2. /\ UNCHANGED <<now, row, doc, outbox, book, task>> /\ DocsMove
      /\ quiet' => book.at = "idle" /\ \A t \in Tasks : task[t].at = "idle"
  BY DEF RunStarts, DocsMove
<1>3. \A i \in Ids : outbox[i] # None => outbox[i].id = i
  BY DEF SettleInv, Named
<1>4. Kinds'
  BY <1>1, <1>2, <1>3 DEF Kinds, Queued
<1>5. ~Pulling' /\ Working'
  BY <1>1 DEF Pulling, Working, At, Judging
<1>6. quiet' => Quiet'
  <2>1. InHands'
    BY <1>1, <1>2, <1>3 DEF InHands, Due
  <2>2. quiet' => Alone'
    BY <1>2 DEF Alone, Busy
  <2> QED BY <1>5, <2>1, <2>2 DEF Quiet, Meeting
<1> QED BY <1>1, <1>2, <1>4, <1>5, <1>6, RunSteps

(* The run turns to the next operation, or lets go of all of them.            *)
LEMMA TurnsToNext ==
  ASSUME SyncInv, SettleInv, UNCHANGED <<now, doc, book, task, quiet>>,
         run.todo # <<>>, NextOp, ~At("idle"),
         outbox' \in [Ids -> Op \union {None}],
         \A i \in Ids : \/ outbox'[i] = outbox[i] \/ outbox'[i] = None
                        \/ /\ outbox[i] # None /\ outbox'[i].status # "PENDING"
                           /\ outbox'[i].key = outbox[i].key /\ outbox'[i].kind = outbox[i].kind,
         outbox'[Cur.id] # None /\ outbox'[Cur.id].status = "PENDING" => ~Queued(Cur)
  PROVE  Kinds' /\ Working' /\ (quiet' => Quiet')
<1>1. /\ run'.at = "next" /\ run'.todo = Tail(run.todo) /\ run'.rec = None /\ run'.docs = {}
      /\ Cur = run.todo[1] /\ Len(run.todo) \in Nat \ {0}
      /\ Len(Tail(run.todo)) = Len(run.todo) - 1
      /\ \A n \in 1..Len(Tail(run.todo)) : Tail(run.todo)[n] = run.todo[n + 1]
      /\ run.todo \in Seq(Op)
  BY GoesOn, Todo, SyncTypes DEF SyncInv, Run
<1>2. \A n \in 1..Len(run.todo) : run.todo[n].id \in Ids
  <2>1. \A n \in 1..Len(run.todo) : run.todo[n] \in Op
    BY <1>1
  <2> QED BY <2>1 DEF Op
<1>3. Kinds'
  <2>1. \A n \in 1..Len(run'.todo) : \E m \in 1..Len(run.todo) : run'.todo[n] = run.todo[m]
    BY <1>1
  <2> QED BY <1>2, <2>1, KindsKept DEF SettleInv
<1>4. ~Pulling' /\ Working'
  BY <1>1 DEF Pulling, Working, At, Judging
<1>5. ASSUME quiet PROVE InHands'
  <2>1. SUFFICES ASSUME NEW i \in Ids, outbox'[i] # None, outbox'[i].status = "PENDING"
                 PROVE  \E n \in 1..Len(run'.todo) :
                          run'.todo[n].id = i /\ run'.todo[n].key = outbox'[i].key
    BY DEF InHands, Due
  <2>2. outbox'[i] = outbox[i]
    BY <2>1
  <2>3. PICK n \in 1..Len(run.todo) : run.todo[n].id = i /\ run.todo[n].key = outbox[i].key
    BY <1>5, <2>1, <2>2 DEF SettleInv, Quiet, InHands, Due
  <2>4. n # 1
    BY <1>1, <2>1, <2>2, <2>3 DEF Queued
  <2>5. n - 1 \in 1..Len(run'.todo) /\ run'.todo[n - 1] = run.todo[n]
    BY <1>1, <2>4
  <2> QED BY <2>2, <2>3, <2>5
<1>6. quiet => Alone'
  BY DEF SettleInv, Quiet, Alone, Busy
<1> QED BY <1>3, <1>4, <1>5, <1>6 DEF Quiet, Meeting

(* A step of the run that may change rows and operations.                     *)
LEMMA RunWrites ==
  ASSUME SyncInv, TypeOK', SettleInv, UNCHANGED <<now, doc, book>>,
         \A i \in Ids :
           \/ row'[i] = None
           \/ row'[i].synced /\ Behind(row'[i], doc[i])
           \/ /\ row'[i] = row[i]
              /\ \/ outbox'[i] = outbox[i]
                 \/ /\ outbox[i] # None /\ outbox'[i] # None
                    /\ outbox'[i].key = outbox[i].key /\ outbox'[i].kind = outbox[i].kind
                 \/ outbox'[i] = None /\ (row[i] # None => row[i].synced \/ row[i].deleted \/ doc[i] # None),
         \A i \in Ids : outbox'[i] # None => outbox[i] # None /\ outbox'[i].id = outbox[i].id,
         run'.rec # None => run'.rec = run.rec, run'.docs \subseteq run.docs,
         Kinds', Working', quiet' => Quiet'
  PROVE  SettleInv'
<1>1. InStep'
  <2>1. DocsMove /\ TypeOK
    BY DEF DocsMove, SyncInv
  <2>2. \A i \in Ids : row'[i] # None /\ row'[i].synced => row'[i] = row[i] \/ Behind(row'[i], doc'[i])
    OBVIOUS
  <2> QED BY <2>1, <2>2, InStepKept DEF SettleInv
<1>2. Unsynced'
  BY DEF SettleInv, Unsynced
<1>3. Named'
  BY DEF SettleInv, Named
<1> QED BY <1>1, <1>2, <1>3 DEF SettleInv

-----------------------------------------------------------------------------
(* After the answer: what is taken out of the outbox, and what the row becomes. *)
LEMMA SettlesLeaveIt ==
  ASSUME SyncInv, TypeOK', SettleInv, Settles \/ Drops
  PROVE  SettleInv'
<1>0. /\ run.at \in {"settle", "drop"} /\ ~At("idle") /\ RemovesOp
      /\ UNCHANGED <<now, row, doc, book, task, quiet>>
      /\ run \in Run /\ run.todo # <<>> /\ Cur \in Op /\ Cur.id \in Ids
      /\ Len(run.todo) \in Nat \ {0} /\ Cur = run.todo[1]
  <2>1. run.at \in {"settle", "drop"}
    BY DEF Settles, Drops, At
  <2>2. run \in Run /\ run.todo # <<>>
    BY <2>1, Held, SyncTypes DEF SyncInv
  <2> QED BY <2>1, <2>2, Todo DEF Settles, Drops, At
<1> DEFINE c == Cur.id
<1>1. /\ outbox' \in [Ids -> Op \union {None}] /\ \A i \in Ids \ {c} : outbox'[i] = outbox[i]
      /\ outbox'[c] = IF Queued(Cur) THEN None ELSE outbox[c]
  BY <1>0, SyncTypes DEF RemovesOp, SyncInv
<1>2. Queued(Cur) /\ row[c] # None => row[c].synced \/ row[c].deleted \/ doc[c] # None
  <2>1. SUFFICES ASSUME Queued(Cur), row[c] # None, ~row[c].synced
                 PROVE  row[c].deleted \/ doc[c] # None
    OBVIOUS
  <2>2. CASE At("drop")
    BY <1>0, <2>1, <2>2 DEF SettleInv, Working
  <2>3. CASE At("settle")
    <3>1. outbox[c] # None /\ outbox[c].kind = Cur.kind
      BY <1>0, <2>1 DEF SettleInv, Kinds, Queued
    <3>2. Cur.kind = "DELETE" => row[c].deleted
      BY <1>0, <2>1, <3>1 DEF SettleInv, Unsynced
    <3> QED BY <2>3, <3>2 DEF SettleInv, Working
  <2> QED BY <1>0, <2>2, <2>3 DEF At
<1>3. /\ \A i \in Ids :
           \/ outbox'[i] = outbox[i]
           \/ outbox'[i] = None /\ (row[i] # None => row[i].synced \/ row[i].deleted \/ doc[i] # None)
      /\ outbox'[c] # None => ~Queued(Cur)
  BY <1>0, <1>1, <1>2
<1>4. CASE Drops
  <2>1. NextOp
    BY <1>4 DEF Drops
  <2>2. Kinds' /\ Working' /\ (quiet' => Quiet')
    BY <1>0, <1>1, <1>3, <2>1, TurnsToNext
  <2>3. run'.rec = None /\ run'.docs = {}
    BY <1>0, <2>1, GoesOn
  <2> QED BY <1>0, <1>3, <2>2, <2>3, RunWrites
<1>5. CASE Settles
  <2>1. run'.at = "adopt" /\ UNCHANGED <<run.todo, run.rec, run.docs>> /\ At("settle")
    BY <1>0, <1>5, Goes DEF Settles, Places
  <2>2. Kinds'
    <3>1. \A n \in 1..Len(run.todo) : run.todo[n].id \in Ids
      <4>1. \A n \in 1..Len(run.todo) : run.todo[n] \in Op
        BY <1>0 DEF Run
      <4> QED BY <4>1 DEF Op
    <3> QED BY <1>3, <2>1, <3>1, KindsKept DEF SettleInv
  <2>3. ~Pulling' /\ Working'
    <3>1. Cur' = Cur /\ ~Queued(Cur)'
      BY <1>1, <2>1 DEF Cur, Queued
    <3> QED BY <2>1, <3>1 DEF SettleInv, Pulling, Working, At, Judging
  <2>4. quiet' => Quiet'
    BY <1>0, <1>3, <2>1, <2>3 DEF SettleInv, Quiet, Alone, Busy, InHands, Due, Meeting, At
  <2> QED BY <1>0, <1>3, <2>1, <2>2, <2>3, <2>4, RunWrites
<1> QED BY <1>4, <1>5

LEMMA ParksLeavesIt ==
  ASSUME SyncInv, TypeOK', SettleInv, Parks
  PROVE  SettleInv'
<1> DEFINE parked == [outbox[Cur.id] EXCEPT
                        !.retries = Cur.retries + 1,
                        !.status = IF Cur.retries + 1 >= MaxRetries THEN "DEAD" ELSE "FAILED"]
           c == Cur.id
<1>0. /\ run.at = "fail" /\ ~At("idle") /\ NextOp
      /\ UNCHANGED <<now, row, doc, book, task, quiet>>
      /\ run \in Run /\ run.todo # <<>> /\ Cur \in Op /\ c \in Ids
      /\ outbox' = [outbox EXCEPT ![c] = IF ~Queued(Cur) THEN outbox[c] ELSE parked]
      /\ outbox \in [Ids -> Op \union {None}] /\ outbox' \in [Ids -> Op \union {None}]
  <2>1. /\ run.at = "fail" /\ ~At("idle") /\ NextOp
        /\ UNCHANGED <<now, row, doc, book, task, quiet>>
        /\ outbox' = [outbox EXCEPT ![c] = IF ~Queued(Cur) THEN outbox[c] ELSE parked]
    BY DEF Parks, At
  <2>2. outbox \in [Ids -> Op \union {None}] /\ run \in Run
    BY SyncTypes DEF SyncInv
  <2>3. outbox' \in [Ids -> Op \union {None}]
    BY DEF TypeOK
  <2>4. run.todo # <<>> /\ Cur \in Op /\ c \in Ids
    BY <2>1, Held DEF SyncInv
  <2> HIDE DEF parked, c
  <2> QED BY <2>1, <2>2, <2>3, <2>4
<1>1. Queued(Cur) => /\ parked.key = outbox[c].key /\ parked.kind = outbox[c].kind
                     /\ parked.id = outbox[c].id /\ parked.status # "PENDING" /\ outbox[c] # None
                     /\ parked \in Op
  <2>1. Cur.retries + 1 \in Nat
    BY <1>0 DEF Op
  <2> QED BY <1>0, <2>1 DEF Queued, Op
<1> HIDE DEF parked
<1>2. Queued(Cur) => parked # None
  BY <1>1, SyncConstants
<1>3. \A i \in Ids :
        \/ outbox'[i] = outbox[i]
        \/ /\ outbox[i] # None /\ outbox'[i] # None /\ outbox'[i].status # "PENDING"
           /\ outbox'[i].key = outbox[i].key /\ outbox'[i].kind = outbox[i].kind
           /\ outbox'[i].id = outbox[i].id
  BY <1>0, <1>1, <1>2
<1>4. outbox'[c] # None /\ outbox'[c].status = "PENDING" => ~Queued(Cur)
  BY <1>0, <1>1
<1> HIDE DEF c
<1>5. Kinds' /\ Working' /\ (quiet' => Quiet')
  BY <1>0, <1>3, <1>4, TurnsToNext DEF c
<1>6. run'.rec = None /\ run'.docs = {}
  BY <1>0, GoesOn
<1> QED BY <1>0, <1>3, <1>5, <1>6, RunWrites

LEMMA AdoptsLeavesIt ==
  ASSUME SyncInv, TypeOK', SettleInv, Adopts
  PROVE  SettleInv'
<1>0. /\ run.at = "adopt" /\ ~At("idle") /\ UNCHANGED Local /\ UNCHANGED <<now, row, doc, outbox, book, task, quiet>>
      /\ run \in Run /\ run.todo # <<>> /\ Cur.id \in Ids /\ ~Queued(Cur)
      /\ outbox \in [Ids -> Op \union {None}] /\ DocsMove
  BY Held, SyncTypes DEF SyncInv, Adopts, At, Local, SettleInv, Working, DocsMove
<1>1. CASE NextOp
  <2>1. Kinds' /\ Working' /\ (quiet' => Quiet')
    BY <1>0, <1>1, TurnsToNext
  <2>2. run'.rec = None /\ run'.docs = {}
    BY <1>0, <1>1, GoesOn
  <2> QED BY <1>0, <2>1, <2>2, RunSteps
<1>2. CASE run' = IdleRun
  BY <1>0, <1>2, RunStops
<1>3. CASE Goto("store")
  <2>1. run'.at = "store" /\ UNCHANGED <<run.todo, run.rec, run.docs>>
    BY <1>0, <1>3, Goes DEF Places
  <2>2. Cur' = Cur
    BY <2>1 DEF Cur
  <2>3. Kinds'
    BY <1>0, <2>1, KindsKept DEF SettleInv
  <2>4. ~Pulling' /\ Working'
    BY <1>0, <2>1, <2>2 DEF SettleInv, Pulling, Working, At, Judging, Queued
  <2>5. quiet' => Quiet'
    BY <1>0, <2>1, <2>4 DEF SettleInv, Quiet, Alone, Busy, InHands, Due, Meeting, At
  <2> QED BY <1>0, <2>1, <2>3, <2>4, <2>5, RunSteps
<1> QED BY <1>1, <1>2, <1>3 DEF Adopts

-----------------------------------------------------------------------------
(* A record from the server becomes a row; a row is discarded.                *)
LEMMA RowBecomes ==
  ASSUME SyncInv, run.rec # None, NEW i \in Ids, i = run.rec.id,
         row' = [row EXCEPT ![i] = AsRow(run.rec)], SettleInv
  PROVE  /\ row'[i] = AsRow(run.rec) /\ row'[i] # None /\ row'[i].synced
         /\ Behind(row'[i], doc[i]) /\ \A j \in Ids \ {i} : row'[j] = row[j]
<1>1. run.rec \in Record /\ row \in [Ids -> Row \union {None}]
  BY HandTypes, SyncTypes DEF SyncInv
<1>2. Behind(run.rec, doc[i])
  BY DEF SettleInv, InStep
<1> QED BY <1>1, <1>2, RowIsBehind

(* A row the run writes or discards, and where it stays with the operation.   *)
LEMMA RowMoves ==
  ASSUME SyncInv, TypeOK', SettleInv, ~At("idle"), NEW i \in Ids,
         UNCHANGED <<now, doc, outbox, book, task, quiet>>,
         UNCHANGED <<run.todo, run.rec, run.docs>>,
         \A j \in Ids \ {i} : row'[j] = row[j],
         row'[i] # None => row'[i].synced /\ Behind(row'[i], doc[i]),
         \/ run'.at = "discard"
         \/ run'.at = "drop" /\ i = Cur.id
  PROVE  SettleInv'
<1>1. Kinds'
  BY KindsKept DEF SettleInv
<1>2. Cur' = Cur
  BY DEF Cur
<1>3. ~Pulling' /\ Working'
  BY <1>2 DEF Pulling, Working, At, Judging
<1>4. quiet' => Quiet'
  BY <1>3 DEF SettleInv, Quiet, Alone, Busy, InHands, Due, Meeting, At
<1>5. \A j \in Ids :
        \/ row'[j] = None
        \/ row'[j].synced /\ Behind(row'[j], doc[j])
        \/ row'[j] = row[j] /\ outbox'[j] = outbox[j]
  OBVIOUS
<1> QED BY <1>1, <1>3, <1>4, <1>5, RunWrites

LEMMA WritesBackLeavesIt ==
  ASSUME SyncInv, TypeOK', SettleInv, WritesBack \/ Discards
  PROVE  SettleInv'
<1>0. /\ run.at \in {"writeBack", "discard"} /\ ~At("idle")
      /\ UNCHANGED <<now, doc, outbox, book, task, quiet>>
      /\ run \in Run /\ Cur.id \in Ids /\ row \in [Ids -> Row \union {None}]
  <2>1. run.at \in {"writeBack", "discard"}
    BY DEF WritesBack, Discards, At
  <2> QED BY <2>1, Held, SyncTypes DEF SyncInv, WritesBack, Discards, At
<1>1. CASE WritesBack
  <2>1. run.rec # None
    BY <1>1 DEF WritesBack, At, SyncInv, RunOK, HasRec
  <2>2. PICK i \in Ids : i = run.rec.id
    BY <2>1, HandTypes DEF SyncInv
  <2>3. row' = [row EXCEPT ![i] = AsRow(run.rec)]
    BY <1>1, <2>2 DEF WritesBack
  <2>4. row'[i].synced /\ Behind(row'[i], doc[i]) /\ \A j \in Ids \ {i} : row'[j] = row[j]
    BY <2>1, <2>2, <2>3, RowBecomes
  <2>5. Goto("discard") \/ (Goto("drop") /\ i = Cur.id)
    BY <1>1, <2>2 DEF WritesBack
  <2>6. /\ run'.at = "discard" \/ (run'.at = "drop" /\ i = Cur.id)
        /\ UNCHANGED <<run.todo, run.rec, run.docs>>
    BY <1>0, <2>5, Goes DEF Places
  <2> QED BY <1>0, <2>4, <2>6, RowMoves
<1>2. CASE Discards
  <2>1. PICK i \in Ids : i = Cur.id
    BY <1>0
  <2>2. row' = [row EXCEPT ![i] = None] /\ Goto("drop")
    BY <1>2, <2>1 DEF Discards
  <2>3. row'[i] = None /\ \A j \in Ids \ {i} : row'[j] = row[j]
    BY <1>0, <2>2
  <2>4. run'.at = "drop" /\ UNCHANGED <<run.todo, run.rec, run.docs>>
    BY <1>0, <2>2, Goes DEF Places
  <2> QED BY <1>0, <2>1, <2>3, <2>4, RowMoves
<1> QED BY <1>1, <1>2

LEMMA StoresLeaveIt ==
  ASSUME SyncInv, TypeOK', SettleInv, Stores
  PROVE  SettleInv'
<1>0. /\ run.at = "store" /\ ~At("idle") /\ NextOp
      /\ UNCHANGED <<now, doc, outbox, book, task, quiet>>
      /\ run \in Run /\ run.todo # <<>> /\ outbox \in [Ids -> Op \union {None}]
      /\ run.rec # None /\ ~Queued(Cur) /\ run.rec.id = Cur.id /\ Cur.id \in Ids
  BY Held, SyncTypes DEF SyncInv, Stores, At, RunOK, HasRec, SettleInv, Working
<1>1. PICK i \in Ids : i = run.rec.id
  BY <1>0
<1>2. row' = [row EXCEPT ![i] = AsRow(run.rec)]
  BY <1>0, <1>1 DEF Stores
<1>3. row'[i].synced /\ Behind(row'[i], doc[i]) /\ \A j \in Ids \ {i} : row'[j] = row[j]
  BY <1>0, <1>1, <1>2, RowBecomes
<1>4. Kinds' /\ Working' /\ (quiet' => Quiet')
  BY <1>0, TurnsToNext
<1>5. run'.rec = None /\ run'.docs = {}
  BY <1>0, GoesOn
<1>6. \A j \in Ids :
        \/ row'[j].synced /\ Behind(row'[j], doc[j])
        \/ row'[j] = row[j] /\ outbox'[j] = outbox[j]
  BY <1>0, <1>3
<1> QED BY <1>0, <1>4, <1>5, <1>6, RunWrites

LEMMA UpsertsLeaveIt ==
  ASSUME SyncInv, TypeOK', SettleInv, Upserts
  PROVE  SettleInv'
<1>0. /\ run.at = "upsert" /\ ~At("idle") /\ Judging
      /\ UNCHANGED <<now, doc, outbox, book, task, quiet>>
      /\ run \in Run /\ row \in [Ids -> Row \union {None}]
      /\ run.rec # None /\ run.rec.id \in Ids /\ run.then \in {"conflict", "discard", "pulling"}
      /\ Goto(IF run.then = "conflict" THEN "drop" ELSE run.then)
  BY HandTypes, SyncTypes DEF SyncInv, Upserts, At, RunOK, HasRec, Judging
<1>1. PICK i \in Ids : i = run.rec.id
  BY <1>0
<1>2. row' = [row EXCEPT ![i] = AsRow(run.rec)]
  BY <1>1 DEF Upserts
<1>3. /\ row'[i] = AsRow(run.rec) /\ row'[i] # None /\ row'[i].synced /\ Behind(row'[i], doc[i])
      /\ \A j \in Ids \ {i} : row'[j] = row[j]
  BY <1>0, <1>1, <1>2, RowBecomes
<1>4. CASE run.then # "pulling"
  <2>1. run.then = "conflict" => i = Cur.id
    BY <1>0, <1>1 DEF SyncInv, RunOK, HasRec
  <2>2. /\ run'.at = "discard" \/ (run'.at = "drop" /\ i = Cur.id)
        /\ UNCHANGED <<run.todo, run.rec, run.docs>>
    BY <1>0, <1>4, <2>1, Goes DEF Places
  <2> QED BY <1>0, <1>3, <2>2, RowMoves
<1>5. CASE run.then = "pulling"
  <2>1. /\ run'.at = "pulling" /\ UNCHANGED <<run.todo, run.rec, run.docs>>
        /\ Pulling /\ run.todo = <<>>
    BY <1>0, <1>5, Goes DEF Places, Pulling, SettleInv, Working
  <2>2. Kinds' /\ Working'
    <3>1. Len(run'.todo) = 0
      BY <2>1
    <3> QED BY <2>1, <3>1 DEF Kinds, Working, Pulling, Judging, At
  <2>3. ASSUME quiet PROVE Meeting'
    <3>1. /\ \A r \in run.docs : doc[r.id] # None /\ r = DocRecord(r.id)
          /\ doc[i] # None /\ run.rec = DocRecord(i)
          /\ \A j \in Ids : doc[j] # None => DocRecord(j) \in run.docs \/ j = i \/ Met(j)
      BY <1>0, <1>1, <2>1, <2>3 DEF SettleInv, Quiet, Meeting
    <3>2. \A j \in Ids : DocRecord(j)' = DocRecord(j)
      BY <1>0 DEF DocRecord
    <3>3. \A j \in Ids \ {i} : Met(j) => Met(j)'
      BY <1>0, <1>3 DEF Met, LiveRow, LiveDoc, HeldBack
    <3>4. Met(i)'
      <4>1. row'[i].edit = doc[i].edit /\ row'[i].deleted = doc[i].deleted
        BY <1>3, <3>1 DEF AsRow, DocRecord
      <4> QED BY <1>0, <1>3, <3>1, <4>1 DEF Met, LiveRow, LiveDoc
    <3>5. /\ \A r \in run'.docs : doc'[r.id] # None /\ r = DocRecord(r.id)'
          /\ ~Judging'
          /\ \A j \in Ids : doc'[j] # None => DocRecord(j)' \in run'.docs \/ Met(j)'
      BY <1>0, <2>1, <3>1, <3>2, <3>3, <3>4 DEF Judging, DocRecord
    <3> QED BY <3>5 DEF Meeting
  <2>4. quiet' => Quiet'
    BY <1>0, <2>1, <2>3 DEF SettleInv, Quiet, Alone, Busy, InHands, Due, At
  <2>5. \A j \in Ids :
          \/ row'[j].synced /\ Behind(row'[j], doc[j])
          \/ row'[j] = row[j] /\ outbox'[j] = outbox[j]
    BY <1>0, <1>3
  <2>6. \A j \in Ids : outbox'[j] = outbox[j]
    BY <1>0
  <2> QED BY <1>0, <2>1, <2>2, <2>4, <2>5, <2>6, RunWrites
<1> QED BY <1>4, <1>5

-----------------------------------------------------------------------------
(* A store call's other steps, and pullBook's: a quiet run has none beside it. *)
LEMMA CommitsLeaveIt ==
  ASSUME SyncInv, TypeOK', SettleInv, NEW t \in Tasks, TaskCommits(t)
  PROVE  SettleInv'
<1> DEFINE op == task[t].op
           i == op.id
           stamp == MonotonicStamp(op.updated, task[t].prev.updated)
           x == [edit |-> op.key, updated |-> stamp, deleted |-> op.kind = "DELETE",
                 synced |-> FALSE,
                 base |-> IF task[t].prev.base # None THEN task[t].prev.base ELSE task[t].base]
           y == [op EXCEPT !.updated = stamp]
<1>1. /\ task[t].at = "stamped" /\ row' = [row EXCEPT ![i] = x] /\ outbox' = [outbox EXCEPT ![i] = y]
      /\ UNCHANGED <<now, doc, run, book, quiet>>
  BY DEF TaskCommits
<1>2. /\ row \in [Ids -> Row \union {None}] /\ outbox \in [Ids -> Op \union {None}]
      /\ Busy(t) /\ op \in Op /\ i \in Ids /\ op.key \notin own
  BY <1>1, SyncTypes DEF SyncInv, TasksOK, Busy, Task, Op
<1>3. /\ y.key = op.key /\ y.kind = op.kind /\ y.id = i
      /\ x.edit = op.key /\ ~x.synced /\ (x.deleted <=> op.kind = "DELETE")
  BY <1>2 DEF Op
<1> HIDE DEF x, y
<1>4. /\ row'[i] = x /\ \A j \in Ids \ {i} : row'[j] = row[j]
      /\ outbox'[i] = y /\ \A j \in Ids \ {i} : outbox'[j] = outbox[j]
  BY <1>1, <1>2
<1>5. outbox'[i] # None
  <2>1. outbox'[i].key = op.key /\ stamp \in Stamps
    <3>1. task[t].prev.updated \in Stamps \union {None} /\ op.updated \in Stamps
      BY <1>2, SyncTypes DEF SyncInv, Task, Op
    <3> QED BY <1>3, <1>4, <3>1 DEF MonotonicStamp, Stamps
  <2>2. y \in Op
    BY <1>2, <2>1 DEF y, Op
  <2> QED BY <1>4, <2>2, SyncConstants
<1> HIDE DEF op, i
<1>6. InStep'
  <2>1. DocsMove /\ TypeOK
    BY <1>1 DEF DocsMove, SyncInv
  <2>2. \A j \in Ids : row'[j] # None /\ row'[j].synced => row'[j] = row[j]
    BY <1>3, <1>4
  <2> QED BY <1>1, <2>1, <2>2, InStepKept DEF SettleInv
<1>7. Unsynced' /\ Named'
  BY <1>1, <1>3, <1>4, <1>5 DEF SettleInv, Unsynced, Named
<1>8. \A op2 \in Op : op2.key \in own /\ op2.id = i => ~(outbox'[i] # None /\ outbox'[i].key = op2.key)
  BY <1>2, <1>3, <1>4
<1>9. Kinds'
  <2>1. \A m \in 1..Len(run.todo) : run.todo[m].id \in Ids /\ run.todo[m].key \in own
    <3>1. run.todo \in Seq(Op)
      BY SyncTypes DEF SyncInv, Run
    <3>2. \A m \in 1..Len(run.todo) : run.todo[m] \in Op
      BY <3>1
    <3> QED BY <3>2 DEF SyncInv, RunOK, Op
  <2>2. \A m \in 1..Len(run.todo) :
          outbox'[run.todo[m].id] = outbox[run.todo[m].id] \/ outbox'[run.todo[m].id].key # run.todo[m].key
    BY <1>2, <1>3, <1>4, <2>1
  <2> QED BY <1>1, <2>2, KindsKept DEF SettleInv
<1>10. Working'
  <2>1. run.at \in {"drop", "adopt", "store"} => Cur \in Op /\ Cur.id \in Ids /\ Cur.key \in own
    BY Held DEF SyncInv
  <2>2. run.at = "drop" /\ Queued(Cur)' => row'[Cur.id] = row[Cur.id] /\ Queued(Cur)
    BY <1>1, <1>4, <1>8, <2>1 DEF Queued, Cur
  <2>3. run.at \in {"adopt", "store"} => ~Queued(Cur)'
    BY <1>1, <1>4, <1>8, <2>1 DEF Queued, Cur, SettleInv, Working
  <2> QED BY <1>1, <2>2, <2>3 DEF SettleInv, Working, At, Cur, Pulling, Judging
<1>11. ~quiet'
  BY <1>1, <1>2 DEF SettleInv, Quiet, Alone
<1> QED BY <1>6, <1>7, <1>9, <1>10, <1>11 DEF SettleInv

LEMMA BookUpsertsLeavesIt ==
  ASSUME SyncInv, TypeOK', SettleInv, BookUpserts
  PROVE  SettleInv'
<1>1. /\ book.at = "upsert" /\ UNCHANGED <<now, doc, outbox, run, task, quiet>>
      /\ book' = [book EXCEPT !.at = "pulling", !.rec = None]
      /\ row' = [row EXCEPT ![book.rec.id] = AsRow(book.rec)]
  BY DEF BookUpserts
<1>2. /\ book \in Book /\ row \in [Ids -> Row \union {None}] /\ TypeOK
      /\ book.rec # None /\ book.rec \in Record /\ book.rec.id \in Ids
  BY <1>1, HandTypes, SyncTypes DEF SyncInv, BookOK
<1>3. book'.rec = None /\ book'.docs = book.docs
  BY <1>1, <1>2 DEF Book
<1>4. PICK i \in Ids : i = book.rec.id
  BY <1>2
<1>5. /\ row'[i].synced /\ Behind(row'[i], doc[i]) /\ \A j \in Ids \ {i} : row'[j] = row[j]
  <2>1. Behind(book.rec, doc[i])
    BY <1>2, <1>4 DEF SettleInv, InStep
  <2>2. row'[i] = AsRow(book.rec)
    BY <1>1, <1>2, <1>4
  <2> QED BY <1>1, <1>2, <1>4, <2>1, <2>2, RowIsBehind
<1>6. InStep'
  <2>1. DocsMove
    BY <1>1 DEF DocsMove
  <2>2. \A j \in Ids : row'[j] # None /\ row'[j].synced => row'[j] = row[j] \/ Behind(row'[j], doc'[j])
    BY <1>1, <1>5
  <2> QED BY <1>1, <1>2, <1>3, <2>1, <2>2, InStepKept DEF SettleInv
<1>7. Unsynced'
  BY <1>1, <1>5 DEF SettleInv, Unsynced
<1>8. Named' /\ Kinds'
  BY <1>1 DEF SettleInv, Named, Kinds, Queued
<1>9. Working'
  <2>1. At("drop") => Cur.id \in Ids
    BY Held DEF SyncInv, At
  <2> QED BY <1>1, <1>5, <2>1 DEF SettleInv, Working, At, Cur, Queued, Pulling, Judging
<1>10. ~quiet'
  BY <1>1 DEF SettleInv, Quiet, Alone
<1> QED BY <1>6, <1>7, <1>8, <1>9, <1>10 DEF SettleInv

LEMMA TasksLeaveIt ==
  ASSUME SyncInv, TypeOK', SettleInv,
         (\E t \in Tasks : TaskStamps(t)) \/ BookJudges \/ BookEnds
  PROVE  SettleInv'
<1>1. UNCHANGED <<now, row, doc, outbox, run, quiet>> /\ DocsMove
  BY DEF TaskStamps, BookJudges, BookEnds, DocsMove
<1>2. ~quiet'
  BY <1>1 DEF SettleInv, Quiet, Alone, Busy, TaskStamps, BookJudges, BookEnds
<1>3. /\ book'.rec # None => book'.rec = book.rec \/ book'.rec \in book.docs
      /\ \A r \in book'.docs : r \in book.docs
  <2>1. CASE \E t \in Tasks : TaskStamps(t)
    BY <2>1 DEF TaskStamps
  <2>2. CASE BookJudges
    <3>1. PICK rec \in book.docs :
            /\ book'.rec = IF Takes(row[rec.id], rec) THEN rec ELSE None
            /\ book'.docs = book.docs \ {rec}
      BY <2>2 DEF BookJudges
    <3> QED BY <3>1
  <2>3. CASE BookEnds
    <3>1. book' = IdleBook
      BY <2>3 DEF BookEnds
    <3> QED BY <3>1 DEF IdleBook
  <2> QED BY <2>1, <2>2, <2>3
<1> QED BY <1>1, <1>2, <1>3, OthersStep

LEMMA NothingLeavesIt ==
  ASSUME SettleInv, UNCHANGED vars
  PROVE  SettleInv'
<1>1. UNCHANGED <<now, row, doc, outbox, run, book, task, quiet>>
  BY DEF vars
<1>2. InStep'
  BY <1>1 DEF SettleInv, InStep, Behind
<1>3. Unsynced' /\ Named' /\ Kinds'
  BY <1>1 DEF SettleInv, Unsynced, Named, Kinds, Queued
<1>4. Working'
  BY <1>1 DEF SettleInv, Working, Queued, Pulling, Judging, At, Cur
<1>5. quiet' => Quiet'
  BY <1>1 DEF SettleInv, Quiet, Alone, Busy, InHands, Due, Meeting, Met, HeldBack, LiveRow, LiveDoc,
              DocRecord, Pulling, Judging, At
<1> QED BY <1>2, <1>3, <1>4, <1>5 DEF SettleInv

-----------------------------------------------------------------------------
LEMMA SettleStarts == Init => SettleInv
<1>1. SUFFICES ASSUME Init PROVE SettleInv
  OBVIOUS
<1>2. /\ now = 0 /\ row = [i \in Ids |-> None] /\ doc = [i \in Ids |-> None]
      /\ outbox = [i \in Ids |-> None] /\ run = IdleRun /\ book = IdleBook /\ ~quiet
  BY <1>1 DEF Init
<1>3. /\ run.at = "idle" /\ run.todo = <<>> /\ run.rec = None /\ run.docs = {}
      /\ book.rec = None /\ book.docs = {} /\ Len(run.todo) = 0
  BY <1>2 DEF IdleRun, IdleBook
<1> QED BY <1>2, <1>3 DEF SettleInv, InStep, Unsynced, Named, Kinds, Working, At, Pulling, Judging

LEMMA SettleSteps == SyncInv /\ SettleInv /\ [Next]_vars => SettleInv'
<1>1. SUFFICES ASSUME SyncInv, SettleInv, [Next]_vars PROVE SettleInv'
  OBVIOUS
<1>2. TypeOK'
  BY <1>1, SyncSteps DEF SyncInv
<1>3. CASE LocalWrite
  BY <1>1, <1>2, <1>3, OthersLeaveIt, TasksLeaveIt, CommitsLeaveIt DEF LocalWrite
<1>4. CASE \E i \in Ids, gone \in BOOLEAN : OtherDeviceWrites(i, gone)
  BY <1>1, <1>2, <1>4, OthersLeaveIt
<1>5. CASE RunStarts \/ Examines \/ Probes \/ Judges \/ Upserts
  BY <1>1, <1>2, <1>5, StartsLeaveIt, ExaminesLeavesIt, JudgesLeavesIt, UpsertsLeaveIt
<1>6. CASE Puts \/ Posts \/ PutsOwn \/ Deletes \/ NetworkFails \/ Rejected \/ Restores \/ PutsTheirs
  BY <1>1, <1>2, <1>6, RequestsLeaveIt, FaultsLeaveIt
<1>7. CASE Settles \/ Adopts \/ Stores \/ Drops \/ Parks
  BY <1>1, <1>2, <1>7, SettlesLeaveIt, AdoptsLeavesIt, StoresLeaveIt, ParksLeavesIt
<1>8. CASE FindsDuplicate \/ FindsTaken \/ WritesBack \/ Discards
  BY <1>1, <1>2, <1>8, FindsLeaveIt, WritesBackLeavesIt
<1>9. CASE Pull
  BY <1>1, <1>2, <1>9, PullsLeaveIt
<1>10. CASE PullBook
  BY <1>1, <1>2, <1>10, OthersLeaveIt, TasksLeaveIt, BookUpsertsLeavesIt DEF PullBook
<1>11. CASE Crash
  BY <1>1, <1>2, <1>11, CrashLeavesIt
<1>12. CASE UNCHANGED vars
  BY <1>1, <1>12, NothingLeavesIt
<1> QED
  BY <1>1, <1>3, <1>4, <1>5, <1>6, <1>7, <1>8, <1>9, <1>10, <1>11, <1>12 DEF Next, Push

LEMMA SettledIsSettled ==
  ASSUME SyncInv, SettleInv
  PROVE  QuietRunSettles
<1>1. SUFFICES ASSUME At("pulling"), run.docs = {}, quiet, NEW i \in Ids
               PROVE  \/ outbox[i] # None /\ outbox[i].status # "PENDING"
                      \/ row[i] # None /\ row[i].deleted
                      \/ row[i] = None /\ doc[i] = None
                      \/ LiveRow(i) /\ LiveDoc(i) /\ row[i].edit = doc[i].edit
                      \/ HeldBack(i)
  BY DEF QuietRunSettles
<1>2. Pulling /\ ~Judging /\ ~At("idle") /\ run.todo = <<>> /\ Len(run.todo) = 0
  BY <1>1 DEF Pulling, Judging, At, SettleInv, Working
<1>3. CASE doc[i] # None
  BY <1>1, <1>2, <1>3 DEF SettleInv, Quiet, Meeting, Met
<1>4. CASE doc[i] = None
  <2>1. ~Due(i)
    BY <1>1, <1>2 DEF SettleInv, Quiet, InHands
  <2>2. row[i] # None => ~row[i].synced
    BY <1>4 DEF SettleInv, InStep, Behind
  <2>3. row[i] # None /\ outbox[i] = None => row[i].deleted
    BY <1>4, <2>2 DEF SettleInv, Unsynced
  <2> QED BY <1>4, <2>1, <2>3 DEF Due
<1> QED BY <1>3, <1>4

(* After a run that nothing disturbed, the device shows what the server has,  *)
(* but for what is parked, deleted or held back, for any number of records,   *)
(* operations in the queue and earlier runs, faults and process deaths        *)
(* (syncEngine.ts, run() and pull(); outboxStore.ts, listPending()).          *)
THEOREM QuietRunsSettle == Spec => []QuietRunSettles
<1>1. SyncInv /\ SettleInv => QuietRunSettles
  BY SettledIsSettled
<1>2. Spec => []SettleInv
  <2>1. SyncInv /\ SyncInv' /\ SettleInv /\ [Next]_vars => SettleInv'
    BY SettleSteps
  <2>2. QED
    BY <2>1, SettleStarts, SyncInvariance, PTL DEF Spec
<1> QED BY <1>1, <1>2, SyncInvariance, PTL

-----------------------------------------------------------------------------
(* One live bookmark of a locator, one document of a scope (external), and    *)
(* only a scope that is taken has its document restored.                      *)
OneOfEach ==
  /\ run.at \in {"findTaken", "restore"} => Kind # "bookmarks"
  /\ \A i, j \in Ids : i # j =>
       IF Kind = "bookmarks" THEN ~LiveDoc(i) \/ ~LiveDoc(j) ELSE doc[i] = None \/ doc[j] = None
Stays == run'.at \in {"findTaken", "restore"} => run.at \in {"findTaken", "restore"}

LEMMA OneStays ==
  ASSUME OneOfEach, UNCHANGED doc, Stays
  PROVE  OneOfEach'
BY DEF OneOfEach, LiveDoc, Stays

LEMMA OneWritten ==
  ASSUME TypeOK, OneOfEach, Stays, NEW i \in Ids, NEW x, doc' = [doc EXCEPT ![i] = x],
         LiveDoc(i) \/ (Kind # "bookmarks" /\ doc[i] # None) \/ ~SlotTaken(i)
  PROVE  OneOfEach'
<1>1. \A j \in Ids \ {i} : doc'[j] = doc[j]
  BY SyncTypes
<1>2. \A j \in Ids \ {i} : LiveDoc(j)' = LiveDoc(j)
  BY <1>1 DEF LiveDoc
<1>3. CASE Kind = "bookmarks"
  <2>1. \A j, k \in Ids : j # k => ~LiveDoc(j) \/ ~LiveDoc(k)
    BY <1>3 DEF OneOfEach
  <2>2. \A j \in Ids \ {i} : ~LiveDoc(j) \/ ~LiveDoc(i)
    BY <2>1
  <2>3. (\A j \in Ids \ {i} : ~LiveDoc(j)) \/ (\E j \in Ids \ {i} : LiveDoc(j) /\ ~SlotTaken(i))
    BY <1>3, <2>2
  <2>4. \A j \in Ids \ {i} : ~LiveDoc(j)
    BY <1>3, <2>3 DEF SlotTaken
  <2>5. \A j, k \in Ids : j # k => ~LiveDoc(j)' \/ ~LiveDoc(k)'
    BY <1>2, <2>4
  <2> QED BY <1>3, <2>5 DEF OneOfEach, Stays
<1>4. CASE Kind # "bookmarks"
  <2>1. \A j \in Ids \ {i} : doc[j] = None
    BY <1>4 DEF OneOfEach, SlotTaken, LiveDoc
  <2> QED BY <1>1, <1>4, <2>1 DEF OneOfEach, LiveDoc
<1> QED BY <1>3, <1>4

(* A request that writes a document there is, or of which nobody has another. *)
LEMMA RequestsKeepOne ==
  ASSUME SyncInv, OneOfEach, Puts \/ Posts \/ PutsOwn \/ Deletes \/ Restores \/ PutsTheirs
  PROVE  OneOfEach'
<1>0. /\ TypeOK /\ run \in Run /\ Cur.id \in Ids
      /\ run.at \in {"restore", "putTheirs"} => run.rec # None /\ run.rec.id \in Ids
      /\ run.at = "restore" => doc[run.rec.id] # None /\ Kind # "bookmarks"
  <2>1. run.at \in {"put", "post", "putOwn", "delete", "restore", "putTheirs"}
    BY DEF Puts, Posts, PutsOwn, Deletes, Restores, PutsTheirs, At
  <2> QED BY <2>1, Held, HandTypes, SyncTypes DEF SyncInv, RunOK, HasRec, OneOfEach
<1>1. ASSUME NEW i \in Ids, NEW key, NEW gone, NEW place \in {"settle", "putTheirs", "writeBack"},
             Writes(i, key, gone, place),
             LiveDoc(i) \/ (Kind # "bookmarks" /\ doc[i] # None) \/ ~SlotTaken(i)
      PROVE  OneOfEach'
  <2>1. place \in Places
    BY DEF Places
  <2>2. Stays
    <3>1. (\E x : GotoWith(place, x)) \/ run' = IdleRun \/ Goto("fail")
      BY <1>1 DEF Writes, Breaks
    <3>2. run'.at \in {place, "idle", "fail"}
      <4>1. (\E x : GotoWith(place, x)) => run'.at = place
        BY <1>0 DEF GotoWith, Run
      <4>2. Goto("fail") => run'.at = "fail"
        BY <1>0 DEF Goto, Run
      <4>3. run' = IdleRun => run'.at = "idle"
        BY DEF IdleRun
      <4> QED BY <3>1, <4>1, <4>2, <4>3
    <3> QED BY <3>2 DEF Stays
  <2>3. doc' = [doc EXCEPT ![i] = Stored(key, gone)]
    BY <1>1 DEF Writes
  <2> QED BY <1>0, <1>1, <2>2, <2>3, OneWritten
<1>2. ASSUME NEW p \in {"post", "putOwn", "findDuplicate", "fail", "putTheirs"}, Goto(p), UNCHANGED doc
      PROVE  OneOfEach'
  <2>1. run'.at = p
    BY <1>0, <1>2 DEF Goto, Run
  <2> QED BY <1>2, <2>1, OneStays DEF Stays
<1>3. CASE Puts \/ PutsOwn
  BY <1>0, <1>1, <1>2, <1>3 DEF Puts, PutsOwn, Local
<1>4. CASE Posts
  <2>1. CASE doc[Cur.id] = None /\ ~SlotTaken(Cur.id)
    BY <1>0, <1>1, <1>4, <2>1 DEF Posts
  <2>2. CASE Kind = "bookmarks" /\ ~(doc[Cur.id] = None /\ ~SlotTaken(Cur.id))
    BY <1>2, <1>4, <2>2 DEF Posts, Local
  <2>3. CASE Kind # "bookmarks" /\ ~(doc[Cur.id] = None /\ ~SlotTaken(Cur.id))
    <3>1. UNCHANGED doc
      BY <1>4, <2>3 DEF Posts, Local
    <3> QED BY <2>3, <3>1 DEF OneOfEach, LiveDoc
  <2> QED BY <2>1, <2>2, <2>3
<1>5. CASE Deletes
  <2>1. CASE LiveDoc(Cur.id)
    BY <1>0, <1>1, <1>5, <2>1 DEF Deletes
  <2>2. CASE ~LiveDoc(Cur.id)
    <3>1. UNCHANGED doc /\ GotoWith("settle", None)
      BY <1>5, <2>2 DEF Deletes
    <3>2. Stays
      BY <1>0, <3>1 DEF GotoWith, Stays, Run
    <3> QED BY <3>1, <3>2, OneStays
  <2> QED BY <2>1, <2>2
<1>6. CASE Restores
  BY <1>0, <1>1, <1>2, <1>6 DEF Restores, Local, At
<1>7. CASE PutsTheirs
  BY <1>0, <1>1, <1>2, <1>7 DEF PutsTheirs, Local, At
<1> QED BY <1>3, <1>4, <1>5, <1>6, <1>7

LEMMA OneSteps == SyncInv /\ OneOfEach /\ [Next]_vars => OneOfEach'
<1>1. SUFFICES ASSUME SyncInv, OneOfEach, [Next]_vars PROVE OneOfEach'
  OBVIOUS
<1>0. TypeOK /\ run \in Run
  BY <1>1, SyncTypes DEF SyncInv
<1>2. CASE Puts \/ Posts \/ PutsOwn \/ Deletes \/ Restores \/ PutsTheirs
  BY <1>1, <1>2, RequestsKeepOne
<1>3. ASSUME NEW i \in Ids, NEW gone \in BOOLEAN, OtherDeviceWrites(i, gone) PROVE OneOfEach'
  <2>1. Stays /\ doc' = [doc EXCEPT ![i] = Stored(NextEdit, gone)]
    BY <1>3 DEF OtherDeviceWrites, Stays
  <2>2. LiveDoc(i) \/ (Kind # "bookmarks" /\ doc[i] # None) \/ ~SlotTaken(i)
    BY <1>3 DEF OtherDeviceWrites
  <2> QED BY <1>0, <1>1, <2>1, <2>2, OneWritten
<1>4. CASE LocalWrite \/ PullBook \/ UNCHANGED vars
  <2>1. UNCHANGED <<doc, run>>
    BY <1>4 DEF LocalWrite, TaskReads, TaskStamps, TaskCommits, PullBook, BookStarts, BookJudges,
                BookUpserts, BookEnds, vars
  <2> QED BY <1>1, <2>1, OneStays DEF Stays
<1>5. CASE Crash \/ Pull
  <2>1. UNCHANGED doc
    BY <1>5 DEF Crash, Pull, Pulls, PullsRecord, RunEnds, Local
  <2>2. CASE PullsRecord
    BY <1>0, <1>1, <2>1, <2>2, OneStays DEF PullsRecord, Run, Stays
  <2>3. CASE Crash \/ Pulls \/ RunEnds
    <3>1. run' = IdleRun \/ run' = [IdleRun EXCEPT !.at = "pulling", !.docs = AllDocs]
      BY <2>3 DEF Crash, Pulls, RunEnds
    <3>2. run'.at \in {"idle", "pulling"}
      <4>1. IdleRun.at = "idle" /\ [IdleRun EXCEPT !.at = "pulling", !.docs = AllDocs].at = "pulling"
        BY DEF IdleRun
      <4> QED BY <3>1, <4>1
    <3> QED BY <1>1, <2>1, <3>2, OneStays DEF Stays
  <2> QED BY <1>5, <2>2, <2>3 DEF Pull
<1>6. CASE RunStarts \/ Settles \/ Adopts \/ Stores \/ Drops \/ Parks
  <2>1. UNCHANGED doc
    BY <1>6 DEF RunStarts, Settles, Adopts, Stores, Drops, Parks, Local
  <2>2. run'.at \in {"next", "idle", "adopt", "store"}
    <3>1. \/ \E todo : run' = [IdleRun EXCEPT !.at = "next", !.todo = todo]
          \/ run' = IdleRun \/ Goto("adopt") \/ Goto("store")
      BY <1>6 DEF RunStarts, Settles, Adopts, Stores, Drops, Parks, NextOp
    <3>2. (Goto("adopt") => run'.at = "adopt") /\ (Goto("store") => run'.at = "store")
      BY <1>0 DEF Goto, Run
    <3>3. /\ \A todo : [IdleRun EXCEPT !.at = "next", !.todo = todo].at = "next"
          /\ IdleRun.at = "idle"
      BY DEF IdleRun
    <3> QED BY <3>1, <3>2, <3>3
  <2> QED BY <1>1, <2>1, <2>2, OneStays DEF Stays
<1>7. CASE Examines \/ Probes \/ Judges \/ Upserts
  <2>1. UNCHANGED doc
    BY <1>7 DEF Examines, Probes, Judges, Upserts, Local
  <2>2. run'.at \notin {"findTaken", "restore"}
    <3>1. FirstRequest(Cur) \notin {"findTaken", "restore"} \/ run.todo = <<>>
      BY <1>0, Todo, RequestOf
    <3>2. run.at \in {"probe", "judge"} /\ ~(run.at = "judge" /\ run.then # "conflict") => run.todo # <<>>
      BY <1>1 DEF SyncInv, RunOK, HasOp, Judging
    <3>3. run.at \in {"judge", "upsert"} => run.then \in {"conflict", "discard", "pulling"}
      BY <1>1 DEF SyncInv, RunOK, HasRec, Judging
    <3> QED BY <1>0, <1>7, <3>1, <3>2, <3>3 DEF Examines, Probes, Judges, Upserts, Goto, Run, At
  <2> QED BY <1>1, <2>1, <2>2, OneStays DEF Stays
<1>8. CASE NetworkFails \/ Rejected
  <2>1. UNCHANGED doc /\ (run' = IdleRun \/ Goto("fail"))
    BY <1>8 DEF NetworkFails, Rejected, Breaks
  <2>2. run'.at \in {"idle", "fail"}
    BY <1>0, <2>1 DEF IdleRun, Goto, Run
  <2> QED BY <1>1, <2>1, <2>2, OneStays DEF Stays
<1>9. CASE FindsDuplicate \/ WritesBack \/ Discards
  <2>1. UNCHANGED doc
    BY <1>9 DEF FindsDuplicate, WritesBack, Discards, Local
  <2>2. run'.at \in {"discard", "judge", "drop"}
    BY <1>0, <1>9 DEF FindsDuplicate, WritesBack, Discards, Goto, Run
  <2> QED BY <1>1, <2>1, <2>2, OneStays DEF Stays
<1>10. CASE FindsTaken
  <2>1. UNCHANGED doc /\ run.at = "findTaken"
    BY <1>10 DEF FindsTaken, Local, At
  <2> QED BY <1>1, <2>1, OneStays DEF Stays
<1> QED
  BY <1>1, <1>2, <1>3, <1>4, <1>5, <1>6, <1>7, <1>8, <1>9, <1>10 DEF Next, Push

(* Two devices that chose two ids for one thing: the run that found out, or   *)
(* any later quiet one, leaves one of them on the device, for any number of   *)
(* ids, devices' writes, faults and process deaths (syncEngine.ts,            *)
(* LocatorCollision, DownloadRestoreCollision).                               *)
THEOREM QuietRunsUnify == Spec => []QuietRunUnifies
<1>1. Init => OneOfEach
  BY DEF Init, OneOfEach, IdleRun, LiveDoc
<1>2. Spec => []OneOfEach
  <2>1. SyncInv /\ SyncInv' /\ OneOfEach /\ [Next]_vars => OneOfEach'
    BY OneSteps
  <2>2. QED
    BY <1>1, <2>1, SyncInvariance, PTL DEF Spec
<1>3. OneOfEach /\ QuietRunSettles => QuietRunUnifies
  <2>1. SUFFICES ASSUME OneOfEach, QuietRunSettles, At("pulling"), run.docs = {}, quiet,
                        NEW i \in Ids, NEW j \in Ids, LiveRow(i), LiveRow(j),
                        outbox[i] = None, outbox[j] = None
                 PROVE  i = j
    BY DEF QuietRunUnifies
  <2>2. LiveDoc(i) /\ LiveDoc(j)
    BY <2>1 DEF QuietRunSettles, LiveRow, HeldBack
  <2> QED BY <2>1, <2>2 DEF OneOfEach, LiveDoc
<1> QED BY <1>2, <1>3, QuietRunsSettle, PTL

(* Several ids for one thing become one, and no edit is lost on the way: all  *)
(* of the run's claim on the collections whose records other devices make.    *)
THEOREM UnifyingIsSafe == Spec => []UnifiesSafely
<1>1. ShownEditIsSafe /\ QuietRunSettles /\ QuietRunUnifies => UnifiesSafely
  BY DEF UnifiesSafely
<1> QED BY <1>1, ShownEditsAreSafe, QuietRunsSettle, QuietRunsUnify, PTL

-----------------------------------------------------------------------------
(* Preferences.                                                              *)

(* A choice of this device's: committed, or about to be.                    *)
Pending(n) == \E s \in Savers : Saving(s, "locked") /\ saver[s].row.updated = n
Ours(n) == n \in hist.own \/ Pending(n)

(* What record `of` has of this device's choices, the server has had.       *)
Told(of) == \A f \in Fields : Ours(of[f].choice) => of[f].choice \in hist.sent

Pushing ==
  \/ sync.at \in {"examine", "probe", "rebuild", "send", "settle", "adopt", "store"}
  \/ sync.at \in {"judge", "upsert"} /\ sync.push

(* What each place of a save and of a run has in hand.                      *)
Placed ==
  /\ queue # Nil => mine # Nil
  /\ \A s \in Savers : /\ Saving(s, "diffed") => saver[s].fields \subseteq saver[s].patch
                       /\ Saving(s, "locked") => saver[s].row # Nil
  /\ Pushing => sync.op # Nil /\ mine # Nil
  /\ Syncing("probe") => sync.seen # Nil
  /\ sync.at \in {"judge", "settle", "adopt", "store"} => sync.rec # Nil
  /\ sync.at \in {"upsert", "enqueue"} => sync.row # Nil
  /\ sync.at \in {"refresh", "enqueue"} => mine # Nil
  /\ theirs # Nil /\ ~theirs.first => server # Nil

(* Nothing is of a time to come, and no choice of this device's has the     *)
(* number of another.                                                       *)
Until(of) == \A f \in Fields : of[f].choice <= clock
Dated ==
  /\ mine # Nil => Until(mine.of)
  /\ server # Nil => Until(server.of)
  /\ queue # Nil => Until(queue.of) /\ queue.key < clock
  /\ sync.op # Nil => Until(sync.op.of) /\ sync.op.key < clock
  /\ sync.rec # Nil => Until(sync.rec.of)
  /\ sync.row # Nil => Until(sync.row.of)
  /\ \A s \in Savers :
       /\ saver[s].seen # Nil => Until(saver[s].seen.of)
       /\ Saving(s, "locked") =>
            /\ Until(saver[s].row.of)
            /\ saver[s].row.updated \in 1..clock
            /\ \A f \in saver[s].fields : saver[s].row.of[f].choice = saver[s].row.updated
  /\ hist.own \subseteq 1..clock
  /\ theirs # Nil => theirs.at <= clock /\ ~Ours(theirs.at)

(* The documents on their way: the server's, and the one a run examines.    *)
Known ==
  /\ server # Nil => Told(server.of)
  /\ sync.rec # Nil => Told(sync.rec.of)
  /\ Syncing("settle") => \A f \in Fields : sync.op.of[f].choice \in hist.sent
  /\ Syncing("upsert") =>
       \A f \in Fields :
         Ours(sync.row.of[f].choice) /\ sync.row.of[f].choice \notin hist.sent =>
           sync.seen # Nil /\ sync.seen.of[f].choice = sync.row.of[f].choice

(* A push that may still retire the queued operation takes with it what the *)
(* row has of it.                                                           *)
Carried ==
  Pushing /\ sync.at \notin {"adopt", "store"} /\ queue # Nil /\ queue.key = sync.op.key =>
    \A f \in Fields :
      /\ queue.of[f].choice \in hist.own \ hist.sent
      /\ mine.of[f].choice = queue.of[f].choice
      => sync.op.of[f].choice = queue.of[f].choice

PrefTyped == PrefTypeOK /\ Placed
PrefInv ==
  /\ PrefTyped /\ Dated /\ Known
  /\ OwnChoiceIsQueued
  /\ "overtaken" \notin hist.slips => Carried

-----------------------------------------------------------------------------
LEMMA Blanks == IdleSaver \in SaveCall /\ IdleSync \in SyncRun /\ Unmarked \in Values
BY DEF IdleSaver, SaveCall, IdleSync, SyncRun, Unmarked, Values, Value, Default

LEMMA MergedTyped ==
  ASSUME NEW copy \in PrefRow \union {Nil}, NEW remote \in PrefDoc
  PROVE  /\ Merged(copy, remote) \in PrefRow
         /\ \A f \in Fields :
              \/ Merged(copy, remote).of[f].choice = remote.of[f].choice
              \/ copy # Nil /\ Merged(copy, remote).of[f].choice = copy.of[f].choice
<1>1. remote.of \in Values /\ remote.updated \in Nat
  BY DEF PrefDoc
<1>2. CASE copy = Nil
  BY <1>1, <1>2 DEF Merged, PrefRow
<1>3. CASE copy # Nil
  <2> DEFINE taken == {f \in Fields : RemoteWins(copy, remote, f)}
  <2> DEFINE of == [f \in Fields |->
                  IF f \notin taken THEN copy.of[f]
                  ELSE [choice |-> remote.of[f].choice,
                        stamp |-> IF remote.of[f].stamp = Nil THEN remote.updated
                                                           ELSE remote.of[f].stamp]]
  <2> DEFINE synced == /\ copy.synced
                       /\ \A f \in Fields \ taken : copy.of[f].choice = remote.of[f].choice
  <2>1. copy \in PrefRow
    BY <1>3
  <2>2. copy.of \in Values /\ copy.updated \in Nat /\ copy.synced \in BOOLEAN
    BY <2>1 DEF PrefRow
  <2>3. of \in Values
    BY <1>1, <2>2 DEF Values, Value
  <2>4. \A f \in Fields : of[f].choice = remote.of[f].choice \/ of[f].choice = copy.of[f].choice
    OBVIOUS
  <2>5. Merged(copy, remote) = [of |-> of, updated |-> Later(copy.updated, remote.updated),
                            synced |-> synced, base |-> remote.updated]
    BY <1>3 DEF Merged
  <2>6. Later(copy.updated, remote.updated) \in Nat /\ synced \in BOOLEAN
    BY <1>1, <2>2 DEF Later
  <2> HIDE DEF of, synced
  <2>7. QED
    BY <1>1, <1>3, <2>3, <2>4, <2>5, <2>6 DEF PrefRow
<1>4. QED
  BY <1>2, <1>3

History == [seen : [Fields -> Nat], sent : SUBSET Nat, own : SUBSET Nat,
            slips : SUBSET Slips]

(* What a write of the row changes.                                         *)
LEMMA RowSet ==
  ASSUME PrefTypeOK, NEW copy \in PrefRow, NEW overtaken, NEW made \in SUBSET Nat,
         SetsRow(copy, overtaken, made)
  PROVE  /\ mine' = copy
         /\ hist' \in History
         /\ hist'.own = hist.own \union made
         /\ hist'.sent = hist.sent
         /\ "overtaken" \notin hist'.slips => "overtaken" \notin hist.slips /\ ~overtaken
<1> DEFINE seen == [f \in Fields |-> Later(hist.seen[f], copy.of[f].choice)]
<1> DEFINE slips == IF overtaken THEN hist.slips \union {"overtaken"} ELSE hist.slips
<1>1. hist \in History
  BY DEF PrefTypeOK, History
<1>2. copy.of \in Values
  BY DEF PrefRow
<1>3. \A f \in Fields : copy.of[f].choice \in Nat
  BY <1>2 DEF Values, Value
<1>4. seen \in [Fields -> Nat]
  BY <1>1, <1>3 DEF Later, History
<1>5. slips \subseteq Slips
  BY <1>1 DEF Slips, History
<1>6. mine' = copy
  BY DEF SetsRow
<1>7. hist' = [hist EXCEPT !.seen = [f \in Fields |-> Later(hist.seen[f], copy.of[f].choice)],
                           !.own = hist.own \union made,
                           !.slips = IF overtaken THEN hist.slips \union {"overtaken"}
                                                  ELSE hist.slips]
  BY Zenon DEF SetsRow
<1>8. hist' = [hist EXCEPT !.seen = seen, !.own = hist.own \union made, !.slips = slips]
  BY <1>7
<1> HIDE DEF seen, slips
<1>9. /\ hist' \in History
      /\ hist'.own = hist.own \union made /\ hist'.sent = hist.sent /\ hist'.slips = slips
  BY <1>1, <1>4, <1>5, <1>8 DEF History
<1>10. "overtaken" \notin slips => "overtaken" \notin hist.slips /\ ~overtaken
  BY DEF slips
<1>11. QED
  BY <1>6, <1>9, <1>10

(* saveLocal keeps what the save has locked, and moves its stamps.          *)
LEMMA Renumbered ==
  ASSUME NEW new \in PrefRow, NEW old \in PrefRow \union {Nil}
  PROVE  LET copy == IF old = Nil THEN new
                    ELSE [new EXCEPT
                           !.updated = IF @ > old.updated THEN @ ELSE old.updated + 1,
                           !.base = IF old.base # Nil THEN old.base ELSE @]
         IN copy \in PrefRow /\ copy.of = new.of
<1>1. CASE old = Nil
  BY <1>1
<1>2. CASE old # Nil
  <2> DEFINE base == IF old.base # Nil THEN old.base ELSE new.base
  <2> DEFINE updated == IF new.updated > old.updated THEN new.updated ELSE old.updated + 1
  <2> DEFINE copy == [new EXCEPT !.updated = updated, !.base = base]
  <2>1. old.updated \in Nat /\ new.updated \in Nat
        /\ old.base \in Nat \union {Nil} /\ new.base \in Nat \union {Nil}
    BY <1>2 DEF PrefRow
  <2>2. base \in Nat \union {Nil} /\ updated \in Nat
    BY <2>1
  <2>3. copy = [new EXCEPT !.updated = IF @ > old.updated THEN @ ELSE old.updated + 1,
                          !.base = IF old.base # Nil THEN old.base ELSE @]
    BY DEF PrefRow
  <2> HIDE DEF base, updated
  <2>4. copy \in PrefRow /\ copy.of = new.of
    BY <2>2 DEF PrefRow
  <2> HIDE DEF copy
  <2>5. QED
    BY <1>2, <2>3, <2>4
<1>3. QED
  BY <1>1, <1>2

-----------------------------------------------------------------------------
(* Types and places                                                         *)

LEMMA SavesTyped ==
  ASSUME PrefTyped, NEW s \in Savers, PrefSave(s)
  PROVE  PrefTyped'
<1> USE NilAssumption, NilIsNothing DEF PrefTyped
<1>1. CASE PrefReads(s)
  <2>1. PICK fields \in (SUBSET Fields) \ {{}} :
          saver' = [saver EXCEPT ![s] = [IdleSaver EXCEPT !.at = "read", !.fields = fields,
                                                          !.seen = mine]]
    BY <1>1 DEF PrefReads
  <2>2. [IdleSaver EXCEPT !.at = "read", !.fields = fields, !.seen = mine] \in SaveCall
    BY DEF PrefTypeOK, IdleSaver, SaveCall
  <2>3. saver' \in [Savers -> SaveCall] /\ saver'[s].at = "read"
        /\ \A u \in Savers : u # s => saver'[u] = saver[u]
    BY <2>1, <2>2 DEF PrefTypeOK, IdleSaver
  <2>4. UNCHANGED <<clock, mine, server, queue, sync, theirs, hist>>
    BY <1>1 DEF PrefReads
  <2>5. left' \in [saves : 0..MaxSaves, theirs : 0..MaxTheirs, syncs : 0..MaxSyncs,
                   failures : 0..MaxFailures]
    BY <1>1, PrefBoundsAssumption DEF PrefReads, PrefTypeOK
  <2>6. PrefTypeOK'
    BY <2>3, <2>4, <2>5 DEF PrefTypeOK
  <2>7. Placed'
    BY <2>3, <2>4 DEF Placed, Pushing, Syncing, Saving
  <2>8. QED
    BY <2>6, <2>7
<1>2. CASE PrefDiffs(s)
  <2> DEFINE was(f) == IF saver[s].seen = Nil THEN 0 ELSE saver[s].seen.of[f].choice
  <2> DEFINE patch == IF mine = Nil THEN Fields
                      ELSE saver[s].fields \union {f \in Fields : was(f) # mine.of[f].choice}
  <2>1. saver' = [saver EXCEPT ![s] = [@ EXCEPT !.at = "diffed", !.patch = patch]]
    BY <1>2 DEF PrefDiffs, PrefTypeOK, SaveCall
  <2>2. saver[s] \in SaveCall
    BY DEF PrefTypeOK
  <2>3. saver[s].fields \subseteq patch /\ patch \subseteq Fields
    BY <2>2 DEF SaveCall
  <2> HIDE DEF patch
  <2>4. [saver[s] EXCEPT !.at = "diffed", !.patch = patch] \in SaveCall
    BY <2>2, <2>3 DEF SaveCall
  <2>5. /\ saver' \in [Savers -> SaveCall] /\ saver'[s].at = "diffed"
        /\ saver'[s].fields = saver[s].fields /\ saver'[s].patch = patch
        /\ \A u \in Savers : u # s => saver'[u] = saver[u]
    BY <2>1, <2>2, <2>4 DEF PrefTypeOK, SaveCall
  <2>6. UNCHANGED <<clock, mine, server, queue, sync, theirs, left, hist>>
    BY <1>2 DEF PrefDiffs
  <2>7. PrefTypeOK'
    BY <2>5, <2>6 DEF PrefTypeOK
  <2>8. Placed'
    BY <2>3, <2>5, <2>6 DEF Placed, Pushing, Syncing, Saving
  <2>9. QED
    BY <2>7, <2>8
<1>3. CASE PrefLocks(s)
  <2> DEFINE time == clock + 1
  <2> DEFINE call == saver[s]
  <2> DEFINE of == IF mine = Nil THEN Unmarked ELSE mine.of
  <2> DEFINE kept(f) == IF call.seen = Nil THEN 0 ELSE call.seen.of[f].choice
  <2> DEFINE values == [f \in Fields |->
                         IF f \notin call.patch THEN of[f]
                         ELSE [choice |-> IF f \in call.fields THEN time ELSE kept(f),
                               stamp |-> time]]
  <2> DEFINE base == IF mine = Nil THEN Nil ELSE mine.base
  <2> DEFINE copy == [of |-> values, updated |-> time, synced |-> FALSE, base |-> base]
  <2>1. saver' = [saver EXCEPT ![s] = [@ EXCEPT !.at = "locked", !.row = copy,
                                                !.create = (mine = Nil)]]
    BY <1>3 DEF PrefLocks, PrefTypeOK, SaveCall
  <2>2. call \in SaveCall /\ mine \in PrefRow \union {Nil} /\ clock \in Nat
    BY DEF PrefTypeOK
  <2>3. of \in Values /\ base \in Nat \union {Nil}
    BY <2>2, Blanks DEF PrefRow
  <2>4. \A f \in Fields : kept(f) \in Nat
    BY <2>2 DEF SaveCall, PrefRow, Values, Value
  <2>5. values \in Values
    BY <2>2, <2>3, <2>4 DEF Values, Value
  <2> HIDE DEF values, base
  <2>6. copy \in PrefRow
    BY <2>2, <2>3, <2>5 DEF PrefRow
  <2> HIDE DEF copy
  <2>7. [saver[s] EXCEPT !.at = "locked", !.row = copy, !.create = (mine = Nil)] \in SaveCall
    BY <2>2, <2>6 DEF SaveCall
  <2>8. /\ saver' \in [Savers -> SaveCall] /\ saver'[s].at = "locked" /\ saver'[s].row = copy
        /\ \A u \in Savers : u # s => saver'[u] = saver[u]
    BY <2>1, <2>2, <2>7 DEF PrefTypeOK, SaveCall
  <2>9. UNCHANGED <<mine, server, queue, sync, theirs, left, hist>> /\ clock' = clock + 1
    BY <1>3 DEF PrefLocks, Tick
  <2>10. PrefTypeOK'
    BY <2>8, <2>9 DEF PrefTypeOK
  <2>11. Placed'
    BY <2>6, <2>8, <2>9 DEF Placed, Pushing, Syncing, Saving
  <2>12. QED
    BY <2>10, <2>11
<1>4. CASE PrefCommits(s)
  <2> DEFINE call == saver[s]
  <2> DEFINE copy == IF mine = Nil THEN call.row
             ELSE [call.row EXCEPT
                    !.updated = IF @ > mine.updated THEN @ ELSE mine.updated + 1,
                    !.base = IF mine.base # Nil THEN mine.base ELSE @]
  <2> DEFINE op == [key |-> clock, create |-> call.create, of |-> copy.of, updated |-> copy.updated]
  <2>1. /\ SetsRow(copy, Overtaken(call.seen), {copy.of[f].choice : f \in call.fields})
        /\ queue' = op
        /\ saver' = [saver EXCEPT ![s] = IdleSaver]
        /\ clock' = clock + 1
        /\ UNCHANGED <<server, sync, theirs, left>>
        /\ call.at = "locked"
    BY <1>4 DEF PrefCommits, Tick, Saving
  <2>2. call \in SaveCall /\ call.row \in PrefRow /\ mine \in PrefRow \union {Nil} /\ clock \in Nat
    BY <2>1 DEF PrefTypeOK, Placed, SaveCall, Saving
  <2>3. copy \in PrefRow /\ copy.of = call.row.of
    <3>1. CASE mine = Nil
      BY <2>2, <3>1
    <3>2. CASE mine # Nil
      <4> DEFINE base == IF mine.base # Nil THEN mine.base ELSE call.row.base
      <4> DEFINE updated == IF call.row.updated > mine.updated THEN call.row.updated
                                                             ELSE mine.updated + 1
      <4>1. mine.updated \in Nat /\ call.row.updated \in Nat
            /\ mine.base \in Nat \union {Nil} /\ call.row.base \in Nat \union {Nil}
        BY <2>2, <3>2 DEF PrefRow
      <4>2. base \in Nat \union {Nil} /\ updated \in Nat
        BY <4>1
      <4>3. copy = [call.row EXCEPT !.updated = updated, !.base = base]
        BY <2>2, <3>2 DEF PrefRow
      <4> HIDE DEF copy, base, updated
      <4>4. QED
        BY <2>2, <4>2, <4>3 DEF PrefRow
    <3>3. QED
      BY <3>1, <3>2
  <2>4. copy.of \in Values /\ call.fields \subseteq Fields
    BY <2>2, <2>3 DEF PrefRow, SaveCall
  <2> HIDE DEF copy
  <2>5. op \in PrefOp
    BY <2>2, <2>3 DEF PrefRow, PrefOp, SaveCall
  <2>6. {copy.of[f].choice : f \in call.fields} \subseteq Nat
    BY <2>4 DEF Values, Value
  <2>7. mine' = copy /\ hist' \in History
    BY <2>1, <2>3, <2>6, RowSet
  <2>8. saver' \in [Savers -> SaveCall]
        /\ \A u \in Savers : saver'[u] = IdleSaver \/ saver'[u] = saver[u]
    BY <2>1, Blanks DEF PrefTypeOK
  <2> HIDE DEF op
  <2>9. PrefTypeOK'
    <3>1. server' = server /\ sync' = sync /\ theirs' = theirs /\ left' = left
          /\ queue' = op /\ mine' = copy /\ clock' \in Nat
      BY <2>1, <2>2, <2>7
    <3>2. QED
      BY <2>3, <2>5, <2>7, <2>8, <3>1 DEF PrefTypeOK, History
  <2>10. mine' # Nil
    BY <2>3, <2>7
  <2>11. Placed'
    BY <2>1, <2>8, <2>10 DEF Placed, Pushing, Syncing, Saving, IdleSaver
  <2>12. QED
    BY <2>9, <2>11
<1>5. QED
  BY <1>1, <1>2, <1>3, <1>4 DEF PrefSave

(* A step of the run that moves nothing but the run.                        *)
LEMMA MoveTyped ==
  ASSUME PrefTyped, OnlySync, sync' \in SyncRun, Placed' PROVE PrefTyped'
BY DEF PrefTyped, PrefTypeOK, OnlySync

LEMMA SyncTyped ==
  ASSUME PrefTyped, PrefSync
  PROVE  PrefTyped'
<1> USE NilAssumption, NilIsNothing DEF PrefTyped
<1>0. /\ sync \in SyncRun /\ mine \in PrefRow \union {Nil} /\ server \in PrefDoc \union {Nil}
      /\ queue \in PrefOp \union {Nil} /\ clock \in Nat
  BY DEF PrefTypeOK
<1>1. CASE SyncStarts
  <2>1. sync' = [IdleSync EXCEPT !.op = queue, !.at = IF queue = Nil THEN "list" ELSE "examine"]
        /\ UNCHANGED <<clock, mine, server, queue, saver, theirs, hist>>
    BY <1>1 DEF SyncStarts
  <2>2. /\ sync' \in SyncRun /\ sync'.op = queue /\ sync'.rec = Nil /\ sync'.row = Nil
        /\ sync'.at = IF queue = Nil THEN "list" ELSE "examine"
    BY <1>0, <2>1 DEF IdleSync, SyncRun
  <2>3. left' \in [saves : 0..MaxSaves, theirs : 0..MaxTheirs, syncs : 0..MaxSyncs,
                   failures : 0..MaxFailures]
    BY <1>1, PrefBoundsAssumption DEF SyncStarts, PrefTypeOK
  <2>4. PrefTypeOK'
    BY <2>1, <2>2, <2>3 DEF PrefTypeOK
  <2>5. Placed'
    BY <2>1, <2>2 DEF Placed, Pushing, Syncing, Saving
  <2>6. QED
    BY <2>4, <2>5
<1>2. CASE SyncExamines
  <2>1. OnlySync /\ Syncing("examine")
    BY <1>2 DEF SyncExamines
  <2>2. \/ sync' = [sync EXCEPT !.at = "send"]
        \/ sync' = [sync EXCEPT !.at = "probe", !.seen = mine]
    BY <1>2 DEF SyncExamines, Moves
  <2>3. sync' \in SyncRun
    BY <1>0, <2>2 DEF SyncRun
  <2>4. Placed'
    BY <1>0, <2>1, <2>2 DEF Placed, Pushing, Syncing, Saving, SyncRun, OnlySync
  <2>5. QED
    BY <2>1, <2>3, <2>4, MoveTyped
<1>3. CASE SyncProbes
  <2>1. OnlySync /\ Syncing("probe")
    BY <1>3 DEF SyncProbes
  <2>2. \/ sync' = [sync EXCEPT !.at = "send", !.seen = Nil]
        \/ server # Nil /\ sync' = [sync EXCEPT !.at = "judge", !.seen = Nil, !.rec = server]
    BY <1>3 DEF SyncProbes
  <2>3. sync' \in SyncRun
    BY <1>0, <2>2 DEF SyncRun
  <2>4. Placed'
    BY <1>0, <2>1, <2>2 DEF Placed, Pushing, Syncing, Saving, SyncRun, OnlySync
  <2>5. QED
    BY <2>1, <2>3, <2>4, MoveTyped
<1>4. CASE SyncJudges
  <2> DEFINE copy == Merged(mine, sync.rec)
  <2>1. OnlySync /\ Syncing("judge")
    BY <1>4 DEF SyncJudges
  <2>2. sync.rec \in PrefDoc
    BY <1>0, <2>1 DEF Placed, Syncing, SyncRun
  <2>3. copy \in PrefRow
    BY <1>0, <2>2, MergedTyped
  <2>4. \/ sync' = [sync EXCEPT !.at = "upsert", !.rec = Nil, !.seen = mine, !.row = copy]
        \/ sync.push /\ sync' = [sync EXCEPT !.at = "send", !.rec = Nil]
        \/ sync' = IdleSync
    BY <1>4 DEF SyncJudges
  <2> HIDE DEF copy
  <2>5. /\ sync' \in SyncRun
        /\ \/ /\ sync'.at = "upsert" /\ sync'.row = copy
              /\ sync'.push = sync.push /\ sync'.op = sync.op
           \/ sync.push /\ sync'.at = "send" /\ sync'.op = sync.op
           \/ sync'.at = "idle"
    <3>1. CASE sync' = [sync EXCEPT !.at = "upsert", !.rec = Nil, !.seen = mine, !.row = copy]
      BY <1>0, <2>3, <3>1 DEF SyncRun
    <3>2. CASE sync.push /\ sync' = [sync EXCEPT !.at = "send", !.rec = Nil]
      BY <1>0, <3>2 DEF SyncRun
    <3>3. CASE sync' = IdleSync
      BY <3>3, Blanks DEF IdleSync
    <3>4. QED
      BY <2>4, <3>1, <3>2, <3>3
  <2>6. Placed'
    BY <2>1, <2>3, <2>5 DEF Placed, Pushing, Syncing, Saving, OnlySync
  <2>7. QED
    BY <2>1, <2>5, <2>6, MoveTyped
<1>5. CASE SyncUpserts
  <2>1. /\ Syncing("upsert") /\ SetsRow(sync.row, Overtaken(sync.seen), {})
        /\ sync' = [sync EXCEPT !.at = IF sync.push THEN "rebuild" ELSE "refresh",
                                !.seen = Nil, !.row = Nil]
        /\ UNCHANGED <<clock, server, queue, saver, theirs, left>>
    BY <1>5 DEF SyncUpserts
  <2>2. sync.row \in PrefRow
    BY <1>0, <2>1 DEF Placed, Syncing, SyncRun
  <2>3. mine' = sync.row /\ hist' \in History
    BY <2>1, <2>2, RowSet
  <2>4. sync' \in SyncRun
    BY <1>0, <2>1 DEF SyncRun
  <2>5. PrefTypeOK'
    BY <2>1, <2>2, <2>3, <2>4 DEF PrefTypeOK, History
  <2>6. Placed'
    BY <1>0, <2>1, <2>2, <2>3 DEF Placed, Pushing, Syncing, Saving, SyncRun
  <2>7. QED
    BY <2>5, <2>6
<1>6. CASE SyncRebuilds
  <2>1. OnlySync /\ Syncing("rebuild")
    BY <1>6 DEF SyncRebuilds
  <2>2. sync.op \in PrefOp /\ mine \in PrefRow
    BY <1>0, <2>1 DEF Placed, Pushing, Syncing, SyncRun
  <2> DEFINE op == [sync.op EXCEPT !.of = mine.of, !.updated = mine.updated]
  <2>3. op \in PrefOp
    BY <2>2 DEF PrefOp, PrefRow
  <2>4. sync' = [sync EXCEPT !.at = "send", !.op = op]
    BY <1>0, <1>6, <2>2 DEF SyncRebuilds, SyncRun, PrefOp
  <2> HIDE DEF op
  <2>5. sync' \in SyncRun
    BY <1>0, <2>3, <2>4 DEF SyncRun
  <2>6. Placed'
    BY <1>0, <2>1, <2>3, <2>4 DEF Placed, Pushing, Syncing, Saving, SyncRun, OnlySync
  <2>7. QED
    BY <2>1, <2>5, <2>6, MoveTyped
<1>7. CASE SyncSends
  <2> DEFINE sent == hist.sent \union {sync.op.of[f].choice : f \in Fields}
  <2>1. /\ Syncing("send")
        /\ server' = [of |-> sync.op.of, updated |-> clock + 1]
        /\ sync' = [sync EXCEPT !.at = "settle", !.rec = server']
        /\ hist' = [hist EXCEPT !.sent = sent]
        /\ clock' = clock + 1
        /\ UNCHANGED <<mine, queue, saver, theirs, left>>
    BY <1>7 DEF SyncSends, Tick
  <2>2. sync.op \in PrefOp
    BY <1>0, <2>1 DEF Placed, Pushing, Syncing, SyncRun
  <2>3. sync.op.of \in Values
    BY <2>2 DEF PrefOp
  <2>4. server' \in PrefDoc /\ sent \subseteq Nat
    BY <1>0, <2>1, <2>3 DEF PrefDoc, Values, Value, PrefTypeOK
  <2> HIDE DEF sent
  <2>5. sync' \in SyncRun
    BY <1>0, <2>1, <2>4 DEF SyncRun
  <2>6. hist' \in History
    BY <2>1, <2>4 DEF PrefTypeOK, History
  <2>7. PrefTypeOK'
    BY <2>1, <2>4, <2>5, <2>6 DEF PrefTypeOK, History
  <2>8. Placed'
    BY <1>0, <2>1, <2>4 DEF Placed, Pushing, Syncing, Saving, SyncRun
  <2>9. QED
    BY <2>7, <2>8
<1>8. CASE SyncSettles
  <2>1. /\ Syncing("settle") /\ queue' \in {queue, Nil} /\ sync' = [sync EXCEPT !.at = "adopt"]
        /\ UNCHANGED <<clock, mine, server, saver, theirs, left, hist>>
    BY <1>8 DEF SyncSettles, Moves
  <2>2. sync' \in SyncRun
    BY <1>0, <2>1 DEF SyncRun
  <2>3. PrefTypeOK'
    BY <2>1, <2>2 DEF PrefTypeOK
  <2>4. Placed'
    BY <1>0, <2>1 DEF Placed, Pushing, Syncing, Saving, SyncRun
  <2>5. QED
    BY <2>3, <2>4
<1>9. CASE SyncAdopts
  <2>1. OnlySync /\ Syncing("adopt")
    BY <1>9 DEF SyncAdopts
  <2>2. \/ sync' = [IdleSync EXCEPT !.at = "list"]
        \/ sync' = [sync EXCEPT !.at = "store", !.seen = mine]
    BY <1>9 DEF SyncAdopts
  <2>3. sync' \in SyncRun
    BY <1>0, <2>2, Blanks DEF SyncRun
  <2>4. Placed'
    BY <1>0, <2>1, <2>2 DEF Placed, Pushing, Syncing, Saving, SyncRun, OnlySync, IdleSync
  <2>5. QED
    BY <2>1, <2>3, <2>4, MoveTyped
<1>10. CASE SyncStores
  <2> DEFINE copy == [of |-> sync.rec.of, updated |-> sync.rec.updated, synced |-> TRUE,
                     base |-> sync.rec.updated]
  <2>1. /\ Syncing("store") /\ SetsRow(copy, Overtaken(sync.seen), {})
        /\ sync' = [IdleSync EXCEPT !.at = "list"]
        /\ UNCHANGED <<clock, server, queue, saver, theirs, left>>
    BY <1>10 DEF SyncStores
  <2>2. sync.rec \in PrefDoc
    BY <1>0, <2>1 DEF Placed, Syncing, SyncRun
  <2>3. copy \in PrefRow
    BY <2>2 DEF PrefDoc, PrefRow
  <2> HIDE DEF copy
  <2>4. mine' = copy /\ hist' \in History
    BY <2>1, <2>3, RowSet
  <2>5. sync' \in SyncRun
    BY <2>1, Blanks DEF SyncRun
  <2>6. PrefTypeOK'
    BY <2>1, <2>3, <2>4, <2>5 DEF PrefTypeOK, History
  <2>7. Placed'
    BY <2>1, <2>3, <2>4 DEF Placed, Pushing, Syncing, Saving, IdleSync
  <2>8. QED
    BY <2>6, <2>7
<1>11. CASE SyncLists
  <2>1. OnlySync
    BY <1>11 DEF SyncLists
  <2>2. CASE sync' = IdleSync
    <3>1. sync'.at = "idle" /\ sync' \in SyncRun
      BY <2>2, Blanks DEF IdleSync
    <3>2. Placed'
      BY <2>1, <3>1 DEF Placed, Pushing, Syncing, Saving, OnlySync
    <3>3. QED
      BY <2>1, <3>1, <3>2, MoveTyped
  <2>3. CASE server # Nil /\ sync' = [IdleSync EXCEPT !.at = "judge", !.push = FALSE, !.rec = server]
    <3>1. sync' = [at |-> "judge", push |-> FALSE, op |-> Nil, rec |-> server, seen |-> Nil,
                   row |-> Nil]
      BY <2>3 DEF IdleSync
    <3>2. sync' \in SyncRun
      BY <1>0, <3>1 DEF SyncRun
    <3>3. Placed'
      BY <2>1, <2>3, <3>1 DEF Placed, Pushing, Syncing, Saving, OnlySync
    <3>4. QED
      BY <2>1, <3>2, <3>3, MoveTyped
  <2>4. QED
    BY <1>11, <2>2, <2>3 DEF SyncLists
<1>12. CASE SyncRefreshes
  <2>1. OnlySync /\ Syncing("refresh") /\ mine # Nil
    BY <1>12 DEF SyncRefreshes, Placed, Syncing
  <2>2. CASE sync' = IdleSync
    <3>1. sync'.at = "idle" /\ sync' \in SyncRun
      BY <2>2, Blanks DEF IdleSync
    <3>2. Placed'
      BY <2>1, <3>1 DEF Placed, Pushing, Syncing, Saving, OnlySync
    <3>3. QED
      BY <2>1, <3>1, <3>2, MoveTyped
  <2>3. CASE sync' = [sync EXCEPT !.at = "enqueue", !.row = mine]
    <3>1. sync'.at = "enqueue" /\ sync'.row = mine /\ sync' \in SyncRun
      BY <1>0, <2>3 DEF SyncRun
    <3>2. Placed'
      BY <2>1, <3>1 DEF Placed, Pushing, Syncing, Saving, OnlySync
    <3>3. QED
      BY <2>1, <3>1, <3>2, MoveTyped
  <2>4. QED
    BY <1>12, <2>2, <2>3 DEF SyncRefreshes
<1>13. CASE SyncEnqueues
  <2> DEFINE slips == IF Overtaken(sync.row) THEN hist.slips \union {"overtaken"} ELSE hist.slips
  <2>1. /\ Syncing("enqueue")
        /\ queue' = [key |-> clock, create |-> FALSE, of |-> sync.row.of,
                     updated |-> sync.row.updated]
        /\ hist' = [hist EXCEPT !.slips = slips]
        /\ sync' = IdleSync /\ clock' = clock + 1
        /\ UNCHANGED <<mine, server, saver, theirs, left>>
    BY <1>13 DEF SyncEnqueues, Tick
  <2>2. sync.row \in PrefRow
    BY <1>0, <2>1 DEF Placed, Syncing, SyncRun
  <2>3. queue' \in PrefOp
    BY <1>0, <2>1, <2>2 DEF PrefRow, PrefOp
  <2>4. slips \subseteq Slips
    BY DEF PrefTypeOK, Slips
  <2> HIDE DEF slips
  <2>5. hist' \in History
    BY <2>1, <2>4 DEF PrefTypeOK, History
  <2>6. PrefTypeOK'
    BY <1>0, <2>1, <2>3, <2>5, Blanks DEF PrefTypeOK, History
  <2>7. Placed'
    BY <2>1 DEF Placed, Pushing, Syncing, Saving, IdleSync
  <2>8. QED
    BY <2>6, <2>7
<1>14. QED
  BY <1>1, <1>2, <1>3, <1>4, <1>5, <1>6, <1>7, <1>8, <1>9, <1>10, <1>11, <1>12, <1>13 DEF PrefSync

LEMMA BreaksTyped ==
  ASSUME PrefTyped, NEW saves \in [Savers -> SaveCall], SyncBreaks(saves),
         \A s \in Savers : saves[s] = saver[s] \/ saves[s] = IdleSaver,
         UNCHANGED <<clock, mine, server, queue, theirs>>
  PROVE  PrefTyped'
<1> DEFINE slips == IF MergedUnsent THEN hist.slips \union {"unsent"} ELSE hist.slips
<1>1. /\ sync' = IdleSync /\ saver' = saves /\ hist' = [hist EXCEPT !.slips = slips]
      /\ left.failures > 0 /\ left' = [left EXCEPT !.failures = @ - 1]
  BY DEF SyncBreaks
<1>2. slips \subseteq Slips
  BY DEF PrefTyped, PrefTypeOK, Slips
<1> HIDE DEF slips
<1>3. hist' \in History
  BY <1>1, <1>2 DEF PrefTyped, PrefTypeOK, History
<1>4. left' \in [saves : 0..MaxSaves, theirs : 0..MaxTheirs, syncs : 0..MaxSyncs,
                 failures : 0..MaxFailures]
  BY <1>1, PrefBoundsAssumption DEF PrefTyped, PrefTypeOK
<1>5. sync' \in SyncRun /\ sync'.at = "idle"
  BY <1>1, Blanks DEF IdleSync
<1>6. PrefTypeOK'
  BY <1>1, <1>3, <1>4, <1>5 DEF PrefTyped, PrefTypeOK, History
<1>7. Placed'
  BY <1>1, <1>5 DEF PrefTyped, Placed, Pushing, Syncing, Saving, IdleSaver
<1>8. QED
  BY <1>6, <1>7 DEF PrefTyped

LEMMA TheirsTyped ==
  ASSUME PrefTyped, (\E f \in Fields, first \in BOOLEAN : TheyChoose(f, first)) \/ TheySend
  PROVE  PrefTyped'
<1> USE NilAssumption, NilIsNothing, NilIsNoChoice DEF PrefTyped
<1>1. ASSUME NEW f \in Fields, NEW first \in BOOLEAN, TheyChoose(f, first) PROVE PrefTyped'
  <2>1. /\ theirs' = [field |-> f, at |-> clock + 1, first |-> first \/ server = Nil]
        /\ UNCHANGED <<mine, server, queue, saver, sync, hist>> /\ clock' = clock + 1
    BY <1>1 DEF TheyChoose, Tick
  <2>2. clock' \in Nat /\ theirs' \in [field : Fields, at : Nat, first : BOOLEAN]
        /\ theirs'.first = (first \/ server = Nil)
    BY <2>1 DEF PrefTypeOK
  <2>3. left' \in [saves : 0..MaxSaves, theirs : 0..MaxTheirs, syncs : 0..MaxSyncs,
                   failures : 0..MaxFailures]
    BY <1>1, PrefBoundsAssumption DEF TheyChoose, PrefTypeOK
  <2>4. PrefTypeOK'
    BY <2>1, <2>2, <2>3 DEF PrefTypeOK
  <2>5. Placed'
    BY <2>1, <2>2 DEF Placed, Pushing, Syncing, Saving
  <2>6. QED
    BY <2>4, <2>5
<1>2. ASSUME TheySend PROVE PrefTyped'
  <2> DEFINE new == [choice |-> theirs.at, stamp |-> theirs.at]
  <2> DEFINE of == [f \in Fields |->
                  IF theirs.first THEN IF f = theirs.field THEN new ELSE [new EXCEPT !.choice = 0]
                  ELSE IF f = theirs.field /\ (server.of[f].stamp = Nil \/ server.of[f].stamp < theirs.at)
                       THEN new ELSE server.of[f]]
  <2> DEFINE others == server # Nil \/ mine # Nil \/ \E s \in Savers : ~Saving(s, "idle")
  <2> DEFINE slips == IF theirs.first /\ others THEN hist.slips \union {"first save"}
                                                ELSE hist.slips
  <2>1. /\ theirs # Nil /\ server' = [of |-> of, updated |-> clock + 1]
        /\ hist' = [hist EXCEPT !.slips = slips] /\ theirs' = Nil /\ clock' = clock + 1
        /\ UNCHANGED <<mine, queue, saver, sync, left>>
    BY <1>2 DEF TheySend, Tick
  <2>2. theirs.at \in Nat /\ (theirs.first \/ server \in PrefDoc)
    BY <2>1 DEF PrefTypeOK, Placed
  <2>3. theirs.first \/ server.of \in Values
    BY <2>2 DEF PrefDoc
  <2>4. of \in Values
    BY <2>2, <2>3 DEF Values, Value
  <2> HIDE DEF of
  <2>5. slips \subseteq Slips
    BY DEF PrefTypeOK, Slips
  <2> HIDE DEF slips
  <2>6. hist' \in History
    BY <2>1, <2>5 DEF PrefTypeOK, History
  <2>7. server' \in PrefDoc /\ clock' \in Nat
    BY <2>1, <2>4 DEF PrefDoc, PrefTypeOK
  <2>8. PrefTypeOK'
    BY <2>1, <2>6, <2>7 DEF PrefTypeOK, History
  <2>9. Placed'
    BY <2>1, <2>7 DEF Placed, Pushing, Syncing, Saving
  <2>10. QED
    BY <2>8, <2>9
<1>3. QED
  BY <1>1, <1>2

LEMMA PrefBegins == PrefInit => PrefTyped
<1> SUFFICES ASSUME PrefInit PROVE PrefTyped
  OBVIOUS
<1>1. mine \in PrefRow \union {Nil} /\ server \in PrefDoc \union {Nil}
  <2>1. /\ [of |-> Unmarked, updated |-> 1, synced |-> TRUE, base |-> 1] \in PrefRow
        /\ [of |-> Unmarked, updated |-> 1] \in PrefDoc
    BY Blanks DEF PrefRow, PrefDoc
  <2>2. QED
    BY <2>1 DEF PrefInit
<1>2. /\ saver \in [Savers -> SaveCall] /\ sync \in SyncRun /\ sync.at = "idle"
      /\ \A s \in Savers : saver[s].at = "idle"
  BY Blanks DEF PrefInit, IdleSaver, IdleSync
<1>3. PrefTypeOK
  BY <1>1, <1>2, PrefBoundsAssumption DEF PrefInit, PrefTypeOK, Slips
<1>4. Placed
  BY <1>2 DEF PrefInit, Placed, Pushing, Syncing, Saving
<1>5. QED
  BY <1>3, <1>4 DEF PrefTyped

LEMMA PrefTyping == PrefTyped /\ [PrefNext]_prefVars => PrefTyped'
<1> SUFFICES ASSUME PrefTyped, [PrefNext]_prefVars PROVE PrefTyped'
  OBVIOUS
<1>1. ASSUME NEW s \in Savers, PrefSave(s) PROVE PrefTyped'
  BY <1>1, SavesTyped
<1>2. CASE PrefSync
  BY <1>2, SyncTyped
<1>3. saver \in [Savers -> SaveCall] /\ [s \in Savers |-> IdleSaver] \in [Savers -> SaveCall]
  BY Blanks DEF PrefTyped, PrefTypeOK
<1>4. CASE SyncFails \/ ReplyLost
  BY <1>3, <1>4, BreaksTyped DEF SyncFails, ReplyLost
<1>5. CASE PrefDies
  BY <1>3, <1>5, BreaksTyped DEF PrefDies
<1>6. CASE (\E f \in Fields, first \in BOOLEAN : TheyChoose(f, first)) \/ TheySend
  BY <1>6, TheirsTyped
<1>7. CASE UNCHANGED prefVars
  BY <1>7 DEF prefVars, PrefTyped, PrefTypeOK, Placed, Pushing, Syncing, Saving
<1>8. QED
  BY <1>1, <1>2, <1>4, <1>5, <1>6, <1>7 DEF PrefNext

-----------------------------------------------------------------------------
(* What a step keeps of the invariant                                       *)

LEMMA Numbers ==
  ASSUME NEW of \in Values PROVE \A f \in Fields : of[f].choice \in Nat
BY DEF Values, Value

(* Every record of a state has numbers for choices.                         *)
LEMMA AllNumbers ==
  ASSUME PrefTyped
  PROVE  \A f \in Fields :
           /\ mine # Nil => mine.of[f].choice \in Nat
           /\ server # Nil => server.of[f].choice \in Nat
           /\ queue # Nil => queue.of[f].choice \in Nat
           /\ sync.op # Nil => sync.op.of[f].choice \in Nat
           /\ sync.rec # Nil => sync.rec.of[f].choice \in Nat
           /\ sync.row # Nil => sync.row.of[f].choice \in Nat
           /\ \A s \in Savers :
                /\ saver[s].seen # Nil => saver[s].seen.of[f].choice \in Nat
                /\ saver[s].row # Nil => saver[s].row.of[f].choice \in Nat
<1>1. /\ mine # Nil => mine.of \in Values
      /\ server # Nil => server.of \in Values
      /\ queue # Nil => queue.of \in Values
  BY DEF PrefTyped, PrefTypeOK, PrefRow, PrefDoc, PrefOp
<1>2. /\ sync.op # Nil => sync.op.of \in Values
      /\ sync.rec # Nil => sync.rec.of \in Values
      /\ sync.row # Nil => sync.row.of \in Values
  <2>1. /\ sync.op \in PrefOp \union {Nil}
        /\ sync.rec \in PrefDoc \union {Nil}
        /\ sync.row \in PrefRow \union {Nil}
    BY DEF PrefTyped, PrefTypeOK, SyncRun
  <2>2. QED
    BY <2>1 DEF PrefRow, PrefDoc, PrefOp
<1>3. \A s \in Savers : /\ saver[s].seen # Nil => saver[s].seen.of \in Values
                        /\ saver[s].row # Nil => saver[s].row.of \in Values
  <2>1. \A s \in Savers : /\ saver[s].seen \in PrefRow \union {Nil}
                          /\ saver[s].row \in PrefRow \union {Nil}
    BY DEF PrefTyped, PrefTypeOK, SaveCall
  <2>2. QED
    BY <2>1 DEF PrefRow
<1>4. QED
  BY <1>1, <1>2, <1>3, Numbers

(* A step that moves the run only, to a place that has in hand what the     *)
(* invariant asks.                                                          *)
LEMMA RunMoves ==
  ASSUME PrefInv, PrefTyped',
         UNCHANGED <<clock, mine, server, queue, saver, theirs, hist>>,
         sync'.op # Nil => Until(sync'.op.of) /\ sync'.op.key < clock,
         sync'.rec # Nil => Until(sync'.rec.of) /\ Told(sync'.rec.of),
         sync'.row # Nil => Until(sync'.row.of),
         sync'.at # "settle",
         sync'.at = "upsert" =>
           \A f \in Fields :
             Ours(sync'.row.of[f].choice) /\ sync'.row.of[f].choice \notin hist.sent =>
               sync'.seen # Nil /\ sync'.seen.of[f].choice = sync'.row.of[f].choice,
         "overtaken" \notin hist.slips => Carried'
  PROVE  PrefInv'
<1>1. UNCHANGED <<clock, mine, server, queue, saver, theirs, hist>>
  OBVIOUS
<1>2. Dated'
  BY <1>1 DEF PrefInv, Dated, Until, Ours, Pending, Saving
<1>3. Known'
  BY <1>1 DEF PrefInv, Known, Told, Ours, Pending, Saving, Syncing
<1>4. OwnChoiceIsQueued'
  BY <1>1 DEF PrefInv, OwnChoiceIsQueued
<1>5. ("overtaken" \notin hist.slips => Carried)'
  BY <1>1
<1>6. QED
  BY <1>2, <1>3, <1>4, <1>5 DEF PrefInv

LEMMA PrefStarts == PrefInit => PrefInv
<1> SUFFICES ASSUME PrefInit PROVE PrefInv
  OBVIOUS
<1>1. /\ sync.at = "idle" /\ sync.op = Nil /\ sync.rec = Nil /\ sync.row = Nil
      /\ \A s \in Savers : saver[s].at = "idle" /\ saver[s].seen = Nil
      /\ hist.own = {} /\ queue = Nil /\ theirs = Nil /\ clock = 1
  BY DEF PrefInit, IdleSync, IdleSaver
<1>2. /\ mine # Nil => \A f \in Fields : mine.of[f].choice = 0
      /\ server # Nil => \A f \in Fields : server.of[f].choice = 0
  BY DEF PrefInit, Unmarked, Default
<1>3. \A n : ~Ours(n)
  BY <1>1 DEF Ours, Pending, Saving
<1>4. Dated
  BY <1>1, <1>2 DEF Dated, Until, Saving
<1>5. Known
  BY <1>1, <1>3 DEF Known, Told, Syncing
<1>6. OwnChoiceIsQueued /\ Carried
  BY <1>1 DEF OwnChoiceIsQueued, Carried, Pushing
<1>7. QED
  BY <1>4, <1>5, <1>6, PrefBegins DEF PrefInv

LEMMA Stamped ==
  ASSUME PrefTyped
  PROVE  /\ clock \in Nat
         /\ queue # Nil => queue.key \in Nat
         /\ sync.op # Nil => sync.op.key \in Nat
         /\ theirs # Nil => theirs.at \in Nat
         /\ \A s \in Savers : Saving(s, "locked") => saver[s].row.updated \in Nat
<1> USE DEF PrefTyped, PrefTypeOK
<1>1. queue # Nil => queue.key \in Nat
  BY DEF PrefOp
<1>2. sync.op # Nil => sync.op.key \in Nat
  BY DEF PrefOp, SyncRun
<1>3. \A s \in Savers : Saving(s, "locked") => saver[s].row \in PrefRow
  BY DEF SaveCall, Placed
<1>4. QED
  BY <1>1, <1>2, <1>3 DEF PrefRow

(* What is of a time past stays so.                                         *)
LEMMA Ticks ==
  ASSUME PrefTyped, Dated
  PROVE  /\ clock + 1 \in Nat /\ clock < clock + 1 /\ clock <= clock + 1
         /\ \A n : n \in 1..clock => n \in 1..(clock + 1)
         /\ \A f \in Fields :
              /\ mine # Nil => mine.of[f].choice <= clock + 1
              /\ server # Nil => server.of[f].choice <= clock + 1
              /\ queue # Nil => queue.of[f].choice <= clock + 1
              /\ sync.op # Nil => sync.op.of[f].choice <= clock + 1
              /\ sync.rec # Nil => sync.rec.of[f].choice <= clock + 1
              /\ sync.row # Nil => sync.row.of[f].choice <= clock + 1
              /\ \A s \in Savers :
                   /\ saver[s].seen # Nil => saver[s].seen.of[f].choice <= clock + 1
                   /\ Saving(s, "locked") => saver[s].row.of[f].choice <= clock + 1
         /\ queue # Nil => queue.key < clock + 1
         /\ sync.op # Nil => sync.op.key < clock + 1
         /\ \A s \in Savers : Saving(s, "locked") => saver[s].row.updated \in 1..(clock + 1)
         /\ hist.own \subseteq 1..(clock + 1)
         /\ theirs # Nil => theirs.at <= clock + 1
<1>1. clock \in Nat
  BY Stamped
<1>2. \A s \in Savers : Saving(s, "locked") => saver[s].row # Nil
  BY DEF PrefTyped, Placed
<1>3. \A n \in Nat : /\ n <= clock => n <= clock + 1
                     /\ n < clock => n < clock + 1
  BY <1>1
<1>4. \A n : n \in 1..clock => n \in 1..(clock + 1)
  BY <1>1
<1>5. \A f \in Fields :
        /\ mine # Nil => mine.of[f].choice <= clock + 1
        /\ server # Nil => server.of[f].choice <= clock + 1
        /\ queue # Nil => queue.of[f].choice <= clock + 1
        /\ sync.op # Nil => sync.op.of[f].choice <= clock + 1
        /\ sync.rec # Nil => sync.rec.of[f].choice <= clock + 1
        /\ sync.row # Nil => sync.row.of[f].choice <= clock + 1
  BY <1>3, AllNumbers DEF Dated, Until
<1>6. \A f \in Fields, s \in Savers :
        /\ saver[s].seen # Nil => saver[s].seen.of[f].choice <= clock + 1
        /\ Saving(s, "locked") => saver[s].row.of[f].choice <= clock + 1
  BY <1>2, <1>3, AllNumbers DEF Dated, Until
<1>7. /\ queue # Nil => queue.key < clock + 1
      /\ sync.op # Nil => sync.op.key < clock + 1
      /\ theirs # Nil => theirs.at <= clock + 1
  BY <1>3, Stamped DEF Dated
<1>8. /\ \A s \in Savers : Saving(s, "locked") => saver[s].row.updated \in 1..(clock + 1)
      /\ hist.own \subseteq 1..(clock + 1)
  BY <1>4 DEF Dated
<1>9. QED
  BY <1>1, <1>4, <1>5, <1>6, <1>7, <1>8

LEMMA SyncKeeps ==
  ASSUME PrefInv, PrefSync
  PROVE  PrefInv'
<1>0. /\ PrefTyped /\ PrefTyped' /\ Dated /\ Known /\ OwnChoiceIsQueued
      /\ "overtaken" \notin hist.slips => Carried
      /\ sync \in SyncRun /\ clock \in Nat
  BY SyncTyped DEF PrefInv, PrefTyped, PrefTypeOK
<1> USE NilAssumption, NilIsNothing
<1>1. CASE SyncStarts
  <2>1. sync' = [IdleSync EXCEPT !.op = queue, !.at = IF queue = Nil THEN "list" ELSE "examine"]
        /\ UNCHANGED <<clock, mine, server, queue, saver, theirs, hist>>
    BY <1>1 DEF SyncStarts
  <2>2. /\ sync'.op = queue /\ sync'.rec = Nil /\ sync'.row = Nil
        /\ sync'.at \in {"list", "examine"}
    BY <2>1 DEF IdleSync
  <2>3. sync'.op # Nil => Until(sync'.op.of) /\ sync'.op.key < clock
    BY <1>0, <2>2 DEF Dated
  <2>4. Carried'
    BY <2>1, <2>2 DEF Carried
  <2>5. QED
    BY <1>0, <2>1, <2>2, <2>3, <2>4, RunMoves
<1>2. CASE SyncExamines
  <2>1. OnlySync /\ Syncing("examine")
    BY <1>2 DEF SyncExamines
  <2>2. \/ sync' = [sync EXCEPT !.at = "send"]
        \/ sync' = [sync EXCEPT !.at = "probe", !.seen = mine]
    BY <1>2 DEF SyncExamines, Moves
  <2>3. /\ sync'.op = sync.op /\ sync'.rec = sync.rec /\ sync'.row = sync.row
        /\ sync'.at \in {"send", "probe"}
    BY <1>0, <2>2 DEF SyncRun
  <2>4. "overtaken" \notin hist.slips => Carried'
    BY <1>0, <2>1, <2>3 DEF Carried, Pushing, Syncing, OnlySync
  <2>5. UNCHANGED <<clock, mine, server, queue, saver, theirs, hist>>
    BY <2>1 DEF OnlySync
  <2>6. QED
    BY <1>0, <2>3, <2>4, <2>5, RunMoves DEF Dated, Known
<1>3. CASE SyncProbes
  <2>1. OnlySync /\ Syncing("probe")
    BY <1>3 DEF SyncProbes
  <2>2. \/ sync' = [sync EXCEPT !.at = "send", !.seen = Nil]
        \/ server # Nil /\ sync' = [sync EXCEPT !.at = "judge", !.seen = Nil, !.rec = server]
    BY <1>3 DEF SyncProbes
  <2>3. /\ sync'.op = sync.op /\ sync'.row = sync.row /\ sync'.at \in {"send", "judge"}
        /\ sync'.rec = sync.rec \/ sync'.rec = server
    BY <1>0, <2>2 DEF SyncRun
  <2>4. "overtaken" \notin hist.slips => Carried'
    BY <1>0, <2>1, <2>3 DEF Carried, Pushing, Syncing, OnlySync
  <2>5. UNCHANGED <<clock, mine, server, queue, saver, theirs, hist>>
    BY <2>1 DEF OnlySync
  <2>6. sync'.rec # Nil => Until(sync'.rec.of) /\ Told(sync'.rec.of)
    BY <1>0, <2>3 DEF Dated, Known
  <2>7. QED
    BY <1>0, <2>3, <2>4, <2>5, <2>6, RunMoves DEF Dated
<1>4. CASE SyncJudges
  <2> DEFINE copy == Merged(mine, sync.rec)
  <2>1. OnlySync /\ Syncing("judge")
    BY <1>4 DEF SyncJudges
  <2>2. /\ sync.rec \in PrefDoc /\ mine \in PrefRow \union {Nil}
    BY <1>0, <2>1 DEF PrefTyped, PrefTypeOK, Placed, Syncing, SyncRun
  <2>3. \A f \in Fields : \/ copy.of[f].choice = sync.rec.of[f].choice
                          \/ mine # Nil /\ copy.of[f].choice = mine.of[f].choice
    BY <2>2, MergedTyped
  <2>4. \/ sync' = [sync EXCEPT !.at = "upsert", !.rec = Nil, !.seen = mine, !.row = copy]
        \/ sync.push /\ sync' = [sync EXCEPT !.at = "send", !.rec = Nil]
        \/ sync' = IdleSync
    BY <1>4 DEF SyncJudges
  <2> HIDE DEF copy
  <2>5. UNCHANGED <<clock, mine, server, queue, saver, theirs, hist>>
    BY <2>1 DEF OnlySync
  <2>6. sync.rec # Nil /\ Until(sync.rec.of) /\ Told(sync.rec.of) /\ (mine # Nil => Until(mine.of))
    BY <1>0, <2>1 DEF Dated, Known, PrefTyped, Placed, Syncing
  <2>7. CASE sync' = [sync EXCEPT !.at = "upsert", !.rec = Nil, !.seen = mine, !.row = copy]
    <3>1. /\ sync'.op = sync.op /\ sync'.rec = Nil /\ sync'.row = copy /\ sync'.seen = mine
          /\ sync'.at = "upsert" /\ sync'.push = sync.push
      BY <1>0, <2>7 DEF SyncRun
    <3>2. Until(copy.of)
      BY <2>3, <2>6 DEF Until
    <3>3. \A f \in Fields : Ours(copy.of[f].choice) /\ copy.of[f].choice \notin hist.sent =>
            mine # Nil /\ mine.of[f].choice = copy.of[f].choice
      BY <2>3, <2>6 DEF Told
    <3>4. "overtaken" \notin hist.slips => Carried'
      BY <1>0, <2>1, <2>5, <3>1 DEF Carried, Pushing, Syncing
    <3>5. QED
      BY <1>0, <2>5, <3>1, <3>2, <3>3, <3>4, RunMoves DEF Dated
  <2>8. CASE sync.push /\ sync' = [sync EXCEPT !.at = "send", !.rec = Nil]
    <3>1. sync'.op = sync.op /\ sync'.rec = Nil /\ sync'.row = sync.row /\ sync'.at = "send"
      BY <1>0, <2>8 DEF SyncRun
    <3>2. "overtaken" \notin hist.slips => Carried'
      BY <1>0, <2>1, <2>5, <2>8, <3>1 DEF Carried, Pushing, Syncing
    <3>3. QED
      BY <1>0, <2>5, <3>1, <3>2, RunMoves DEF Dated
  <2>9. CASE sync' = IdleSync
    <3>1. sync'.op = Nil /\ sync'.rec = Nil /\ sync'.row = Nil /\ sync'.at = "idle"
      BY <2>9 DEF IdleSync
    <3>2. Carried'
      BY <3>1 DEF Carried, Pushing
    <3>3. QED
      BY <1>0, <2>5, <3>1, <3>2, RunMoves
  <2>10. QED
    BY <2>4, <2>7, <2>8, <2>9
<1>5. CASE SyncUpserts
  <2>1. /\ Syncing("upsert") /\ SetsRow(sync.row, Overtaken(sync.seen), {})
        /\ sync' = [sync EXCEPT !.at = IF sync.push THEN "rebuild" ELSE "refresh",
                                !.seen = Nil, !.row = Nil]
        /\ UNCHANGED <<clock, server, queue, saver, theirs, left>>
    BY <1>5 DEF SyncUpserts
  <2>2. sync.row \in PrefRow /\ sync.row # Nil
    BY <1>0, <2>1 DEF PrefTyped, Placed, Syncing, SyncRun
  <2>3. /\ mine' = sync.row /\ hist'.own = hist.own /\ hist'.sent = hist.sent
        /\ "overtaken" \notin hist'.slips =>
             "overtaken" \notin hist.slips /\ ~Overtaken(sync.seen)
    <3> DEFINE overtaken == Overtaken(sync.seen)
    <3>1. SetsRow(sync.row, overtaken, {}) /\ PrefTypeOK /\ {} \in SUBSET Nat
      BY <1>0, <2>1 DEF PrefTyped
    <3> HIDE DEF overtaken
    <3>2. /\ mine' = sync.row /\ hist'.own = hist.own \union {} /\ hist'.sent = hist.sent
          /\ "overtaken" \notin hist'.slips => "overtaken" \notin hist.slips /\ ~overtaken
      BY <2>2, <3>1, RowSet
    <3>3. QED
      BY <3>2 DEF overtaken
  <2>4. /\ sync'.op = sync.op /\ sync'.rec = sync.rec /\ sync'.row = Nil
        /\ sync'.at = IF sync.push THEN "rebuild" ELSE "refresh"
    BY <1>0, <2>1 DEF SyncRun
  <2>5. Dated'
    BY <1>0, <2>1, <2>2, <2>3, <2>4 DEF Dated, Until, Ours, Pending, Saving
  <2>6. Known'
    BY <1>0, <2>1, <2>3, <2>4 DEF Known, Told, Ours, Pending, Saving, Syncing
  <2>7. ASSUME "overtaken" \notin hist'.slips, NEW f \in Fields,
               sync.row.of[f].choice \in hist.own \ hist.sent
        PROVE  mine # Nil /\ mine.of[f].choice = sync.row.of[f].choice
    <3>1. sync.seen # Nil /\ sync.seen.of[f].choice = sync.row.of[f].choice
      BY <1>0, <2>1, <2>7 DEF Known, Ours
    <3>2. mine # Nil /\ sync.seen.of = mine.of
      BY <2>3, <2>7, <3>1 DEF Overtaken
    <3>3. QED
      BY <3>1, <3>2
  <2>8. OwnChoiceIsQueued'
    BY <1>0, <2>1, <2>3, <2>7 DEF OwnChoiceIsQueued
  <2>9. ("overtaken" \notin hist.slips => Carried)'
    <3> SUFFICES ASSUME "overtaken" \notin hist'.slips, Pushing', queue # Nil,
                        queue.key = sync.op.key, NEW f \in Fields,
                        queue.of[f].choice \in hist.own \ hist.sent,
                        sync.row.of[f].choice = queue.of[f].choice
                 PROVE  sync.op.of[f].choice = queue.of[f].choice
      BY <2>1, <2>3, <2>4 DEF Carried
    <3>1. sync.push /\ Carried
      BY <1>0, <2>3, <2>4 DEF Pushing
    <3>2. QED
      BY <2>1, <2>7, <3>1 DEF Carried, Pushing, Syncing
  <2>10. QED
    BY <1>0, <2>5, <2>6, <2>8, <2>9 DEF PrefInv
<1>6. CASE SyncRebuilds
  <2>1. OnlySync /\ Syncing("rebuild")
    BY <1>6 DEF SyncRebuilds
  <2>2. sync.op \in PrefOp /\ mine \in PrefRow
    BY <1>0, <2>1 DEF PrefTyped, PrefTypeOK, Placed, Pushing, Syncing, SyncRun
  <2> DEFINE op == [sync.op EXCEPT !.of = mine.of, !.updated = mine.updated]
  <2>3. op.of = mine.of /\ op.key = sync.op.key
    BY <2>2 DEF PrefOp
  <2>4. sync' = [sync EXCEPT !.at = "send", !.op = op]
    BY <1>0, <1>6, <2>2 DEF SyncRebuilds, SyncRun, PrefOp
  <2> HIDE DEF op
  <2>5. sync'.op = op /\ sync'.rec = sync.rec /\ sync'.row = sync.row /\ sync'.at = "send"
    BY <1>0, <2>4 DEF SyncRun
  <2>6. UNCHANGED <<clock, mine, server, queue, saver, theirs, hist>>
    BY <2>1 DEF OnlySync
  <2>7. Carried'
    BY <2>3, <2>5, <2>6 DEF Carried
  <2>8. Until(op.of) /\ op.key < clock
    BY <1>0, <2>2, <2>3 DEF Dated
  <2>9. QED
    BY <1>0, <2>5, <2>6, <2>7, <2>8, RunMoves DEF Dated, Known
<1>7. CASE SyncSends
  <2> DEFINE sent == hist.sent \union {sync.op.of[f].choice : f \in Fields}
  <2>1. /\ Syncing("send")
        /\ server' = [of |-> sync.op.of, updated |-> clock + 1]
        /\ sync' = [sync EXCEPT !.at = "settle", !.rec = server']
        /\ hist' = [hist EXCEPT !.sent = sent]
        /\ clock' = clock + 1
        /\ UNCHANGED <<mine, queue, saver, theirs, left>>
    BY <1>7 DEF SyncSends, Tick
  <2>2. sync.op \in PrefOp /\ sync.op # Nil
    BY <1>0, <2>1 DEF PrefTyped, Placed, Pushing, Syncing, SyncRun
  <2>3. /\ sync'.op = sync.op /\ sync'.rec = server' /\ sync'.row = sync.row
        /\ sync'.at = "settle" /\ server'.of = sync.op.of
    BY <1>0, <2>1 DEF SyncRun
  <2>4. /\ hist'.own = hist.own /\ hist'.sent = sent /\ hist'.slips = hist.slips
    BY <1>0, <2>1 DEF PrefTyped, PrefTypeOK
  <2>5. \A f \in Fields : sync.op.of[f].choice \in sent
    OBVIOUS
  <2>6. hist.sent \subseteq sent
    OBVIOUS
  <2> HIDE DEF sent
  <2>7. Until(sync.op.of)
    BY <1>0, <2>2 DEF Dated
  <2>8. Dated'
    BY <1>0, <2>1, <2>2, <2>3, <2>4, Ticks DEF Dated, Until, Ours, Pending, Saving
  <2>9. Known'
    BY <1>0, <2>1, <2>3, <2>4, <2>5 DEF Known, Told, Syncing
  <2>10. OwnChoiceIsQueued'
    BY <1>0, <2>1, <2>4, <2>6 DEF OwnChoiceIsQueued
  <2>11. ("overtaken" \notin hist.slips => Carried)'
    BY <1>0, <2>1, <2>3, <2>4, <2>6 DEF Carried, Pushing, Syncing
  <2>12. QED
    BY <1>0, <2>8, <2>9, <2>10, <2>11 DEF PrefInv
<1>8. CASE SyncSettles
  <2>1. /\ Syncing("settle") /\ sync' = [sync EXCEPT !.at = "adopt"]
        /\ queue' = IF queue # Nil /\ queue.key = sync.op.key THEN Nil ELSE queue
        /\ UNCHANGED <<clock, mine, server, saver, theirs, left, hist>>
    BY <1>8 DEF SyncSettles, Moves
  <2>2. /\ sync'.op = sync.op /\ sync'.rec = sync.rec /\ sync'.row = sync.row
        /\ sync'.at = "adopt"
    BY <1>0, <2>1 DEF SyncRun
  <2>3. Dated'
    BY <1>0, <2>1, <2>2 DEF Dated, Until, Ours, Pending, Saving
  <2>4. Known'
    BY <1>0, <2>1, <2>2 DEF Known, Told, Ours, Pending, Saving, Syncing
  <2>5. OwnChoiceIsQueued'
    <3> SUFFICES ASSUME mine # Nil, "overtaken" \notin hist.slips, NEW f \in Fields,
                        mine.of[f].choice \in hist.own \ hist.sent
                 PROVE  queue' # Nil /\ queue'.of[f].choice = mine.of[f].choice
      BY <2>1 DEF OwnChoiceIsQueued
    <3>1. queue # Nil /\ queue.of[f].choice = mine.of[f].choice
      BY <1>0 DEF OwnChoiceIsQueued
    <3>2. sync.op.of[f].choice \in hist.sent
      BY <1>0, <2>1 DEF Known
    <3>3. queue.key # sync.op.key
      BY <1>0, <2>1, <3>1, <3>2 DEF Carried, Pushing, Syncing
    <3>4. QED
      BY <2>1, <3>1, <3>3
  <2>6. Carried'
    BY <2>2 DEF Carried
  <2>7. QED
    BY <1>0, <2>3, <2>4, <2>5, <2>6 DEF PrefInv
<1>9. CASE SyncAdopts
  <2>1. OnlySync
    BY <1>9 DEF SyncAdopts
  <2>2. \/ sync' = [IdleSync EXCEPT !.at = "list"]
        \/ sync' = [sync EXCEPT !.at = "store", !.seen = mine]
    BY <1>9 DEF SyncAdopts
  <2>3. \/ sync'.at = "list" /\ sync'.op = Nil /\ sync'.rec = Nil /\ sync'.row = Nil
        \/ /\ sync'.at = "store"
           /\ sync'.op = sync.op /\ sync'.rec = sync.rec /\ sync'.row = sync.row
    BY <1>0, <2>2 DEF SyncRun, IdleSync
  <2>4. UNCHANGED <<clock, mine, server, queue, saver, theirs, hist>>
    BY <2>1 DEF OnlySync
  <2>5. Carried'
    BY <2>3 DEF Carried, Pushing
  <2>6. QED
    BY <1>0, <2>3, <2>4, <2>5, RunMoves DEF Dated, Known
<1>10. CASE SyncStores
  <2> DEFINE copy == [of |-> sync.rec.of, updated |-> sync.rec.updated, synced |-> TRUE,
                     base |-> sync.rec.updated]
  <2>1. /\ Syncing("store") /\ SetsRow(copy, Overtaken(sync.seen), {})
        /\ sync' = [IdleSync EXCEPT !.at = "list"]
        /\ UNCHANGED <<clock, server, queue, saver, theirs, left>>
    BY <1>10 DEF SyncStores
  <2>2. sync.rec \in PrefDoc /\ sync.rec # Nil
    BY <1>0, <2>1 DEF PrefTyped, Placed, Syncing, SyncRun
  <2>3. copy \in PrefRow /\ copy.of = sync.rec.of
    BY <2>2 DEF PrefDoc, PrefRow
  <2> HIDE DEF copy
  <2>4. /\ mine' = copy /\ hist'.own = hist.own /\ hist'.sent = hist.sent
    <3>1. {} \in SUBSET Nat /\ PrefTypeOK
      BY <1>0 DEF PrefTyped
    <3>2. mine' = copy /\ hist'.own = hist.own \union {} /\ hist'.sent = hist.sent
      BY <2>1, <2>3, <3>1, RowSet
    <3>3. QED
      BY <3>2
  <2>5. sync'.at = "list" /\ sync'.op = Nil /\ sync'.rec = Nil /\ sync'.row = Nil
    BY <2>1 DEF IdleSync
  <2>6. Until(sync.rec.of) /\ Told(sync.rec.of)
    BY <1>0, <2>2 DEF Dated, Known
  <2>7. Dated'
    BY <1>0, <2>1, <2>3, <2>4, <2>5, <2>6 DEF Dated, Until, Ours, Pending, Saving
  <2>8. Known'
    BY <1>0, <2>1, <2>4, <2>5 DEF Known, Told, Ours, Pending, Saving, Syncing
  <2>9. OwnChoiceIsQueued'
    BY <2>3, <2>4, <2>6 DEF OwnChoiceIsQueued, Told, Ours
  <2>10. Carried'
    BY <2>5 DEF Carried, Pushing
  <2>11. QED
    BY <1>0, <2>7, <2>8, <2>9, <2>10 DEF PrefInv
<1>11. CASE SyncLists
  <2>1. OnlySync
    BY <1>11 DEF SyncLists
  <2>2. /\ sync'.op = Nil /\ sync'.row = Nil /\ (sync'.rec = Nil \/ sync'.rec = server)
        /\ sync'.at \in {"idle", "judge"} /\ ~Pushing'
    <3>1. CASE sync' = IdleSync
      BY <3>1 DEF IdleSync, Pushing
    <3>2. CASE sync' = [IdleSync EXCEPT !.at = "judge", !.push = FALSE, !.rec = server]
      BY <3>2 DEF IdleSync, Pushing
    <3>3. QED
      BY <1>11, <3>1, <3>2 DEF SyncLists
  <2>3. UNCHANGED <<clock, mine, server, queue, saver, theirs, hist>>
    BY <2>1 DEF OnlySync
  <2>4. Carried'
    BY <2>2 DEF Carried
  <2>5. QED
    BY <1>0, <2>2, <2>3, <2>4, RunMoves DEF Dated, Known
<1>12. CASE SyncRefreshes
  <2>1. OnlySync
    BY <1>12 DEF SyncRefreshes
  <2>2. \/ sync' = IdleSync
        \/ sync' = [sync EXCEPT !.at = "enqueue", !.row = mine]
    BY <1>12 DEF SyncRefreshes
  <2>3. \/ sync'.at = "idle" /\ sync'.op = Nil /\ sync'.rec = Nil /\ sync'.row = Nil
        \/ /\ sync'.at = "enqueue"
           /\ sync'.op = sync.op /\ sync'.rec = sync.rec /\ sync'.row = mine
    <3>1. CASE sync' = IdleSync
      BY <3>1 DEF IdleSync
    <3>2. CASE sync' = [sync EXCEPT !.at = "enqueue", !.row = mine]
      BY <1>0, <3>2 DEF SyncRun
    <3>3. QED
      BY <2>2, <3>1, <3>2
  <2>4. UNCHANGED <<clock, mine, server, queue, saver, theirs, hist>>
    BY <2>1 DEF OnlySync
  <2>5. Carried'
    BY <2>3 DEF Carried, Pushing
  <2>6. QED
    BY <1>0, <2>3, <2>4, <2>5, RunMoves DEF Dated, Known
<1>13. CASE SyncEnqueues
  <2> DEFINE slips == IF Overtaken(sync.row) THEN hist.slips \union {"overtaken"} ELSE hist.slips
  <2>1. /\ Syncing("enqueue")
        /\ queue' = [key |-> clock, create |-> FALSE, of |-> sync.row.of,
                     updated |-> sync.row.updated]
        /\ hist' = [hist EXCEPT !.slips = slips]
        /\ sync' = IdleSync /\ clock' = clock + 1
        /\ UNCHANGED <<mine, server, saver, theirs, left>>
    BY <1>13 DEF SyncEnqueues, Tick
  <2>2. sync.row \in PrefRow /\ sync.row # Nil /\ mine # Nil
    BY <1>0, <2>1 DEF PrefTyped, Placed, Syncing, SyncRun
  <2>3. queue' \in PrefOp /\ queue'.of = sync.row.of /\ queue'.key = clock
    BY <1>0, <2>1, <2>2 DEF PrefRow, PrefOp
  <2>4. "overtaken" \notin slips => sync.row.of = mine.of
    BY <2>2 DEF Overtaken
  <2> HIDE DEF slips
  <2>5. hist'.own = hist.own /\ hist'.sent = hist.sent /\ hist'.slips = slips
    BY <1>0, <2>1 DEF PrefTyped, PrefTypeOK
  <2>6. sync'.at = "idle" /\ sync'.op = Nil /\ sync'.rec = Nil /\ sync'.row = Nil
    BY <2>1 DEF IdleSync
  <2>7. Until(sync.row.of)
    BY <1>0, <2>2 DEF Dated
  <2>8. Dated'
    BY <1>0, <2>1, <2>2, <2>3, <2>5, <2>6, Ticks DEF Dated, Until, Ours, Pending, Saving
  <2>9. Known'
    BY <1>0, <2>1, <2>5, <2>6 DEF Known, Told, Ours, Pending, Saving, Syncing
  <2>10. OwnChoiceIsQueued'
    BY <2>1, <2>3, <2>4, <2>5 DEF OwnChoiceIsQueued
  <2>11. Carried'
    BY <2>6 DEF Carried, Pushing
  <2>12. QED
    BY <1>0, <2>8, <2>9, <2>10, <2>11 DEF PrefInv
<1>14. QED
  BY <1>1, <1>2, <1>3, <1>4, <1>5, <1>6, <1>7, <1>8, <1>9, <1>10, <1>11, <1>12, <1>13 DEF PrefSync

(* A choice gets the number of the moment at which its save has the lock.   *)
LEMMA SavesKeep ==
  ASSUME PrefInv, NEW s \in Savers, PrefSave(s)
  PROVE  PrefInv'
<1>0. /\ PrefTyped /\ PrefTyped' /\ Dated /\ Known /\ OwnChoiceIsQueued
      /\ "overtaken" \notin hist.slips => Carried
      /\ saver \in [Savers -> SaveCall] /\ saver[s] \in SaveCall /\ clock \in Nat
  BY SavesTyped DEF PrefInv, PrefTyped, PrefTypeOK
<1> USE NilAssumption, NilIsNothing
<1>1. ASSUME UNCHANGED <<clock, mine, server, queue, sync, theirs, hist>>,
             ~Saving(s, "locked"), saver'[s].at # "locked",
             saver'[s].seen # Nil => Until(saver'[s].seen.of),
             \A u \in Savers : u # s => saver'[u] = saver[u]
      PROVE  PrefInv'
  <2>1. \A n : Ours(n)' <=> Ours(n)
    BY <1>1 DEF Ours, Pending, Saving
  <2>2. Dated'
    BY <1>0, <1>1, <2>1 DEF Dated, Until, Saving
  <2>3. Known'
    BY <1>0, <1>1, <2>1 DEF Known, Told, Syncing
  <2>4. OwnChoiceIsQueued' /\ ("overtaken" \notin hist.slips => Carried)'
    BY <1>0, <1>1 DEF OwnChoiceIsQueued, Carried, Pushing, Syncing
  <2>5. QED
    BY <1>0, <2>2, <2>3, <2>4 DEF PrefInv
<1>2. CASE PrefReads(s)
  <2>1. PICK fields \in (SUBSET Fields) \ {{}} :
          saver' = [saver EXCEPT ![s] = [IdleSaver EXCEPT !.at = "read", !.fields = fields,
                                                          !.seen = mine]]
    BY <1>2 DEF PrefReads
  <2>2. /\ saver'[s].at = "read" /\ saver'[s].seen = mine
        /\ \A u \in Savers : u # s => saver'[u] = saver[u]
    BY <1>0, <2>1 DEF IdleSaver
  <2>3. UNCHANGED <<clock, mine, server, queue, sync, theirs, hist>> /\ ~Saving(s, "locked")
    BY <1>2 DEF PrefReads, Saving
  <2>4. QED
    BY <1>0, <1>1, <2>2, <2>3 DEF Dated
<1>3. CASE PrefDiffs(s)
  <2> DEFINE was(f) == IF saver[s].seen = Nil THEN 0 ELSE saver[s].seen.of[f].choice
  <2> DEFINE patch == IF mine = Nil THEN Fields
                      ELSE saver[s].fields \union {f \in Fields : was(f) # mine.of[f].choice}
  <2>1. saver' = [saver EXCEPT ![s] = [@ EXCEPT !.at = "diffed", !.patch = patch]]
    BY <1>0, <1>3 DEF PrefDiffs, SaveCall
  <2> HIDE DEF patch
  <2>2. /\ saver'[s].at = "diffed" /\ saver'[s].seen = saver[s].seen
        /\ \A u \in Savers : u # s => saver'[u] = saver[u]
    BY <1>0, <2>1 DEF SaveCall
  <2>3. UNCHANGED <<clock, mine, server, queue, sync, theirs, hist>> /\ ~Saving(s, "locked")
    BY <1>3 DEF PrefDiffs, Saving
  <2>4. QED
    BY <1>0, <1>1, <2>2, <2>3 DEF Dated
<1>4. CASE PrefLocks(s)
  <2> DEFINE time == clock + 1
  <2> DEFINE call == saver[s]
  <2> DEFINE of == IF mine = Nil THEN Unmarked ELSE mine.of
  <2> DEFINE kept(f) == IF call.seen = Nil THEN 0 ELSE call.seen.of[f].choice
  <2> DEFINE values == [f \in Fields |->
                         IF f \notin call.patch THEN of[f]
                         ELSE [choice |-> IF f \in call.fields THEN time ELSE kept(f),
                               stamp |-> time]]
  <2> DEFINE base == IF mine = Nil THEN Nil ELSE mine.base
  <2> DEFINE copy == [of |-> values, updated |-> time, synced |-> FALSE, base |-> base]
  <2>1. saver' = [saver EXCEPT ![s] = [@ EXCEPT !.at = "locked", !.row = copy,
                                                !.create = (mine = Nil)]]
    BY <1>0, <1>4 DEF PrefLocks, SaveCall
  <2>2. /\ UNCHANGED <<mine, server, queue, sync, theirs, hist>> /\ clock' = time
        /\ ~Saving(s, "locked") /\ call.fields \subseteq call.patch
    BY <1>0, <1>4 DEF PrefLocks, Tick, Saving, PrefTyped, Placed
  <2>3. \A f \in Fields : of[f].choice <= time
    <3>1. Unmarked \in Values /\ \A f \in Fields : Unmarked[f].choice = 0
      BY Blanks DEF Unmarked, Default
    <3>2. QED
      BY <1>0, <3>1, Ticks
  <2>4. \A f \in Fields : kept(f) <= time
    BY <1>0, Ticks
  <2>5. \A f \in Fields : values[f].choice <= time
    BY <1>0, <2>3, <2>4
  <2>6. \A f \in call.fields : values[f].choice = time
    BY <1>0, <2>2 DEF SaveCall
  <2> HIDE DEF values, base
  <2>7. copy.of = values /\ copy.updated = time
    OBVIOUS
  <2> HIDE DEF copy
  <2>8. /\ saver'[s].at = "locked" /\ saver'[s].row = copy
        /\ saver'[s].seen = call.seen /\ saver'[s].fields = call.fields
        /\ \A u \in Savers : u # s => saver'[u] = saver[u]
    BY <1>0, <2>1 DEF SaveCall
  <2>9. \A n : Ours(n)' => Ours(n) \/ n = time
    BY <2>2, <2>7, <2>8 DEF Ours, Pending, Saving
  <2>10. \A n : n <= clock => n # time
    BY <1>0
  <2>11. Dated'
    <3>1. \A u \in Savers :
            /\ saver'[u].seen # Nil => \A f \in Fields : saver'[u].seen.of[f].choice <= time
            /\ saver'[u].at = "locked" =>
                 /\ \A f \in Fields : saver'[u].row.of[f].choice <= time
                 /\ saver'[u].row.updated \in 1..time
                 /\ \A f \in saver'[u].fields : saver'[u].row.of[f].choice = saver'[u].row.updated
      <4> SUFFICES ASSUME NEW u \in Savers
                   PROVE /\ saver'[u].seen # Nil => \A f \in Fields : saver'[u].seen.of[f].choice <= time
                         /\ saver'[u].at = "locked" =>
                              /\ \A f \in Fields : saver'[u].row.of[f].choice <= time
                              /\ saver'[u].row.updated \in 1..time
                              /\ \A f \in saver'[u].fields :
                                   saver'[u].row.of[f].choice = saver'[u].row.updated
        OBVIOUS
      <4>1. CASE u # s
        BY <1>0, <2>8, <4>1, Ticks DEF Dated, Saving
      <4>2. CASE u = s
        BY <1>0, <2>5, <2>6, <2>7, <2>8, <4>2, Ticks
      <4>3. QED
        BY <4>1, <4>2
    <3>2. theirs # Nil => theirs.at <= time /\ ~Ours(theirs.at)'
      BY <1>0, <2>2, <2>9, <2>10, Ticks DEF Dated
    <3>3. QED
      BY <1>0, <2>2, <3>1, <3>2, Ticks DEF Dated, Until, Saving
  <2>12. Known'
    <3>1. /\ server # Nil => \A f \in Fields : server.of[f].choice # time
          /\ sync.rec # Nil => \A f \in Fields : sync.rec.of[f].choice # time
          /\ sync.row # Nil => \A f \in Fields : sync.row.of[f].choice # time
      BY <1>0, <2>10 DEF Dated, Until
    <3>2. sync.at = "upsert" => sync.row # Nil
      BY <1>0 DEF PrefTyped, Placed
    <3>3. QED
      BY <1>0, <2>2, <2>9, <3>1, <3>2 DEF Known, Told, Syncing
  <2>13. OwnChoiceIsQueued' /\ ("overtaken" \notin hist.slips => Carried)'
    BY <1>0, <2>2 DEF OwnChoiceIsQueued, Carried, Pushing, Syncing
  <2>14. QED
    BY <1>0, <2>11, <2>12, <2>13 DEF PrefInv
<1>5. CASE PrefCommits(s)
  <2> DEFINE call == saver[s]
  <2> DEFINE copy == IF mine = Nil THEN call.row
             ELSE [call.row EXCEPT
                    !.updated = IF @ > mine.updated THEN @ ELSE mine.updated + 1,
                    !.base = IF mine.base # Nil THEN mine.base ELSE @]
  <2> DEFINE made == {copy.of[f].choice : f \in call.fields}
  <2>1. /\ SetsRow(copy, Overtaken(call.seen), made)
        /\ queue' = [key |-> clock, create |-> call.create, of |-> copy.of, updated |-> copy.updated]
        /\ saver' = [saver EXCEPT ![s] = IdleSaver]
        /\ clock' = clock + 1
        /\ UNCHANGED <<server, sync, theirs, left>>
        /\ call.at = "locked"
    BY <1>5 DEF PrefCommits, Tick, Saving
  <2>2. call.row \in PrefRow /\ call.row # Nil /\ mine \in PrefRow \union {Nil}
    BY <1>0, <2>1 DEF PrefTyped, PrefTypeOK, Placed, SaveCall, Saving
  <2>3. copy \in PrefRow /\ copy.of = call.row.of
    BY <2>2, Renumbered
  <2> HIDE DEF copy
  <2>4. copy.of \in Values /\ call.fields \subseteq Fields
    BY <1>0, <2>3 DEF PrefRow, SaveCall
  <2>5. made \subseteq Nat
    BY <2>4 DEF Values, Value
  <2>6. made \subseteq {call.row.updated}
    BY <1>0, <2>1, <2>3 DEF Dated, Saving
  <2>7. call.row.updated \in 1..clock /\ Pending(call.row.updated)
    BY <1>0, <2>1 DEF Dated, Saving, Pending
  <2> HIDE DEF made
  <2>8. /\ mine' = copy /\ hist'.own = hist.own \union made /\ hist'.sent = hist.sent
    <3>1. PrefTypeOK
      BY <1>0 DEF PrefTyped
    <3>2. QED
      BY <2>1, <2>3, <2>5, <3>1, RowSet
  <2>9. queue' # Nil /\ queue'.of = copy.of /\ queue'.key = clock
    <3>1. queue' \in PrefOp
      BY <1>0, <2>1, <2>3 DEF PrefRow, PrefOp, SaveCall
    <3>2. QED
      BY <2>1, <3>1
  <2>10. /\ saver'[s].at = "idle" /\ saver'[s].seen = Nil
         /\ \A u \in Savers : u # s => saver'[u] = saver[u]
    BY <1>0, <2>1 DEF IdleSaver
  <2>11. \A n : Ours(n)' => Ours(n)
    BY <2>6, <2>7, <2>8, <2>10 DEF Ours, Pending, Saving
  <2>12. \A f \in Fields : copy.of[f].choice <= clock + 1
    BY <1>0, <2>1, <2>3, Ticks DEF Saving
  <2>13. Dated'
    <3>1. hist'.own \subseteq 1..(clock + 1)
      BY <1>0, <2>6, <2>7, <2>8, Ticks
    <3>2. \A u \in Savers :
            /\ saver'[u].seen # Nil => \A f \in Fields : saver'[u].seen.of[f].choice <= clock + 1
            /\ saver'[u].at = "locked" =>
                 /\ \A f \in Fields : saver'[u].row.of[f].choice <= clock + 1
                 /\ saver'[u].row.updated \in 1..(clock + 1)
                 /\ \A f \in saver'[u].fields : saver'[u].row.of[f].choice = saver'[u].row.updated
      BY <1>0, <2>10, Ticks DEF Dated, Saving
    <3>3. theirs # Nil => theirs.at <= clock + 1 /\ ~Ours(theirs.at)'
      BY <1>0, <2>1, <2>11, Ticks DEF Dated
    <3>4. QED
      BY <1>0, <2>1, <2>8, <2>9, <2>12, <3>1, <3>2, <3>3, Ticks DEF Dated, Until, Saving
  <2>14. Known'
    BY <1>0, <2>1, <2>8, <2>11 DEF Known, Told, Syncing
  <2>15. OwnChoiceIsQueued'
    BY <2>8, <2>9 DEF OwnChoiceIsQueued
  <2>16. Carried'
    <3>1. sync' = sync /\ (Pushing => sync.op # Nil) /\ (sync.op # Nil => sync.op.key < clock)
      BY <1>0, <2>1 DEF Dated, PrefTyped, Placed
    <3>2. sync.op # Nil => sync.op.key # clock
      BY <1>0, <3>1, Stamped
    <3>3. QED
      BY <2>9, <3>1, <3>2 DEF Carried, Pushing, Syncing
  <2>17. QED
    BY <1>0, <2>13, <2>14, <2>15, <2>16 DEF PrefInv
<1>6. QED
  BY <1>2, <1>3, <1>4, <1>5 DEF PrefSave

LEMMA BreaksKeep ==
  ASSUME PrefInv, NEW saves \in [Savers -> SaveCall], SyncBreaks(saves),
         \A s \in Savers : saves[s] = saver[s] \/ saves[s] = IdleSaver,
         UNCHANGED <<clock, mine, server, queue, theirs>>
  PROVE  PrefInv'
<1> DEFINE slips == IF MergedUnsent THEN hist.slips \union {"unsent"} ELSE hist.slips
<1>0. PrefTyped /\ PrefTyped' /\ Dated /\ Known /\ OwnChoiceIsQueued
  BY BreaksTyped DEF PrefInv
<1>1. sync' = IdleSync /\ saver' = saves /\ hist' = [hist EXCEPT !.slips = slips]
  BY DEF SyncBreaks
<1>2. "overtaken" \notin slips => "overtaken" \notin hist.slips
  OBVIOUS
<1> HIDE DEF slips
<1>3. hist'.own = hist.own /\ hist'.sent = hist.sent /\ hist'.slips = slips
  BY <1>0, <1>1 DEF PrefTyped, PrefTypeOK
<1>4. sync'.at = "idle" /\ sync'.op = Nil /\ sync'.rec = Nil /\ sync'.row = Nil
  BY <1>1 DEF IdleSync
<1>5. \A u \in Savers : \/ saver'[u] = saver[u]
                        \/ saver'[u].at = "idle" /\ saver'[u].seen = Nil
  BY <1>1 DEF IdleSaver
<1>6. \A n : Ours(n)' => Ours(n)
  BY <1>3, <1>5 DEF Ours, Pending, Saving
<1>7. Dated'
  BY <1>0, <1>3, <1>4, <1>5, <1>6 DEF Dated, Until, Saving
<1>8. Known'
  BY <1>0, <1>3, <1>4, <1>6 DEF Known, Told, Syncing
<1>9. OwnChoiceIsQueued'
  BY <1>0, <1>2, <1>3 DEF OwnChoiceIsQueued
<1>10. Carried'
  BY <1>4 DEF Carried, Pushing
<1>11. QED
  BY <1>0, <1>7, <1>8, <1>9, <1>10 DEF PrefInv

LEMMA TheirsKeep ==
  ASSUME PrefInv, (\E f \in Fields, first \in BOOLEAN : TheyChoose(f, first)) \/ TheySend
  PROVE  PrefInv'
<1>0. /\ PrefTyped /\ PrefTyped' /\ Dated /\ Known /\ OwnChoiceIsQueued
      /\ "overtaken" \notin hist.slips => Carried
      /\ clock \in Nat
  BY TheirsTyped DEF PrefInv, PrefTyped, PrefTypeOK
<1> USE NilAssumption, NilIsNothing, NilIsNoChoice
<1>1. \A n : Ours(n) => n \in 1..clock
  BY <1>0 DEF Ours, Pending, Dated
<1>2. ASSUME NEW f \in Fields, NEW first \in BOOLEAN, TheyChoose(f, first) PROVE PrefInv'
  <2>1. /\ theirs' = [field |-> f, at |-> clock + 1, first |-> first \/ server = Nil]
        /\ UNCHANGED <<mine, server, queue, saver, sync, hist>> /\ clock' = clock + 1
    BY <1>2 DEF TheyChoose, Tick
  <2>2. theirs'.at = clock + 1
    BY <2>1
  <2>3. \A n : Ours(n)' <=> Ours(n)
    BY <2>1 DEF Ours, Pending, Saving
  <2>4. ~Ours(clock + 1)
    BY <1>0, <1>1
  <2>5. Dated'
    BY <1>0, <2>1, <2>2, <2>3, <2>4, Ticks DEF Dated, Until, Saving
  <2>6. Known'
    BY <1>0, <2>1, <2>3 DEF Known, Told, Syncing
  <2>7. OwnChoiceIsQueued' /\ ("overtaken" \notin hist.slips => Carried)'
    BY <1>0, <2>1 DEF OwnChoiceIsQueued, Carried, Pushing, Syncing
  <2>8. QED
    BY <1>0, <2>5, <2>6, <2>7 DEF PrefInv
<1>3. ASSUME TheySend PROVE PrefInv'
  <2> DEFINE new == [choice |-> theirs.at, stamp |-> theirs.at]
  <2> DEFINE of == [f \in Fields |->
                  IF theirs.first THEN IF f = theirs.field THEN new ELSE [new EXCEPT !.choice = 0]
                  ELSE IF f = theirs.field /\ (server.of[f].stamp = Nil \/ server.of[f].stamp < theirs.at)
                       THEN new ELSE server.of[f]]
  <2> DEFINE others == server # Nil \/ mine # Nil \/ \E s \in Savers : ~Saving(s, "idle")
  <2> DEFINE slips == IF theirs.first /\ others THEN hist.slips \union {"first save"}
                                                ELSE hist.slips
  <2>1. /\ theirs # Nil /\ server' = [of |-> of, updated |-> clock + 1]
        /\ hist' = [hist EXCEPT !.slips = slips] /\ theirs' = Nil /\ clock' = clock + 1
        /\ UNCHANGED <<mine, queue, saver, sync, left>>
    BY <1>3 DEF TheySend, Tick
  <2>2. \A f \in Fields :
          \/ of[f].choice = theirs.at \/ of[f].choice = 0
          \/ ~theirs.first /\ of[f].choice = server.of[f].choice
    OBVIOUS
  <2> HIDE DEF of
  <2>3. ~theirs.first => server # Nil
    BY <1>0, <2>1 DEF PrefTyped, Placed
  <2>4. "overtaken" \notin slips => "overtaken" \notin hist.slips
    OBVIOUS
  <2> HIDE DEF slips
  <2>5. hist'.own = hist.own /\ hist'.sent = hist.sent /\ hist'.slips = slips
    BY <1>0, <2>1 DEF PrefTyped, PrefTypeOK
  <2>6. \A n : Ours(n)' <=> Ours(n)
    BY <2>1, <2>5 DEF Ours, Pending, Saving
  <2>7. ~Ours(0) /\ ~Ours(theirs.at)
    BY <1>0, <1>1, <2>1 DEF Dated
  <2>8. \A f \in Fields : of[f].choice <= clock + 1
    BY <1>0, <2>1, <2>2, <2>3, Ticks
  <2>9. Told(of)
    BY <1>0, <2>2, <2>3, <2>7 DEF Known, Told
  <2>10. server'.of = of
    BY <2>1
  <2>11. Dated'
    BY <1>0, <2>1, <2>5, <2>8, <2>10, Ticks DEF Dated, Until, Saving
  <2>12. Known'
    BY <1>0, <2>1, <2>5, <2>6, <2>9, <2>10 DEF Known, Told, Syncing
  <2>13. OwnChoiceIsQueued'
    BY <1>0, <2>1, <2>4, <2>5 DEF OwnChoiceIsQueued
  <2>14. ("overtaken" \notin hist.slips => Carried)'
    BY <1>0, <2>1, <2>4, <2>5 DEF Carried, Pushing, Syncing
  <2>15. QED
    BY <1>0, <2>11, <2>12, <2>13, <2>14 DEF PrefInv
<1>4. QED
  BY <1>2, <1>3

LEMMA PrefSteps == PrefInv /\ [PrefNext]_prefVars => PrefInv'
<1> SUFFICES ASSUME PrefInv, [PrefNext]_prefVars PROVE PrefInv'
  OBVIOUS
<1>1. ASSUME NEW s \in Savers, PrefSave(s) PROVE PrefInv'
  BY <1>1, SavesKeep
<1>2. CASE PrefSync
  BY <1>2, SyncKeeps
<1>3. saver \in [Savers -> SaveCall] /\ [s \in Savers |-> IdleSaver] \in [Savers -> SaveCall]
  BY Blanks DEF PrefInv, PrefTyped, PrefTypeOK
<1>4. CASE SyncFails \/ ReplyLost
  BY <1>3, <1>4, BreaksKeep DEF SyncFails, ReplyLost
<1>5. CASE PrefDies
  BY <1>3, <1>5, BreaksKeep DEF PrefDies
<1>6. CASE (\E f \in Fields, first \in BOOLEAN : TheyChoose(f, first)) \/ TheySend
  BY <1>6, TheirsKeep
<1>7. CASE UNCHANGED prefVars
  <2>1. UNCHANGED <<clock, mine, server, queue, saver, sync, theirs, hist>>
    BY <1>7 DEF prefVars
  <2>2. PrefTyped'
    BY <1>7, PrefTyping DEF PrefInv
  <2>3. Dated' /\ Known'
    BY <2>1 DEF PrefInv, Dated, Known, Until, Told, Ours, Pending, Saving, Syncing
  <2>4. OwnChoiceIsQueued' /\ ("overtaken" \notin hist.slips => Carried)'
    BY <2>1 DEF PrefInv, OwnChoiceIsQueued, Carried, Pushing, Syncing
  <2>5. QED
    BY <2>2, <2>3, <2>4 DEF PrefInv
<1>8. QED
  BY <1>1, <1>2, <1>4, <1>5, <1>6, <1>7 DEF PrefNext

-----------------------------------------------------------------------------
(* Type correctness.                                                        *)
THEOREM PrefTypeCorrect == PrefSpec => []PrefTypeOK
<1>1. PrefTyped => PrefTypeOK
  BY DEF PrefTyped
<1>2. QED
  BY <1>1, PrefBegins, PrefTyping, PTL DEF PrefSpec

(* A choice made on this device that the server never had is in the queue,  *)
(* whatever merges, pushes, failures, lost replies and process deaths come  *)
(* between, unless a read was overtaken before its write (saveLocal, push,  *)
(* pull).                                                                   *)
THEOREM OwnChoiceStaysQueued == PrefSpec => []OwnChoiceIsQueued
<1>1. PrefInv => OwnChoiceIsQueued
  BY DEF PrefInv
<1>2. QED
  BY <1>1, PrefStarts, PrefSteps, PTL DEF PrefSpec

-----------------------------------------------------------------------------
(* Preferences: what stays shown.                                           *)

(* The time a value is compared by, a default being older than any choice.  *)
Rank(value) == IF value.stamp = Nil THEN 0 ELSE value.stamp

(* Values as they follow each other in the row; a document that wins a      *)
(* field of a record by its stamp is not behind that record.                *)
Follows(new, old) == new = old \/ Rank(new) > Rank(old)
Ahead(new, old) == \A f \in Fields : Follows(new[f], old[f])
NotBehind(given, of) == \A f \in Fields : Rank(given[f]) > Rank(of[f]) => given[f].choice >= of[f].choice

(* A value was stamped when it was chosen, or later, and not in a time to   *)
(* come; a default may have no stamp.                                       *)
Marked(of, time) ==
  \A f \in Fields : IF of[f].stamp = Nil THEN of[f].choice = 0
                    ELSE of[f].stamp \in 1..time /\ of[f].choice <= of[f].stamp
Marks ==
  /\ mine # Nil => Marked(mine.of, clock) /\ mine.updated <= clock
  /\ server # Nil => Marked(server.of, clock) /\ server.updated \in 1..clock
  /\ queue # Nil => Marked(queue.of, clock)
  /\ sync.op # Nil => Marked(sync.op.of, clock)
  /\ sync.rec # Nil => Marked(sync.rec.of, clock) /\ sync.rec.updated \in 1..clock
  /\ sync.row # Nil => Marked(sync.row.of, clock) /\ sync.row.updated <= clock
  /\ \A s \in Savers : /\ saver[s].seen # Nil => Marked(saver[s].seen.of, clock)
                       /\ Saving(s, "locked") => Marked(saver[s].row.of, clock)
  /\ theirs # Nil => theirs.at \in 1..clock

(* What a save holds: every field of its patch stamped after all it read.   *)
Locked(s) ==
  LET call == saver[s] IN
  /\ ~call.row.synced
  /\ call.fields \subseteq call.patch
  /\ \A f \in call.patch :
       /\ call.row.of[f].stamp = call.row.updated
       /\ f \notin call.fields =>
            call.row.of[f].choice = IF call.seen = Nil THEN 0 ELSE call.seen.of[f].choice
  /\ call.seen # Nil => \A f \in Fields : Rank(call.seen.of[f]) < call.row.updated
LocksHold ==
  /\ \A s \in Savers : /\ ~Saving(s, "idle") => saver[s].fields # {}
                       /\ Saving(s, "locked") => Locked(s)
  /\ sync.rec # Nil \/ Syncing("upsert") => server # Nil

(* What this device has shown it still shows.                               *)
StillShown ==
  \A f \in Fields : hist.seen[f] <= IF mine = Nil THEN 0 ELSE mine.of[f].choice

(* The row has gone on from what a save read, and so has, outside its patch,*)
(* what it locked; no document would take back what it is about to write.   *)
SaveFollows(s) ==
  LET call == saver[s] IN
  /\ call.seen # Nil => mine # Nil /\ Ahead(mine.of, call.seen.of)
  /\ call.at \in {"diffed", "locked"} /\ mine = Nil => call.patch = Fields
  /\ Saving(s, "locked") =>
       /\ call.seen # Nil =>
            \A f \in Fields \ call.patch :
              /\ Follows(call.row.of[f], call.seen.of[f])
              /\ Follows(mine.of[f], call.row.of[f])
       /\ ~Overtaken(call.seen) =>
            /\ server # Nil => NotBehind(server.of, call.row.of)
            /\ Syncing("judge") => NotBehind(sync.rec.of, call.row.of)
SavesFollow == \A s \in Savers : SaveFollows(s)

(* No document takes back what the row shows, nor what a run is merging.    *)
DocsFollow ==
  /\ server # Nil /\ mine # Nil => NotBehind(server.of, mine.of)
  /\ Syncing("judge") =>
       /\ NotBehind(server.of, sync.rec.of)
       /\ mine # Nil => NotBehind(sync.rec.of, mine.of)
  /\ Syncing("upsert") => NotBehind(server.of, sync.row.of)

(* What a run read is the row still, or the row has gone on.                *)
Since(seen) ==
  /\ seen # Nil => mine # Nil /\ Ahead(mine.of, seen.of)
  /\ seen = mine \/ Overtaken(seen)
RunFollows ==
  /\ sync.at \in {"upsert", "store"} => Since(sync.seen)
  /\ Syncing("upsert") /\ sync.seen # Nil =>
       /\ Ahead(sync.row.of, sync.seen.of)
       /\ \A f \in Fields : sync.row.of[f].choice >= sync.seen.of[f].choice
       /\ sync.row.updated >= sync.seen.updated
       /\ sync.row.synced => sync.seen.synced
  /\ sync.at \in {"settle", "adopt", "store"} =>
       sync.rec.of = sync.op.of /\ sync.op.updated < sync.rec.updated
  /\ Syncing("store") =>
       sync.seen # Nil /\ sync.seen.of = sync.op.of /\ sync.seen.updated = sync.op.updated
  /\ Syncing("enqueue") => Since(sync.row) /\ ~sync.row.synced

(* An operation, queued or on its way, is of the row as it was at its time. *)
Past(op) == Ahead(mine.of, op.of) /\ op.updated <= mine.updated
OpsFollow ==
  /\ Pushing =>
       /\ Past(sync.op)
       /\ ~Syncing("rebuild") /\ sync.op.updated = mine.updated => sync.op.of = mine.of
  /\ queue # Nil =>
       /\ Past(queue)
       /\ mine.synced => queue.updated < mine.updated
       /\ queue.updated = mine.updated =>
            \/ queue.of = mine.of
            \/ sync.at \in {"rebuild", "refresh", "enqueue"}
            \/ sync.at \in {"send", "settle", "adopt", "store"} /\ sync.op.updated = mine.updated

Lasting == StillShown /\ SavesFollow /\ DocsFollow /\ RunFollows /\ OpsFollow
ShownInv == Marks /\ LocksHold /\ (hist.slips = {} => Lasting)

-----------------------------------------------------------------------------
(* The order of values                                                      *)

LEMMA Ordered ==
  \A a, b, c \in Value :
    /\ Rank(a) \in Nat
    /\ Follows(a, a)
    /\ Follows(b, a) => Rank(b) >= Rank(a)
    /\ Follows(b, a) /\ Follows(c, b) => Follows(c, a)
    /\ Follows(b, a) /\ Follows(a, b) => a = b
<1>1. \A a \in Value : Rank(a) \in Nat
  BY DEF Value, Rank
<1> QED BY <1>1 DEF Follows

LEMMA RecordsOrdered ==
  \A p, q, r \in Values :
    /\ Ahead(p, p) /\ NotBehind(p, p)
    /\ Ahead(q, p) /\ Ahead(r, q) => Ahead(r, p)
    /\ Ahead(q, p) /\ Ahead(p, q) => p = q
    /\ Ahead(q, p) => NotBehind(p, q)
<1> SUFFICES ASSUME NEW p \in Values, NEW q \in Values, NEW r \in Values
             PROVE  /\ Ahead(p, p) /\ NotBehind(p, p)
                    /\ Ahead(q, p) /\ Ahead(r, q) => Ahead(r, p)
                    /\ Ahead(q, p) /\ Ahead(p, q) => p = q
                    /\ Ahead(q, p) => NotBehind(p, q)
  OBVIOUS
<1>1. \A f \in Fields : p[f] \in Value /\ q[f] \in Value /\ r[f] \in Value
  BY DEF Values
<1>2. \A f \in Fields : Rank(p[f]) \in Nat /\ Rank(q[f]) \in Nat
  BY <1>1, Ordered
<1>3. Ahead(p, p)
  BY <1>1, Ordered DEF Ahead
<1>4. NotBehind(p, p)
  BY <1>2 DEF NotBehind
<1>5. Ahead(q, p) /\ Ahead(r, q) => Ahead(r, p)
  BY <1>1, Ordered DEF Ahead
<1>6. Ahead(q, p) /\ Ahead(p, q) => p = q
  <2> SUFFICES ASSUME Ahead(q, p), Ahead(p, q) PROVE p = q
    OBVIOUS
  <2>1. \A f \in Fields : p[f] = q[f]
    BY <1>1, Ordered DEF Ahead
  <2> QED BY <2>1 DEF Values
<1>7. Ahead(q, p) => NotBehind(p, q)
  <2>1. \A f \in Fields : Follows(q[f], p[f]) => Rank(q[f]) >= Rank(p[f])
    BY <1>1, Ordered
  <2> QED BY <1>2, <2>1 DEF Ahead, NotBehind
<1> QED BY <1>3, <1>4, <1>5, <1>6, <1>7

LEMMA MarkedIs ==
  ASSUME NEW of \in Values, NEW time \in Nat, Marked(of, time)
  PROVE  /\ Marked(of, time + 1)
         /\ \A f \in Fields : of[f].choice \in Nat /\ of[f].choice <= Rank(of[f]) /\ Rank(of[f]) \in 0..time
<1>1. \A f \in Fields : of[f].stamp \in Nat \union {Nil} /\ of[f].choice \in Nat
  BY DEF Values, Value
<1>2. \A n \in Nat : n \in 1..time => n \in 1..(time + 1)
  OBVIOUS
<1>3. Marked(of, time + 1)
  BY <1>1, <1>2 DEF Marked
<1>4. ASSUME NEW f \in Fields PROVE of[f].choice <= Rank(of[f]) /\ Rank(of[f]) \in 0..time
  <2>1. CASE of[f].stamp = Nil
    BY <1>1, <2>1, NilAssumption DEF Marked, Rank
  <2>2. CASE of[f].stamp # Nil
    BY <1>1, <2>2, NilAssumption DEF Marked, Rank
  <2> QED BY <2>1, <2>2
<1> QED BY <1>1, <1>3, <1>4

(* What is in the records of a state.                                       *)
LEMMA Records ==
  ASSUME PrefTyped
  PROVE  /\ mine # Nil => mine \in PrefRow /\ mine.of \in Values /\ mine.updated \in Nat
         /\ server # Nil => server \in PrefDoc /\ server.of \in Values /\ server.updated \in Nat
         /\ queue # Nil => queue \in PrefOp /\ queue.of \in Values /\ queue.updated \in Nat
         /\ sync.op # Nil => sync.op \in PrefOp /\ sync.op.of \in Values /\ sync.op.updated \in Nat
         /\ sync.rec # Nil => sync.rec \in PrefDoc /\ sync.rec.of \in Values /\ sync.rec.updated \in Nat
         /\ sync.row # Nil => sync.row \in PrefRow /\ sync.row.of \in Values /\ sync.row.updated \in Nat
         /\ sync.seen # Nil => sync.seen \in PrefRow /\ sync.seen.of \in Values /\ sync.seen.updated \in Nat
         /\ \A s \in Savers :
              /\ saver[s].seen # Nil => saver[s].seen \in PrefRow /\ saver[s].seen.of \in Values
              /\ saver[s].row # Nil => /\ saver[s].row \in PrefRow /\ saver[s].row.of \in Values
                                       /\ saver[s].row.updated \in Nat
              /\ Saving(s, "locked") => saver[s].row # Nil
              /\ saver[s].fields \subseteq Fields /\ saver[s].patch \subseteq Fields
         /\ clock \in Nat
         /\ sync \in SyncRun /\ saver \in [Savers -> SaveCall]
<1>1. \A r \in PrefRow : r.of \in Values /\ r.updated \in Nat
  BY DEF PrefRow
<1>2. \A d \in PrefDoc : d.of \in Values /\ d.updated \in Nat
  BY DEF PrefDoc
<1>3. \A o \in PrefOp : o.of \in Values /\ o.updated \in Nat
  BY DEF PrefOp
<1>4. /\ sync.op \in PrefOp \union {Nil} /\ sync.rec \in PrefDoc \union {Nil}
      /\ sync.row \in PrefRow \union {Nil} /\ sync.seen \in PrefRow \union {Nil}
  BY DEF PrefTyped, PrefTypeOK, SyncRun
<1>5. \A s \in Savers : /\ saver[s].seen \in PrefRow \union {Nil}
                        /\ saver[s].row \in PrefRow \union {Nil}
                        /\ saver[s].fields \subseteq Fields /\ saver[s].patch \subseteq Fields
  BY DEF PrefTyped, PrefTypeOK, SaveCall
<1> QED BY <1>1, <1>2, <1>3, <1>4, <1>5 DEF PrefTyped, PrefTypeOK, Placed

(* A merge keeps or takes each field, and moves no field back.              *)
LEMMA MergedMarks ==
  ASSUME NEW time \in Nat, NEW copy \in PrefRow \union {Nil}, NEW remote \in PrefDoc,
         Marked(remote.of, time), remote.updated \in 1..time,
         copy # Nil => Marked(copy.of, time) /\ copy.updated <= time
  PROVE  Marked(Merged(copy, remote).of, time) /\ Merged(copy, remote).updated <= time
<1>0. remote.of \in Values /\ remote.updated \in Nat
  BY DEF PrefDoc
<1>1. CASE copy = Nil
  BY <1>0, <1>1 DEF Merged
<1>2. CASE copy # Nil
  <2>1. copy.of \in Values /\ copy.updated \in Nat
    BY <1>2 DEF PrefRow
  <2>2. Merged(copy, remote).updated = Later(copy.updated, remote.updated)
    BY <1>2 DEF Merged
  <2>3. \A f \in Fields :
          \/ Merged(copy, remote).of[f] = copy.of[f]
          \/ Merged(copy, remote).of[f] =
               [choice |-> remote.of[f].choice,
                stamp |-> IF remote.of[f].stamp = Nil THEN remote.updated ELSE remote.of[f].stamp]
    BY <1>2 DEF Merged
  <2>4. ASSUME NEW f \in Fields
        PROVE  IF Merged(copy, remote).of[f].stamp = Nil THEN Merged(copy, remote).of[f].choice = 0
               ELSE /\ Merged(copy, remote).of[f].stamp \in 1..time
                    /\ Merged(copy, remote).of[f].choice <= Merged(copy, remote).of[f].stamp
    <3>1. CASE Merged(copy, remote).of[f] = copy.of[f]
      BY <1>2, <3>1 DEF Marked
    <3>2. CASE Merged(copy, remote).of[f] =
               [choice |-> remote.of[f].choice,
                stamp |-> IF remote.of[f].stamp = Nil THEN remote.updated ELSE remote.of[f].stamp]
      <4>1. CASE remote.of[f].stamp = Nil
        <5>1. remote.of[f].choice = 0
          BY <4>1 DEF Marked
        <5> QED BY <1>0, <3>2, <4>1, <5>1, NilAssumption
      <4>2. CASE remote.of[f].stamp # Nil
        BY <3>2, <4>2 DEF Marked
      <4> QED BY <4>1, <4>2
    <3> QED BY <2>3, <3>1, <3>2
  <2> QED BY <1>0, <1>2, <2>1, <2>2, <2>4 DEF Marked, Later
<1> QED BY <1>1, <1>2

LEMMA MergedFollows ==
  ASSUME NEW time \in Nat, NEW copy \in PrefRow, NEW remote \in PrefDoc,
         Marked(remote.of, time), remote.updated \in 1..time, Marked(copy.of, time),
         NotBehind(remote.of, copy.of), copy # Nil
  PROVE  LET merged == Merged(copy, remote) IN
         /\ Ahead(merged.of, copy.of)
         /\ \A f \in Fields : merged.of[f].choice >= copy.of[f].choice
         /\ merged.updated >= copy.updated
         /\ merged.synced => copy.synced
         /\ \A other \in Values : NotBehind(other, copy.of) /\ NotBehind(other, remote.of) =>
              NotBehind(other, merged.of)
<1> DEFINE merged == Merged(copy, remote)
<1>0. /\ remote.of \in Values /\ remote.updated \in Nat
      /\ copy.of \in Values /\ copy.updated \in Nat
  BY DEF PrefDoc, PrefRow
<1>1. /\ merged.updated = Later(copy.updated, remote.updated)
      /\ merged.synced => copy.synced
      /\ \A f \in Fields : ~RemoteWins(copy, remote, f) => merged.of[f] = copy.of[f]
      /\ \A f \in Fields : RemoteWins(copy, remote, f) =>
           merged.of[f] = [choice |-> remote.of[f].choice,
                        stamp |-> IF remote.of[f].stamp = Nil THEN remote.updated ELSE remote.of[f].stamp]
  BY DEF Merged
<1> HIDE DEF merged
<1>2. merged.updated >= copy.updated
  BY <1>0, <1>1 DEF Later
<1>3. ASSUME NEW f \in Fields, RemoteWins(copy, remote, f)
      PROVE  /\ Rank(merged.of[f]) > Rank(copy.of[f]) /\ Rank(merged.of[f]) >= Rank(remote.of[f])
             /\ merged.of[f].choice >= copy.of[f].choice
             /\ merged.of[f].choice = remote.of[f].choice
  <2>1. /\ merged.of[f].choice = remote.of[f].choice
        /\ merged.of[f].stamp = IF remote.of[f].stamp = Nil THEN remote.updated ELSE remote.of[f].stamp
    <3>1. merged.of[f] = [choice |-> remote.of[f].choice,
                          stamp |-> IF remote.of[f].stamp = Nil THEN remote.updated ELSE remote.of[f].stamp]
      BY <1>1, <1>3
    <3> QED BY <3>1
  <2>2. /\ remote.of[f].stamp \in Nat \union {Nil} /\ copy.of[f].stamp \in Nat \union {Nil}
        /\ remote.of[f].choice \in Nat /\ copy.of[f].choice \in Nat
    BY <1>0 DEF Values, Value
  <2>3. remote.of[f].stamp # Nil => remote.of[f].stamp >= 1
    BY DEF Marked
  <2>4. Rank(merged.of[f]) = IF remote.of[f].stamp = Nil THEN remote.updated ELSE remote.of[f].stamp
    BY <1>0, <2>1, NilAssumption DEF Rank
  <2>5. CASE copy.of[f].stamp # Nil
    <3>1. remote.of[f].stamp # Nil /\ remote.of[f].stamp > copy.of[f].stamp
      BY <1>3, <2>5 DEF RemoteWins
    <3>2. Rank(remote.of[f]) > Rank(copy.of[f])
      BY <2>5, <3>1 DEF Rank
    <3>3. remote.of[f].choice >= copy.of[f].choice
      BY <3>2 DEF NotBehind
    <3> QED BY <2>1, <2>2, <2>4, <2>5, <3>1, <3>3, NilAssumption DEF Rank
  <2>6. CASE copy.of[f].stamp = Nil
    <3>1. copy.of[f].choice = 0 /\ Rank(copy.of[f]) = 0
      BY <2>6 DEF Marked, Rank
    <3> QED BY <1>0, <2>1, <2>2, <2>3, <2>4, <3>1, NilAssumption DEF Rank
  <2> QED BY <2>5, <2>6
<1>4. \A f \in Fields : copy.of[f].choice \in Nat /\ remote.of[f] \in Value /\ copy.of[f] \in Value
  BY <1>0 DEF Values, Value
<1>5. Ahead(merged.of, copy.of) /\ \A f \in Fields : merged.of[f].choice >= copy.of[f].choice
  BY <1>1, <1>3, <1>4 DEF Ahead, Follows
<1>6. ASSUME NEW other \in Values, NotBehind(other, copy.of), NotBehind(other, remote.of)
      PROVE  NotBehind(other, merged.of)
  <2> SUFFICES ASSUME NEW f \in Fields, Rank(other[f]) > Rank(merged.of[f])
               PROVE  other[f].choice >= merged.of[f].choice
    BY DEF NotBehind
  <2>1. CASE RemoteWins(copy, remote, f)
    <3>1. Rank(other[f]) \in Nat /\ Rank(remote.of[f]) \in Nat
      BY <1>4, Ordered DEF Values
    <3>2. Rank(merged.of[f]) \in Nat
      <4>1. merged.of[f].stamp \in Nat \union {Nil}
        <5>1. merged.of[f] = [choice |-> remote.of[f].choice,
                              stamp |-> IF remote.of[f].stamp = Nil THEN remote.updated
                                        ELSE remote.of[f].stamp]
          BY <1>1, <2>1
        <5>2. remote.of[f].stamp \in Nat \union {Nil}
          BY <1>4 DEF Value
        <5> QED BY <1>0, <5>1, <5>2
      <4> QED BY <4>1 DEF Rank
    <3>3. Rank(other[f]) > Rank(remote.of[f])
      BY <1>3, <2>1, <3>1, <3>2
    <3> QED BY <1>3, <1>6, <2>1, <3>3 DEF NotBehind
  <2>2. CASE ~RemoteWins(copy, remote, f)
    BY <1>1, <1>6, <2>2 DEF NotBehind
  <2> QED BY <2>1, <2>2
<1> QED BY <1>1, <1>2, <1>5, <1>6 DEF merged

-----------------------------------------------------------------------------
(* A step that moves the run only.                                          *)
LEMMA RunShifts ==
  ASSUME PrefInv, ShownInv,
         UNCHANGED <<clock, mine, server, queue, saver, theirs, hist>>,
         sync'.op # Nil => Marked(sync'.op.of, clock),
         sync'.rec # Nil => Marked(sync'.rec.of, clock) /\ sync'.rec.updated \in 1..clock,
         sync'.row # Nil => Marked(sync'.row.of, clock) /\ sync'.row.updated <= clock,
         sync'.rec # Nil \/ sync'.at = "upsert" => server # Nil,
         hist.slips = {} => /\ sync'.at = "judge" => server # Nil /\ sync'.rec = server
                            /\ sync'.at = "upsert" => NotBehind(server.of, sync'.row.of)
                            /\ RunFollows' /\ OpsFollow'
  PROVE  ShownInv'
<1>1. Marks'
  BY DEF ShownInv, Marks, Saving
<1>2. LocksHold'
  BY DEF ShownInv, LocksHold, Locked, Saving, Syncing
<1>3. ASSUME hist.slips = {} PROVE Lasting'
  <2>1. Lasting
    BY <1>3 DEF ShownInv
  <2>2. StillShown'
    BY <2>1 DEF Lasting, StillShown
  <2>3. SavesFollow'
    BY <1>3, <2>1 DEF Lasting, SavesFollow, SaveFollows, Saving, Syncing, Overtaken
  <2>4. DocsFollow'
    <3>1. server # Nil => server.of \in Values
      BY Records DEF PrefInv
    <3>2. server # Nil => NotBehind(server.of, server.of)
      BY <3>1, RecordsOrdered
    <3> QED BY <1>3, <2>1, <3>2 DEF Lasting, DocsFollow, Syncing
  <2> QED BY <1>3, <2>2, <2>3, <2>4 DEF Lasting
<1> QED BY <1>1, <1>2, <1>3 DEF ShownInv

(* The steps of a run that move only the run.                               *)
LEMMA RunShown ==
  ASSUME PrefInv, ShownInv,
         \/ SyncStarts \/ SyncExamines \/ SyncProbes \/ SyncJudges \/ SyncRebuilds
         \/ SyncAdopts \/ SyncLists \/ SyncRefreshes
  PROVE  ShownInv'
<1> USE NilAssumption, NilIsNothing
<1>0. /\ PrefTyped /\ Marks /\ LocksHold /\ Placed /\ sync \in SyncRun
      /\ hist.slips = {} => OpsFollow /\ RunFollows /\ DocsFollow
  BY Records DEF PrefInv, ShownInv, Lasting, PrefTyped
<1>1. CASE SyncStarts
  <2>1. /\ sync' = [IdleSync EXCEPT !.op = queue, !.at = IF queue = Nil THEN "list" ELSE "examine"]
        /\ UNCHANGED <<clock, mine, server, queue, saver, theirs, hist>>
        /\ sync.at = "idle"
    BY <1>1 DEF SyncStarts, Syncing
  <2>2. /\ sync'.op = queue /\ sync'.rec = Nil /\ sync'.row = Nil
        /\ sync'.at = IF queue = Nil THEN "list" ELSE "examine"
    BY <2>1 DEF IdleSync
  <2>3. RunFollows'
    BY <2>2 DEF RunFollows, Syncing
  <2>4. hist.slips = {} => OpsFollow'
    BY <1>0, <2>1, <2>2 DEF OpsFollow, Past, Pushing, Syncing
  <2>5. sync'.op # Nil => Marked(sync'.op.of, clock)
    BY <1>0, <2>2 DEF Marks
  <2> QED BY <2>1, <2>2, <2>3, <2>4, <2>5, RunShifts
<1>2. CASE SyncExamines
  <2>1. UNCHANGED <<clock, mine, server, queue, saver, theirs, hist>> /\ sync.at = "examine"
    BY <1>2 DEF SyncExamines, OnlySync, Syncing
  <2>2. \/ sync' = [sync EXCEPT !.at = "send"]
        \/ sync' = [sync EXCEPT !.at = "probe", !.seen = mine]
    BY <1>2 DEF SyncExamines, Moves
  <2>3. /\ sync'.op = sync.op /\ sync'.rec = sync.rec /\ sync'.row = sync.row
        /\ sync'.at \in {"send", "probe"}
    BY <1>0, <2>2 DEF SyncRun
  <2>4. RunFollows'
    BY <2>3 DEF RunFollows, Syncing
  <2>5. hist.slips = {} => OpsFollow'
    BY <1>0, <2>1, <2>3 DEF OpsFollow, Past, Pushing, Syncing
  <2>6. /\ sync.op # Nil => Marked(sync.op.of, clock)
        /\ sync.rec # Nil => Marked(sync.rec.of, clock) /\ sync.rec.updated \in 1..clock
        /\ sync.row # Nil => Marked(sync.row.of, clock) /\ sync.row.updated <= clock
        /\ sync.rec # Nil => server # Nil
    BY <1>0 DEF Marks, LocksHold
  <2> QED BY <2>1, <2>3, <2>4, <2>5, <2>6, RunShifts
<1>3. CASE SyncProbes
  <2>1. UNCHANGED <<clock, mine, server, queue, saver, theirs, hist>> /\ sync.at = "probe"
    BY <1>3 DEF SyncProbes, OnlySync, Syncing
  <2>2. \/ sync' = [sync EXCEPT !.at = "send", !.seen = Nil]
        \/ server # Nil /\ sync' = [sync EXCEPT !.at = "judge", !.seen = Nil, !.rec = server]
    BY <1>3 DEF SyncProbes
  <2>3. /\ sync'.op = sync.op /\ sync'.row = sync.row /\ sync'.push = sync.push
        /\ \/ sync'.at = "send" /\ sync'.rec = sync.rec
           \/ sync'.at = "judge" /\ sync'.rec = server /\ server # Nil
    BY <1>0, <2>2 DEF SyncRun
  <2>4. RunFollows'
    BY <2>3 DEF RunFollows, Syncing
  <2>5. hist.slips = {} => OpsFollow'
    BY <1>0, <2>1, <2>3 DEF OpsFollow, Past, Pushing, Syncing
  <2>6. /\ sync.op # Nil => Marked(sync.op.of, clock)
        /\ sync.rec # Nil => Marked(sync.rec.of, clock) /\ sync.rec.updated \in 1..clock
        /\ server # Nil => Marked(server.of, clock) /\ server.updated \in 1..clock
        /\ sync.row # Nil => Marked(sync.row.of, clock) /\ sync.row.updated <= clock
        /\ sync.rec # Nil => server # Nil
    BY <1>0 DEF Marks, LocksHold
  <2> QED BY <2>1, <2>3, <2>4, <2>5, <2>6, RunShifts
<1>4. CASE SyncJudges
  <2> DEFINE copy == Merged(mine, sync.rec)
  <2>1. UNCHANGED <<clock, mine, server, queue, saver, theirs, hist>> /\ sync.at = "judge"
    BY <1>4 DEF SyncJudges, OnlySync, Syncing
  <2>2. \/ sync' = [sync EXCEPT !.at = "upsert", !.rec = Nil, !.seen = mine, !.row = copy]
        \/ sync.push /\ sync' = [sync EXCEPT !.at = "send", !.rec = Nil]
        \/ sync' = IdleSync
    BY <1>4 DEF SyncJudges
  <2>3. /\ sync.rec # Nil /\ server # Nil
        /\ sync.op # Nil => Marked(sync.op.of, clock)
        /\ sync.row # Nil => Marked(sync.row.of, clock) /\ sync.row.updated <= clock
        /\ Marked(sync.rec.of, clock) /\ sync.rec.updated \in 1..clock
        /\ mine # Nil => Marked(mine.of, clock) /\ mine.updated <= clock
    BY <1>0, <2>1 DEF Marks, LocksHold, Placed
  <2>4. /\ sync.rec \in PrefDoc /\ sync.rec.of \in Values
        /\ server.of \in Values /\ clock \in Nat
        /\ mine # Nil => mine \in PrefRow /\ mine.of \in Values
    BY <1>0, <2>3, Records
  <2>5. Marked(copy.of, clock) /\ copy.updated <= clock
    <3>1. mine \in PrefRow \union {Nil}
      BY <2>4
    <3> QED BY <2>3, <2>4, <3>1, MergedMarks
  <2>6. ASSUME hist.slips = {}
        PROVE  /\ NotBehind(server.of, copy.of)
               /\ mine # Nil => /\ Ahead(copy.of, mine.of)
                                /\ \A f \in Fields : copy.of[f].choice >= mine.of[f].choice
                                /\ copy.updated >= mine.updated
                                /\ copy.synced => mine.synced
                                /\ Ahead(mine.of, mine.of)
    <3>1. /\ NotBehind(server.of, sync.rec.of)
          /\ mine # Nil => NotBehind(sync.rec.of, mine.of) /\ NotBehind(server.of, mine.of)
      BY <1>0, <2>1, <2>3, <2>6 DEF DocsFollow, Syncing
    <3>2. CASE mine = Nil
      BY <3>1, <3>2 DEF Merged
    <3>3. CASE mine # Nil
      BY <2>3, <2>4, <3>1, <3>3, MergedFollows, RecordsOrdered
    <3> QED BY <3>2, <3>3
  <2> HIDE DEF copy
  <2>7. CASE sync' = [sync EXCEPT !.at = "upsert", !.rec = Nil, !.seen = mine, !.row = copy]
    <3>1. /\ sync'.op = sync.op /\ sync'.rec = Nil /\ sync'.row = copy /\ sync'.seen = mine
          /\ sync'.at = "upsert" /\ sync'.push = sync.push
      BY <1>0, <2>7 DEF SyncRun
    <3>2. hist.slips = {} => RunFollows'
      BY <2>1, <2>6, <3>1 DEF RunFollows, Since, Syncing
    <3>3. hist.slips = {} => OpsFollow'
      BY <1>0, <2>1, <3>1 DEF OpsFollow, Past, Pushing, Syncing
    <3> QED BY <2>1, <2>3, <2>5, <2>6, <3>1, <3>2, <3>3, RunShifts
  <2>8. CASE sync.push /\ sync' = [sync EXCEPT !.at = "send", !.rec = Nil]
    <3>1. sync'.op = sync.op /\ sync'.rec = Nil /\ sync'.row = sync.row /\ sync'.at = "send"
      BY <1>0, <2>8 DEF SyncRun
    <3>2. RunFollows'
      BY <3>1 DEF RunFollows, Syncing
    <3>3. hist.slips = {} => OpsFollow'
      BY <1>0, <2>1, <2>8, <3>1 DEF OpsFollow, Past, Pushing, Syncing
    <3> QED BY <2>1, <2>3, <3>1, <3>2, <3>3, RunShifts
  <2>9. CASE sync' = IdleSync
    <3>1. sync'.op = Nil /\ sync'.rec = Nil /\ sync'.row = Nil /\ sync'.at = "idle"
      BY <2>9 DEF IdleSync
    <3>2. RunFollows'
      BY <3>1 DEF RunFollows, Syncing
    <3>3. hist.slips = {} => OpsFollow'
      BY <1>0, <2>1, <3>1 DEF OpsFollow, Past, Pushing, Syncing
    <3> QED BY <2>1, <3>1, <3>2, <3>3, RunShifts
  <2> QED BY <2>2, <2>7, <2>8, <2>9
<1>5. CASE SyncRebuilds
  <2>1. UNCHANGED <<clock, mine, server, queue, saver, theirs, hist>> /\ sync.at = "rebuild"
    BY <1>5 DEF SyncRebuilds, OnlySync, Syncing
  <2>2. sync.op \in PrefOp /\ mine # Nil /\ mine \in PrefRow /\ mine.of \in Values /\ mine.updated \in Nat
    BY <1>0, <2>1, Records DEF Placed, Pushing
  <2> DEFINE op == [sync.op EXCEPT !.of = mine.of, !.updated = mine.updated]
  <2>3. op.of = mine.of /\ op.updated = mine.updated
    BY <2>2 DEF PrefOp
  <2>4. sync' = [sync EXCEPT !.at = "send", !.op = op]
    BY <1>0, <1>5, <2>2 DEF SyncRebuilds, SyncRun, PrefOp
  <2> HIDE DEF op
  <2>5. sync'.op = op /\ sync'.rec = sync.rec /\ sync'.row = sync.row /\ sync'.at = "send"
    BY <1>0, <2>4 DEF SyncRun
  <2>6. RunFollows'
    BY <2>5 DEF RunFollows, Syncing
  <2>7. Ahead(mine.of, mine.of)
    BY <2>2, RecordsOrdered
  <2>8. hist.slips = {} => OpsFollow'
    BY <1>0, <2>1, <2>2, <2>3, <2>5, <2>7 DEF OpsFollow, Past, Pushing, Syncing
  <2>9. /\ Marked(op.of, clock)
        /\ sync.rec # Nil => Marked(sync.rec.of, clock) /\ sync.rec.updated \in 1..clock
        /\ sync.row # Nil => Marked(sync.row.of, clock) /\ sync.row.updated <= clock
        /\ sync.rec # Nil => server # Nil
    BY <1>0, <2>2, <2>3 DEF Marks, LocksHold
  <2> QED BY <2>1, <2>5, <2>6, <2>8, <2>9, RunShifts
<1>6. CASE SyncAdopts
  <2>1. UNCHANGED <<clock, mine, server, queue, saver, theirs, hist>> /\ sync.at = "adopt"
    BY <1>6 DEF SyncAdopts, OnlySync, Syncing
  <2>2. CASE mine.updated # sync.op.updated /\ sync' = [IdleSync EXCEPT !.at = "list"]
    <3>1. sync'.op = Nil /\ sync'.rec = Nil /\ sync'.row = Nil /\ sync'.at = "list"
      BY <2>2 DEF IdleSync
    <3>2. RunFollows'
      BY <3>1 DEF RunFollows, Syncing
    <3>3. hist.slips = {} => OpsFollow'
      BY <1>0, <2>1, <2>2, <3>1 DEF OpsFollow, Past, Pushing, Syncing
    <3> QED BY <2>1, <3>1, <3>2, <3>3, RunShifts
  <2>3. CASE mine.updated = sync.op.updated /\ sync' = [sync EXCEPT !.at = "store", !.seen = mine]
    <3>1. /\ sync'.op = sync.op /\ sync'.rec = sync.rec /\ sync'.row = sync.row
          /\ sync'.seen = mine /\ sync'.at = "store"
      BY <1>0, <2>3 DEF SyncRun
    <3>2. mine # Nil /\ mine.of \in Values
      BY <1>0, <2>1, Records DEF Placed, Pushing
    <3>3. Ahead(mine.of, mine.of)
      BY <3>2, RecordsOrdered
    <3>4. hist.slips = {} => sync.op.of = mine.of
      BY <1>0, <2>1, <2>3 DEF OpsFollow, Pushing, Syncing
    <3>5. hist.slips = {} => RunFollows'
      BY <1>0, <2>1, <2>3, <3>1, <3>2, <3>3, <3>4 DEF RunFollows, Since, Syncing
    <3>6. hist.slips = {} => OpsFollow'
      BY <1>0, <2>1, <3>1 DEF OpsFollow, Past, Pushing, Syncing
    <3>7. /\ sync.op # Nil => Marked(sync.op.of, clock)
          /\ sync.rec # Nil => Marked(sync.rec.of, clock) /\ sync.rec.updated \in 1..clock
          /\ sync.row # Nil => Marked(sync.row.of, clock) /\ sync.row.updated <= clock
          /\ sync.rec # Nil => server # Nil
      BY <1>0 DEF Marks, LocksHold
    <3> QED BY <2>1, <3>1, <3>5, <3>6, <3>7, RunShifts
  <2> QED BY <1>6, <2>2, <2>3 DEF SyncAdopts
<1>7. CASE SyncLists
  <2>1. UNCHANGED <<clock, mine, server, queue, saver, theirs, hist>> /\ sync.at = "list"
    BY <1>7 DEF SyncLists, OnlySync, Syncing
  <2>2. \/ sync' = IdleSync
        \/ server # Nil /\ sync' = [IdleSync EXCEPT !.at = "judge", !.push = FALSE, !.rec = server]
    BY <1>7 DEF SyncLists
  <2>3. /\ sync'.op = Nil /\ sync'.row = Nil
        /\ \/ sync'.at = "idle" /\ sync'.rec = Nil
           \/ sync'.at = "judge" /\ sync'.rec = server /\ server # Nil /\ ~sync'.push
    <3>1. sync' = IdleSync => sync'.op = Nil /\ sync'.row = Nil /\ sync'.at = "idle" /\ sync'.rec = Nil
      BY DEF IdleSync
    <3>2. sync' = [IdleSync EXCEPT !.at = "judge", !.push = FALSE, !.rec = server] =>
            /\ sync'.op = Nil /\ sync'.row = Nil /\ sync'.at = "judge" /\ sync'.rec = server
            /\ sync'.push = FALSE
      BY DEF IdleSync
    <3> QED BY <2>2, <3>1, <3>2
  <2>4. RunFollows'
    BY <2>3 DEF RunFollows, Syncing
  <2>5. hist.slips = {} => OpsFollow'
    BY <1>0, <2>1, <2>3 DEF OpsFollow, Past, Pushing, Syncing
  <2>6. server # Nil => Marked(server.of, clock) /\ server.updated \in 1..clock
    BY <1>0 DEF Marks
  <2> QED BY <2>1, <2>3, <2>4, <2>5, <2>6, RunShifts
<1>8. CASE SyncRefreshes
  <2>1. UNCHANGED <<clock, mine, server, queue, saver, theirs, hist>> /\ sync.at = "refresh"
    BY <1>8 DEF SyncRefreshes, OnlySync, Syncing
  <2>2. CASE mine.synced /\ sync' = IdleSync
    <3>1. sync'.op = Nil /\ sync'.rec = Nil /\ sync'.row = Nil /\ sync'.at = "idle"
      BY <2>2 DEF IdleSync
    <3>2. RunFollows'
      BY <3>1 DEF RunFollows, Syncing
    <3>3. queue # Nil => mine # Nil /\ queue.updated \in Nat /\ mine.updated \in Nat
      BY <1>0, Records DEF Placed
    <3>4. hist.slips = {} => OpsFollow'
      BY <1>0, <2>1, <2>2, <3>1, <3>3 DEF OpsFollow, Past, Pushing, Syncing
    <3> QED BY <2>1, <3>1, <3>2, <3>4, RunShifts
  <2>3. CASE ~mine.synced /\ sync' = [sync EXCEPT !.at = "enqueue", !.row = mine]
    <3>1. /\ sync'.op = sync.op /\ sync'.rec = sync.rec /\ sync'.row = mine
          /\ sync'.at = "enqueue"
      BY <1>0, <2>3 DEF SyncRun
    <3>2. mine # Nil /\ mine.of \in Values
      BY <1>0, <2>1, Records DEF Placed
    <3>3. Ahead(mine.of, mine.of)
      BY <3>2, RecordsOrdered
    <3>4. RunFollows'
      BY <2>1, <2>3, <3>1, <3>2, <3>3 DEF RunFollows, Since, Syncing
    <3>5. hist.slips = {} => OpsFollow'
      BY <1>0, <2>1, <3>1 DEF OpsFollow, Past, Pushing, Syncing
    <3>6. /\ sync.op # Nil => Marked(sync.op.of, clock)
          /\ sync.rec # Nil => Marked(sync.rec.of, clock) /\ sync.rec.updated \in 1..clock
          /\ Marked(mine.of, clock) /\ mine.updated <= clock
          /\ sync.rec # Nil => server # Nil
      BY <1>0, <3>2 DEF Marks, LocksHold
    <3> QED BY <2>1, <3>1, <3>4, <3>5, <3>6, RunShifts
  <2> QED BY <1>8, <2>2, <2>3 DEF SyncRefreshes
<1> QED BY <1>1, <1>2, <1>3, <1>4, <1>5, <1>6, <1>7, <1>8

-----------------------------------------------------------------------------
(* Steps that write the row.                                                *)

(* The row goes on: so does what a save read and locked.                    *)
LEMMA SaverGoesOn ==
  ASSUME PrefTyped, NEW s \in Savers, SaveFollows(s), mine' # Nil, mine' \in PrefRow,
         mine # Nil => Ahead(mine'.of, mine.of),
         server' = server, saver'[s] = saver[s],
         sync'.at = "judge" => sync' = sync
  PROVE  SaveFollows(s)'
<1> DEFINE call == saver[s]
<1>1. /\ mine # Nil => mine.of \in Values
      /\ call.seen # Nil => call.seen.of \in Values
      /\ mine'.of \in Values
      /\ Saving(s, "locked") => call.row.of \in Values
      /\ call.patch \subseteq Fields
  BY Records DEF PrefRow
<1>2. call.seen # Nil => Ahead(mine'.of, call.seen.of)
  BY <1>1, RecordsOrdered DEF SaveFollows
<1>3. ASSUME Saving(s, "locked"), call.seen # Nil, NEW f \in Fields \ call.patch
      PROVE  Follows(call.row.of[f], call.seen.of[f]) /\ Follows(mine'.of[f], call.row.of[f])
  <2>1. /\ Follows(call.row.of[f], call.seen.of[f]) /\ Follows(mine.of[f], call.row.of[f])
        /\ mine # Nil
    BY <1>3 DEF SaveFollows
  <2>2. call.row.of[f] \in Value /\ mine.of[f] \in Value /\ mine'.of[f] \in Value
    BY <1>1, <1>3, <2>1 DEF Values
  <2>3. Follows(mine'.of[f], mine.of[f])
    BY <2>1 DEF Ahead
  <2> QED BY <2>1, <2>2, <2>3, Ordered
<1>4. Overtaken(call.seen)' <=> call.seen = Nil \/ call.seen.of # mine'.of
  BY DEF Overtaken
<1>5. ~(Overtaken(call.seen)') => ~Overtaken(call.seen)
  <2>1. ASSUME call.seen # Nil, call.seen.of = mine'.of PROVE call.seen.of = mine.of /\ mine # Nil
    <3>1. mine # Nil /\ Ahead(mine.of, call.seen.of)
      BY <2>1 DEF SaveFollows
    <3> QED BY <1>1, <2>1, <3>1, RecordsOrdered
  <2> QED BY <1>4, <2>1 DEF Overtaken
<1> QED BY <1>2, <1>3, <1>5 DEF SaveFollows, Saving, Syncing

LEMMA SinceGoesOn ==
  ASSUME PrefTyped, mine' # Nil, mine' \in PrefRow,
         mine # Nil => Ahead(mine'.of, mine.of) /\ mine'.of # mine.of
  PROVE  /\ sync.seen \in PrefRow \union {Nil} /\ sync'.seen = sync.seen =>
              (Since(sync.seen) => Since(sync.seen)')
         /\ sync.row \in PrefRow \union {Nil} /\ sync'.row = sync.row =>
              (Since(sync.row) => Since(sync.row)')
<1>1. mine'.of \in Values /\ (mine # Nil => mine.of \in Values)
  BY Records DEF PrefRow
<1>2. ASSUME NEW x \in PrefRow \union {Nil},
             x # Nil => mine # Nil /\ Ahead(mine.of, x.of),
             x = mine \/ Overtaken(x)
      PROVE  /\ x # Nil => Ahead(mine'.of, x.of)
             /\ x = Nil \/ x.of # mine'.of
  <2> SUFFICES ASSUME x # Nil PROVE Ahead(mine'.of, x.of) /\ x.of # mine'.of
    OBVIOUS
  <2>1. mine # Nil /\ Ahead(mine.of, x.of) /\ x.of \in Values
    BY <1>2 DEF PrefRow
  <2>2. Ahead(mine'.of, x.of)
    BY <1>1, <2>1, RecordsOrdered
  <2>3. CASE x.of = mine.of
    BY <2>1, <2>2, <2>3
  <2>4. CASE x.of # mine.of
    <3>1. x.of = mine'.of => Ahead(x.of, mine.of)
      BY <2>1
    <3> QED BY <1>1, <2>1, <2>2, <2>4, <3>1, RecordsOrdered
  <2> QED BY <2>3, <2>4
<1> QED BY <1>2 DEF Since, Overtaken

LEMMA RowShown ==
  ASSUME PrefTyped, NEW copy \in PrefRow, NEW overtaken \in BOOLEAN, NEW made \in SUBSET Nat,
         SetsRow(copy, overtaken, made), hist'.slips = {}
  PROVE  /\ hist.slips = {} /\ ~overtaken
         /\ (StillShown /\ (mine # Nil => \A f \in Fields : copy.of[f].choice >= mine.of[f].choice))
              => StillShown'
<1>0. /\ hist.seen \in [Fields -> Nat] /\ hist \in History
      /\ \A f \in Fields : copy.of[f].choice \in Nat /\ (mine # Nil => mine.of[f].choice \in Nat)
  <2>1. \A p \in PrefRow : \A f \in Fields : p.of[f].choice \in Nat
    BY DEF PrefRow, Values, Value
  <2> QED BY <2>1, Records DEF PrefTyped, PrefTypeOK, History
<1> DEFINE seen == [f \in Fields |-> Later(hist.seen[f], copy.of[f].choice)]
<1> DEFINE slips == IF overtaken THEN hist.slips \union {"overtaken"} ELSE hist.slips
<1>1. hist' = [hist EXCEPT !.seen = [f \in Fields |-> Later(hist.seen[f], copy.of[f].choice)],
                           !.own = hist.own \union made,
                           !.slips = IF overtaken THEN hist.slips \union {"overtaken"}
                                                  ELSE hist.slips]
  BY Zenon DEF SetsRow
<1>2. hist' = [hist EXCEPT !.seen = seen, !.own = hist.own \union made, !.slips = slips]
  BY <1>1
<1>3. mine' = copy /\ mine' # Nil
  BY NilIsNothing DEF SetsRow
<1>4. \A f \in Fields : seen[f] = Later(hist.seen[f], copy.of[f].choice)
  OBVIOUS
<1>5. slips = {} => hist.slips = {} /\ ~overtaken
  OBVIOUS
<1> HIDE DEF seen, slips
<1>6. hist'.slips = slips /\ hist'.seen = seen
  BY <1>0, <1>2 DEF History
<1>7. ASSUME StillShown, mine # Nil => \A f \in Fields : copy.of[f].choice >= mine.of[f].choice
      PROVE  StillShown'
  <2> SUFFICES ASSUME NEW f \in Fields PROVE hist'.seen[f] <= mine'.of[f].choice
    BY <1>3 DEF StillShown
  <2>1. hist.seen[f] <= copy.of[f].choice
    BY <1>0, <1>7 DEF StillShown
  <2> QED BY <1>0, <1>3, <1>4, <1>6, <2>1 DEF Later
<1> QED BY <1>5, <1>6, <1>7

(* What was marked in time stays so.                                        *)
LEMMA MarksTick ==
  ASSUME PrefTyped, Marks
  PROVE  /\ mine # Nil => Marked(mine.of, clock + 1) /\ mine.updated <= clock + 1
         /\ server # Nil => Marked(server.of, clock + 1) /\ server.updated \in 1..(clock + 1)
         /\ queue # Nil => Marked(queue.of, clock + 1)
         /\ sync.op # Nil => Marked(sync.op.of, clock + 1)
         /\ sync.rec # Nil => Marked(sync.rec.of, clock + 1) /\ sync.rec.updated \in 1..(clock + 1)
         /\ sync.row # Nil => Marked(sync.row.of, clock + 1) /\ sync.row.updated <= clock + 1
         /\ \A s \in Savers : /\ saver[s].seen # Nil => Marked(saver[s].seen.of, clock + 1)
                              /\ Saving(s, "locked") => Marked(saver[s].row.of, clock + 1)
         /\ theirs # Nil => theirs.at \in 1..(clock + 1)
         /\ clock + 1 \in Nat /\ clock + 1 \in 1..(clock + 1)
<1>1. clock \in Nat
  BY Records
<1>2. \A n \in Nat : n <= clock => n <= clock + 1
  BY <1>1
<1>3. \A n : n \in 1..clock => n \in 1..(clock + 1)
  BY <1>1
<1>4. \A of \in Values : Marked(of, clock) => Marked(of, clock + 1)
  BY <1>1, MarkedIs
<1>5. clock + 1 \in Nat /\ clock + 1 \in 1..(clock + 1)
  BY <1>1
<1> QED BY ONLY <1>2, <1>3, <1>4, <1>5, PrefTyped, Marks, Records DEF Marks

LEMMA UpsertShown == ASSUME PrefInv, PrefTyped', ShownInv, SyncUpserts PROVE ShownInv'
<1> USE NilAssumption, NilIsNothing
<1>0. /\ PrefTyped /\ Marks /\ LocksHold /\ Placed /\ sync \in SyncRun
  BY Records DEF PrefInv, ShownInv, PrefTyped
<1>1. /\ sync.at = "upsert" /\ SetsRow(sync.row, Overtaken(sync.seen), {})
      /\ sync' = [sync EXCEPT !.at = IF sync.push THEN "rebuild" ELSE "refresh",
                              !.seen = Nil, !.row = Nil]
      /\ UNCHANGED <<clock, server, queue, saver, theirs, left>>
  BY DEF SyncUpserts, Syncing
<1>2. /\ sync'.op = sync.op /\ sync'.rec = sync.rec /\ sync'.row = Nil /\ sync'.push = sync.push
      /\ sync'.at = IF sync.push THEN "rebuild" ELSE "refresh"
  BY <1>0, <1>1 DEF SyncRun
<1>3. sync.row \in PrefRow /\ sync.row # Nil /\ mine' = sync.row
  BY <1>0, <1>1, Records DEF Placed, SetsRow
<1>4. Marks'
  BY <1>0, <1>1, <1>2, <1>3 DEF Marks, Saving
<1>5. LocksHold'
  BY <1>0, <1>1, <1>2 DEF LocksHold, Locked, Saving, Syncing
<1>6. ASSUME hist'.slips = {} PROVE Lasting'
  <2> DEFINE overtaken == Overtaken(sync.seen)
  <2>1. SetsRow(sync.row, overtaken, {}) /\ PrefTyped /\ {} \in SUBSET Nat /\ overtaken \in BOOLEAN
    BY <1>0, <1>1 DEF Overtaken
  <2>2. /\ hist.slips = {} /\ ~overtaken
        /\ (StillShown /\ (mine # Nil => \A f \in Fields : sync.row.of[f].choice >= mine.of[f].choice))
              => StillShown'
    <3> HIDE DEF overtaken
    <3> QED BY <1>3, <1>6, <2>1, RowShown
  <2>3. Lasting
    BY <2>2 DEF ShownInv
  <2>4. sync.seen = mine
    BY <1>1, <2>2, <2>3 DEF Lasting, RunFollows, Since
  <2>5. mine # Nil => /\ Ahead(sync.row.of, mine.of)
                      /\ \A f \in Fields : sync.row.of[f].choice >= mine.of[f].choice
                      /\ sync.row.updated >= mine.updated
                      /\ sync.row.synced => mine.synced
    BY <1>1, <2>3, <2>4 DEF Lasting, RunFollows, Syncing
  <2>6. StillShown'
    BY <2>2, <2>3, <2>5 DEF Lasting
  <2>7. SavesFollow'
    <3>1. ASSUME NEW s \in Savers PROVE SaveFollows(s)'
      <4>1. SaveFollows(s) /\ saver'[s] = saver[s] /\ server' = server /\ sync'.at # "judge"
        BY <1>1, <1>2, <2>3 DEF Lasting, SavesFollow
      <4> QED BY <1>0, <1>3, <2>5, <4>1, SaverGoesOn
    <3> QED BY <3>1 DEF SavesFollow
  <2>8. DocsFollow'
    BY <1>1, <1>2, <1>3, <2>3 DEF Lasting, DocsFollow, Syncing
  <2>9. RunFollows'
    BY <1>2 DEF RunFollows, Syncing
  <2>10. OpsFollow'
    <3>1. /\ mine # Nil => mine.of \in Values /\ mine.updated \in Nat
          /\ sync.row.of \in Values /\ sync.row.updated \in Nat
          /\ sync.op # Nil => sync.op.of \in Values /\ sync.op.updated \in Nat
          /\ queue # Nil => queue.of \in Values /\ queue.updated \in Nat
      BY <1>0, <1>3, Records
    <3>2. (Pushing' => Pushing) /\ (Pushing => sync.op # Nil /\ mine # Nil) /\ (queue # Nil => mine # Nil)
      BY <1>0, <1>1, <1>2 DEF Pushing, Placed
    <3>3. ASSUME Pushing PROVE Ahead(sync.row.of, sync.op.of) /\ sync.op.updated <= sync.row.updated
      <4>1. Ahead(mine.of, sync.op.of) /\ sync.op.updated <= mine.updated
        BY <2>3, <3>3 DEF Lasting, OpsFollow, Past
      <4> QED BY <2>5, <3>1, <3>2, <3>3, <4>1, RecordsOrdered
    <3>4. ASSUME queue # Nil
          PROVE  /\ Ahead(sync.row.of, queue.of) /\ queue.updated <= sync.row.updated
                 /\ sync.row.synced => queue.updated < sync.row.updated
      <4>1. /\ Ahead(mine.of, queue.of) /\ queue.updated <= mine.updated
            /\ mine.synced => queue.updated < mine.updated
        BY <2>3, <3>4 DEF Lasting, OpsFollow, Past
      <4> QED BY <2>5, <3>1, <3>2, <3>4, <4>1, RecordsOrdered
    <3>5. queue' = queue /\ (Pushing' => sync'.at = "rebuild") /\ sync'.at \in {"rebuild", "refresh"}
      BY <1>1, <1>2 DEF Pushing
    <3> QED BY <1>2, <1>3, <3>2, <3>3, <3>4, <3>5 DEF OpsFollow, Past, Syncing
  <2> QED BY <2>6, <2>7, <2>8, <2>9, <2>10 DEF Lasting
<1> QED BY <1>4, <1>5, <1>6 DEF ShownInv

LEMMA StoreShown == ASSUME PrefInv, PrefTyped', ShownInv, SyncStores PROVE ShownInv'
<1> USE NilAssumption, NilIsNothing
<1>0. /\ PrefTyped /\ Marks /\ LocksHold /\ Placed /\ sync \in SyncRun
  BY Records DEF PrefInv, ShownInv, PrefTyped
<1> DEFINE copy == [of |-> sync.rec.of, updated |-> sync.rec.updated, synced |-> TRUE,
                    base |-> sync.rec.updated]
<1>1. /\ sync.at = "store" /\ SetsRow(copy, Overtaken(sync.seen), {})
      /\ sync' = [IdleSync EXCEPT !.at = "list"]
      /\ UNCHANGED <<clock, server, queue, saver, theirs, left>>
  BY DEF SyncStores, Syncing
<1>2. sync'.op = Nil /\ sync'.rec = Nil /\ sync'.row = Nil /\ sync'.at = "list"
  BY <1>1 DEF IdleSync
<1>3. sync.rec # Nil /\ sync.rec.of \in Values /\ sync.rec.updated \in Nat /\ mine # Nil
      /\ mine.of \in Values /\ mine.updated \in Nat
  BY <1>0, <1>1, Records DEF Placed, Pushing
<1>4. copy \in PrefRow /\ copy.of = sync.rec.of /\ copy.updated = sync.rec.updated
  BY <1>3 DEF PrefRow
<1> HIDE DEF copy
<1>5. mine' = copy /\ mine' # Nil
  BY <1>1, <1>4 DEF SetsRow
<1>6. Marked(copy.of, clock) /\ copy.updated <= clock
  BY <1>0, <1>3, <1>4, Records DEF Marks
<1>7. Marks'
  BY <1>0, <1>1, <1>2, <1>5, <1>6 DEF Marks, Saving
<1>8. LocksHold'
  BY <1>0, <1>1, <1>2 DEF LocksHold, Locked, Saving, Syncing
<1>9. ASSUME hist'.slips = {} PROVE Lasting'
  <2> DEFINE overtaken == Overtaken(sync.seen)
  <2>1. SetsRow(copy, overtaken, {}) /\ PrefTyped /\ {} \in SUBSET Nat /\ overtaken \in BOOLEAN
    BY <1>0, <1>1 DEF Overtaken
  <2>2. /\ hist.slips = {} /\ ~overtaken
        /\ (StillShown /\ (mine # Nil => \A f \in Fields : copy.of[f].choice >= mine.of[f].choice))
              => StillShown'
    <3> HIDE DEF overtaken
    <3> QED BY <1>4, <1>9, <2>1, RowShown
  <2>3. Lasting
    BY <2>2 DEF ShownInv
  <2>4. sync.seen = mine /\ sync.rec.of = mine.of /\ mine.updated < sync.rec.updated
    BY <1>1, <2>2, <2>3 DEF Lasting, RunFollows, Since, Syncing
  <2>5. copy.of = mine.of /\ mine.updated < copy.updated /\ Ahead(mine.of, mine.of)
    BY <1>3, <1>4, <2>4, RecordsOrdered
  <2>6. StillShown'
    <3>1. \A f \in Fields : mine.of[f].choice \in Nat
      BY <1>3 DEF Values, Value
    <3> QED BY <2>2, <2>3, <2>5, <3>1 DEF Lasting
  <2>7. SavesFollow'
    <3>1. ASSUME NEW s \in Savers PROVE SaveFollows(s)'
      <4>1. SaveFollows(s) /\ saver'[s] = saver[s] /\ server' = server /\ sync'.at # "judge"
        BY <1>1, <1>2, <2>3 DEF Lasting, SavesFollow
      <4> QED BY <1>0, <1>4, <1>5, <2>5, <4>1, SaverGoesOn
    <3> QED BY <3>1 DEF SavesFollow
  <2>8. DocsFollow'
    BY <1>1, <1>2, <1>3, <1>5, <2>3, <2>5 DEF Lasting, DocsFollow, Syncing
  <2>9. RunFollows'
    BY <1>2 DEF RunFollows, Syncing
  <2>10. OpsFollow'
    <3>1. queue # Nil => Ahead(mine.of, queue.of) /\ queue.updated <= mine.updated /\ queue.updated \in Nat
      BY <1>0, <2>3, Records DEF Lasting, OpsFollow, Past
    <3>2. queue' = queue /\ ~Pushing'
      BY <1>1, <1>2 DEF Pushing
    <3>3. copy.updated \in Nat
      BY <1>3, <1>4
    <3>4. queue # Nil => queue.updated < copy.updated
      BY <1>3, <2>5, <3>1, <3>3
    <3> QED BY <1>5, <2>5, <3>1, <3>2, <3>3, <3>4 DEF OpsFollow, Past
  <2> QED BY <2>6, <2>7, <2>8, <2>9, <2>10 DEF Lasting
<1> QED BY <1>7, <1>8, <1>9 DEF ShownInv

LEMMA SendShown == ASSUME PrefInv, PrefTyped', ShownInv, SyncSends PROVE ShownInv'
<1> USE NilAssumption, NilIsNothing
<1>0. /\ PrefTyped /\ Marks /\ LocksHold /\ Placed /\ Dated /\ sync \in SyncRun /\ clock \in Nat
  BY Records DEF PrefInv, ShownInv, PrefTyped
<1>1. /\ sync.at = "send" /\ server' = [of |-> sync.op.of, updated |-> clock + 1]
      /\ sync' = [sync EXCEPT !.at = "settle", !.rec = server']
      /\ hist' = [hist EXCEPT !.sent = @ \union {sync.op.of[f].choice : f \in Fields}]
      /\ clock' = clock + 1
      /\ UNCHANGED <<mine, queue, saver, theirs, left>>
  BY DEF SyncSends, Tick, Syncing
<1>2. /\ sync'.op = sync.op /\ sync'.rec = server' /\ sync'.row = sync.row
      /\ sync'.at = "settle" /\ server'.of = sync.op.of /\ server'.updated = clock + 1
  BY <1>0, <1>1 DEF SyncRun
<1>3. server' # Nil
  <2>1. server' \in PrefDoc
    <3>1. sync.op # Nil /\ sync.op.of \in Values
      BY <1>0, <1>1, Records DEF Placed, Pushing
    <3> QED BY <1>0, <1>1, <3>1 DEF PrefDoc
  <2> QED BY <2>1
<1>4. hist'.slips = hist.slips /\ hist'.seen = hist.seen
  BY <1>0, <1>1 DEF PrefTyped, PrefTypeOK
<1>5. /\ sync.op # Nil /\ sync.op.of \in Values /\ sync.op.updated \in Nat
      /\ mine # Nil /\ mine.of \in Values /\ mine.updated \in Nat
  BY <1>0, <1>1, Records DEF Placed, Pushing
<1>6. Marks'
  <2>1. /\ Marked(sync.op.of, clock + 1) /\ clock + 1 \in 1..(clock + 1)
        /\ mine.updated <= clock + 1 /\ Marked(mine.of, clock + 1)
    BY <1>0, <1>5, MarksTick
  <2>2. /\ queue # Nil => Marked(queue.of, clock + 1)
        /\ sync.row # Nil => Marked(sync.row.of, clock + 1) /\ sync.row.updated <= clock + 1
        /\ \A s \in Savers : /\ saver[s].seen # Nil => Marked(saver[s].seen.of, clock + 1)
                             /\ saver[s].at = "locked" => Marked(saver[s].row.of, clock + 1)
        /\ theirs # Nil => theirs.at \in 1..(clock + 1)
    BY <1>0, MarksTick DEF Saving
  <2> QED BY ONLY <1>1, <1>2, <1>3, <1>5, <2>1, <2>2 DEF Marks, Saving
<1>7. LocksHold'
  BY <1>0, <1>1, <1>2, <1>3 DEF LocksHold, Locked, Saving, Syncing
<1>8. ASSUME hist'.slips = {} PROVE Lasting'
  <2>1. Lasting
    BY <1>4, <1>8 DEF ShownInv
  <2>2. StillShown'
    BY <1>1, <1>4, <2>1 DEF Lasting, StillShown
  <2>3. Ahead(mine.of, sync.op.of) /\ sync.op.updated <= mine.updated
    BY <1>1, <2>1 DEF Lasting, OpsFollow, Past, Pushing
  <2>4. ASSUME NEW s \in Savers, Saving(s, "locked"), ~Overtaken(saver[s].seen)
        PROVE  NotBehind(sync.op.of, saver[s].row.of)
    <3> DEFINE call == saver[s]
    <3>1. call.seen # Nil /\ call.seen.of = mine.of /\ call.row.of \in Values /\ call.row.updated \in Nat
      BY <1>0, <1>5, <2>4, Records DEF Overtaken
    <3>2. SaveFollows(s) /\ Locked(s)
      BY <1>0, <2>1, <2>4 DEF Lasting, SavesFollow, LocksHold
    <3>3. ASSUME NEW f \in Fields PROVE ~(Rank(sync.op.of[f]) > Rank(call.row.of[f]))
      <4>1. sync.op.of[f] \in Value /\ mine.of[f] \in Value /\ call.row.of[f] \in Value
        BY <1>5, <3>1 DEF Values
      <4>2. Rank(sync.op.of[f]) <= Rank(mine.of[f])
        BY <2>3, <4>1, Ordered DEF Ahead
      <4>3. CASE f \in call.patch
        <5>1. Rank(mine.of[f]) < Rank(call.row.of[f])
          BY <3>1, <3>2, <4>3 DEF Locked, Rank
        <5> QED BY <4>1, <4>2, <5>1, Ordered
      <4>4. CASE f \notin call.patch
        <5>1. Follows(call.row.of[f], mine.of[f])
          BY <2>4, <3>1, <3>2, <4>4 DEF SaveFollows
        <5> QED BY <4>1, <4>2, <5>1, Ordered
      <4> QED BY <4>3, <4>4
    <3> QED BY <3>3 DEF NotBehind
  <2>5. SavesFollow'
    <3>1. ASSUME NEW s \in Savers PROVE SaveFollows(s)'
      <4>1. SaveFollows(s)
        BY <2>1 DEF Lasting, SavesFollow
      <4> QED BY <1>1, <1>2, <1>3, <2>4, <4>1 DEF SaveFollows, Overtaken, Saving, Syncing
    <3> QED BY <3>1 DEF SavesFollow
  <2>6. DocsFollow'
    BY <1>1, <1>2, <1>5, <2>3, RecordsOrdered DEF DocsFollow, Syncing
  <2>7. RunFollows'
    <3>1. sync.op.updated < clock + 1
      BY <1>0, <1>5, <2>3 DEF Marks
    <3> QED BY <1>2, <3>1 DEF RunFollows, Syncing
  <2>8. OpsFollow'
    BY <1>1, <1>2, <2>1 DEF Lasting, OpsFollow, Past, Pushing, Syncing
  <2> QED BY <2>2, <2>5, <2>6, <2>7, <2>8 DEF Lasting
<1> QED BY <1>6, <1>7, <1>8 DEF ShownInv

LEMMA SettleShown == ASSUME PrefInv, PrefTyped', ShownInv, SyncSettles PROVE ShownInv'
<1>0. /\ PrefTyped /\ Marks /\ LocksHold /\ Placed /\ sync \in SyncRun
  BY Records DEF PrefInv, ShownInv, PrefTyped
<1>1. /\ sync.at = "settle" /\ sync' = [sync EXCEPT !.at = "adopt"]
      /\ queue' = Nil \/ queue' = queue
      /\ UNCHANGED <<clock, mine, server, saver, theirs, left, hist>>
  BY DEF SyncSettles, Moves, Syncing
<1>2. /\ sync'.op = sync.op /\ sync'.rec = sync.rec /\ sync'.row = sync.row
      /\ sync'.at = "adopt"
  BY <1>0, <1>1 DEF SyncRun
<1>3. Marks'
  BY <1>0, <1>1, <1>2 DEF Marks, Saving
<1>4. LocksHold'
  BY <1>0, <1>1, <1>2 DEF LocksHold, Locked, Saving, Syncing
<1>5. ASSUME hist'.slips = {} PROVE Lasting'
  <2>1. Lasting
    BY <1>1, <1>5 DEF ShownInv
  <2>2. StillShown'
    BY <1>1, <2>1 DEF Lasting, StillShown
  <2>3. SavesFollow'
    BY <1>1, <1>2, <2>1 DEF Lasting, SavesFollow, SaveFollows, Overtaken, Saving, Syncing
  <2>4. DocsFollow'
    BY <1>1, <1>2, <2>1 DEF Lasting, DocsFollow, Syncing
  <2>5. RunFollows'
    BY <1>1, <1>2, <2>1 DEF Lasting, RunFollows, Syncing
  <2>6. OpsFollow'
    BY <1>1, <1>2, <2>1 DEF Lasting, OpsFollow, Past, Pushing, Syncing
  <2> QED BY <2>2, <2>3, <2>4, <2>5, <2>6 DEF Lasting
<1> QED BY <1>3, <1>4, <1>5 DEF ShownInv

LEMMA EnqueueShown == ASSUME PrefInv, PrefTyped', ShownInv, SyncEnqueues PROVE ShownInv'
<1> USE NilAssumption, NilIsNothing
<1>0. /\ PrefTyped /\ Marks /\ LocksHold /\ Placed /\ Dated /\ sync \in SyncRun /\ clock \in Nat
  BY Records DEF PrefInv, ShownInv, PrefTyped
<1> DEFINE slips == IF Overtaken(sync.row) THEN hist.slips \union {"overtaken"} ELSE hist.slips
<1>1. /\ sync.at = "enqueue"
      /\ queue' = [key |-> clock, create |-> FALSE, of |-> sync.row.of, updated |-> sync.row.updated]
      /\ hist' = [hist EXCEPT !.slips = slips]
      /\ sync' = IdleSync /\ clock' = clock + 1
      /\ UNCHANGED <<mine, server, saver, theirs, left>>
  BY DEF SyncEnqueues, Tick, Syncing
<1>2. sync'.op = Nil /\ sync'.rec = Nil /\ sync'.row = Nil /\ sync'.at = "idle"
  BY <1>1 DEF IdleSync
<1>3. slips = {} => hist.slips = {} /\ ~Overtaken(sync.row)
  OBVIOUS
<1> HIDE DEF slips
<1>4. hist'.slips = slips /\ hist'.seen = hist.seen
  BY <1>0, <1>1 DEF PrefTyped, PrefTypeOK
<1>5. /\ sync.row # Nil /\ sync.row.of \in Values /\ sync.row.updated \in Nat
      /\ queue'.of = sync.row.of /\ queue'.updated = sync.row.updated
  BY <1>0, <1>1, Records DEF Placed
<1>6. Marks'
  BY <1>0, <1>1, <1>2, <1>5, MarksTick DEF Marks, Saving
<1>7. LocksHold'
  BY <1>0, <1>1, <1>2 DEF LocksHold, Locked, Saving, Syncing
<1>8. ASSUME hist'.slips = {} PROVE Lasting'
  <2>1. Lasting /\ ~Overtaken(sync.row)
    BY <1>3, <1>4, <1>8 DEF ShownInv
  <2>2. StillShown'
    BY <1>1, <1>4, <2>1 DEF Lasting, StillShown
  <2>3. SavesFollow'
    BY <1>1, <1>2, <2>1 DEF Lasting, SavesFollow, SaveFollows, Overtaken, Saving, Syncing
  <2>4. DocsFollow'
    BY <1>1, <1>2, <2>1 DEF Lasting, DocsFollow, Syncing
  <2>5. RunFollows'
    BY <1>2 DEF RunFollows, Syncing
  <2>6. sync.row = mine /\ ~mine.synced
    BY <1>1, <2>1 DEF Lasting, RunFollows, Since, Syncing
  <2>7. Ahead(mine.of, mine.of)
    BY <1>5, <2>6, RecordsOrdered
  <2>8. OpsFollow'
    BY <1>1, <1>2, <1>5, <2>6, <2>7 DEF OpsFollow, Past, Pushing, Syncing
  <2> QED BY <2>2, <2>3, <2>4, <2>5, <2>8 DEF Lasting
<1> QED BY <1>6, <1>7, <1>8 DEF ShownInv

LEMMA BreakShown ==
  ASSUME PrefInv, ShownInv, NEW saves \in [Savers -> SaveCall], SyncBreaks(saves),
         \A s \in Savers : saves[s] = saver[s] \/ saves[s] = IdleSaver,
         UNCHANGED <<clock, mine, server, queue, theirs>>
  PROVE  ShownInv'
<1>0. /\ PrefTyped /\ Marks /\ LocksHold /\ Placed
  BY Records DEF PrefInv, ShownInv, PrefTyped
<1> DEFINE slips == IF MergedUnsent THEN hist.slips \union {"unsent"} ELSE hist.slips
<1>1. sync' = IdleSync /\ saver' = saves /\ hist' = [hist EXCEPT !.slips = slips]
  BY DEF SyncBreaks
<1>2. sync'.op = Nil /\ sync'.rec = Nil /\ sync'.row = Nil /\ sync'.at = "idle"
  BY <1>1 DEF IdleSync
<1>3. slips = {} => hist.slips = {} /\ ~MergedUnsent
  OBVIOUS
<1> HIDE DEF slips
<1>4. hist'.slips = slips /\ hist'.seen = hist.seen
  BY <1>0, <1>1 DEF PrefTyped, PrefTypeOK
<1>5. \A s \in Savers : \/ saver'[s] = saver[s]
                        \/ saver'[s].at = "idle" /\ saver'[s].seen = Nil
  BY <1>1 DEF IdleSaver
<1>6. Marks'
  BY <1>0, <1>2, <1>5 DEF Marks, Saving
<1>7. LocksHold'
  BY <1>0, <1>2, <1>5 DEF LocksHold, Locked, Saving, Syncing
<1>8. ASSUME hist'.slips = {} PROVE Lasting'
  <2>1. Lasting /\ ~MergedUnsent
    BY <1>3, <1>4, <1>8 DEF ShownInv
  <2>2. StillShown'
    BY <1>4, <2>1 DEF Lasting, StillShown
  <2>3. SavesFollow'
    BY <1>2, <1>5, <2>1 DEF Lasting, SavesFollow, SaveFollows, Overtaken, Saving, Syncing
  <2>4. DocsFollow'
    BY <1>2, <2>1 DEF Lasting, DocsFollow, Syncing
  <2>5. RunFollows'
    BY <1>2 DEF RunFollows, Syncing
  <2>6. OpsFollow'
    BY <1>0, <1>2, <2>1 DEF Lasting, OpsFollow, Past, Pushing, Syncing, MergedUnsent, Placed
  <2> QED BY <2>2, <2>3, <2>4, <2>5, <2>6 DEF Lasting
<1> QED BY <1>6, <1>7, <1>8 DEF ShownInv

-----------------------------------------------------------------------------
(* Saves                                                                    *)

(* A step that moves one save only.                                         *)
LEMMA SaverShifts ==
  ASSUME PrefInv, ShownInv, NEW s \in Savers, clock' = clock \/ clock' = clock + 1,
         UNCHANGED <<mine, server, queue, sync, theirs, hist>>,
         \A u \in Savers : u # s => saver'[u] = saver[u],
         saver'[s].fields # {},
         saver'[s].seen # Nil => Marked(saver'[s].seen.of, clock'),
         saver'[s].at = "locked" => Marked(saver'[s].row.of, clock') /\ Locked(s)',
         hist.slips = {} => SaveFollows(s)'
  PROVE  ShownInv'
<1>0. PrefTyped /\ Marks /\ LocksHold
  BY DEF PrefInv, ShownInv
<1>1. Marks'
  <2>1. CASE clock' = clock
    BY <1>0, <2>1 DEF Marks, Saving
  <2>2. CASE clock' = clock + 1
    <3>1. \A u \in Savers : /\ saver'[u].seen # Nil => Marked(saver'[u].seen.of, clock + 1)
                            /\ saver'[u].at = "locked" => Marked(saver'[u].row.of, clock + 1)
      BY <1>0, <2>2, MarksTick DEF Saving
    <3>2. /\ mine # Nil => Marked(mine.of, clock + 1) /\ mine.updated <= clock + 1
          /\ server # Nil => Marked(server.of, clock + 1) /\ server.updated \in 1..(clock + 1)
          /\ queue # Nil => Marked(queue.of, clock + 1)
          /\ sync.op # Nil => Marked(sync.op.of, clock + 1)
          /\ sync.rec # Nil => Marked(sync.rec.of, clock + 1) /\ sync.rec.updated \in 1..(clock + 1)
          /\ sync.row # Nil => Marked(sync.row.of, clock + 1) /\ sync.row.updated <= clock + 1
          /\ theirs # Nil => theirs.at \in 1..(clock + 1)
      BY <1>0, MarksTick
    <3>3. UNCHANGED <<mine, server, queue, sync, theirs, hist>>
      OBVIOUS
    <3> QED BY ONLY <2>2, <3>1, <3>2, <3>3 DEF Marks, Saving
  <2> QED BY <2>1, <2>2
<1>2. LocksHold'
  <2>1. ASSUME NEW u \in Savers, u # s PROVE Locked(u)' <=> Locked(u)
    BY <2>1 DEF Locked
  <2> QED BY <1>0, <2>1 DEF LocksHold, Saving, Syncing
<1>3. ASSUME hist.slips = {} PROVE Lasting'
  <2>1. Lasting
    BY <1>3 DEF ShownInv
  <2>2. StillShown'
    BY <2>1 DEF Lasting, StillShown
  <2>3. SavesFollow'
    <3>1. ASSUME NEW u \in Savers PROVE SaveFollows(u)'
      <4>1. CASE u # s
        BY <2>1, <4>1 DEF Lasting, SavesFollow, SaveFollows, Overtaken, Saving, Syncing
      <4>2. CASE u = s
        BY <1>3, <4>2
      <4> QED BY <4>1, <4>2
    <3> QED BY <3>1 DEF SavesFollow
  <2>4. DocsFollow'
    BY <2>1 DEF Lasting, DocsFollow, Syncing
  <2>5. RunFollows'
    BY <2>1 DEF Lasting, RunFollows, Since, Overtaken, Syncing
  <2>6. OpsFollow'
    BY <2>1 DEF Lasting, OpsFollow, Past, Pushing, Syncing
  <2> QED BY <2>2, <2>3, <2>4, <2>5, <2>6 DEF Lasting
<1> QED BY <1>1, <1>2, <1>3 DEF ShownInv

LEMMA ReadShown ==
  ASSUME PrefInv, ShownInv, NEW s \in Savers, PrefReads(s) \/ PrefDiffs(s)
  PROVE  ShownInv'
<1>0. /\ PrefTyped /\ Marks /\ LocksHold /\ saver \in [Savers -> SaveCall] /\ saver[s] \in SaveCall
      /\ hist.slips = {} => SaveFollows(s)
  BY Records DEF PrefInv, ShownInv, Lasting, SavesFollow
<1>1. CASE PrefReads(s)
  <2>1. PICK fields \in (SUBSET Fields) \ {{}} :
          saver' = [saver EXCEPT ![s] = [IdleSaver EXCEPT !.at = "read", !.fields = fields,
                                                          !.seen = mine]]
    BY <1>1 DEF PrefReads
  <2> DEFINE call == [IdleSaver EXCEPT !.at = "read", !.fields = fields, !.seen = mine]
  <2>2. call.at = "read" /\ call.fields = fields /\ call.seen = mine
    BY DEF IdleSaver
  <2>3. saver' = [saver EXCEPT ![s] = call]
    BY <2>1
  <2> HIDE DEF call
  <2>4. saver'[s] = call /\ \A u \in Savers : u # s => saver'[u] = saver[u]
    BY <1>0, <2>3
  <2>5. UNCHANGED <<clock, mine, server, queue, sync, theirs, hist>>
    BY <1>1 DEF PrefReads
  <2>6. mine # Nil => Marked(mine.of, clock) /\ Ahead(mine.of, mine.of)
    BY <1>0, Records, RecordsOrdered DEF Marks
  <2>7. SaveFollows(s)'
    BY <2>2, <2>4, <2>5, <2>6 DEF SaveFollows, Saving
  <2> QED BY <2>2, <2>4, <2>5, <2>6, <2>7, SaverShifts
<1>2. CASE PrefDiffs(s)
  <2> DEFINE was(f) == IF saver[s].seen = Nil THEN 0 ELSE saver[s].seen.of[f].choice
  <2> DEFINE patch == IF mine = Nil THEN Fields
                      ELSE saver[s].fields \union {f \in Fields : was(f) # mine.of[f].choice}
  <2>1. saver' = [saver EXCEPT ![s] = [@ EXCEPT !.at = "diffed", !.patch = patch]]
    BY <1>0, <1>2 DEF PrefDiffs, SaveCall
  <2>2. mine = Nil => patch = Fields
    OBVIOUS
  <2> HIDE DEF patch
  <2>3. /\ saver'[s].at = "diffed" /\ saver'[s].patch = patch
        /\ saver'[s].fields = saver[s].fields /\ saver'[s].seen = saver[s].seen
        /\ \A u \in Savers : u # s => saver'[u] = saver[u]
    BY <1>0, <2>1 DEF SaveCall
  <2>4. UNCHANGED <<clock, mine, server, queue, sync, theirs, hist>> /\ saver[s].at = "read"
    BY <1>2 DEF PrefDiffs, Saving
  <2>5. saver[s].fields # {} /\ (saver[s].seen # Nil => Marked(saver[s].seen.of, clock))
    BY <1>0, <2>4 DEF LocksHold, Marks, Saving
  <2>6. hist.slips = {} => SaveFollows(s)'
    BY <1>0, <2>2, <2>3, <2>4 DEF SaveFollows, Saving
  <2> QED BY <2>3, <2>4, <2>5, <2>6, SaverShifts
<1> QED BY <1>1, <1>2

LEMMA LockShown ==
  ASSUME PrefInv, ShownInv, NEW s \in Savers, PrefLocks(s)
  PROVE  ShownInv'
<1> USE NilAssumption, NilIsNothing
<1> DEFINE call == saver[s]
           time == clock + 1
           of == IF mine = Nil THEN Unmarked ELSE mine.of
           kept(f) == IF call.seen = Nil THEN 0 ELSE call.seen.of[f].choice
           values == [f \in Fields |-> IF f \notin call.patch THEN of[f]
                        ELSE [choice |-> IF f \in call.fields THEN time ELSE kept(f), stamp |-> time]]
           base == IF mine = Nil THEN Nil ELSE mine.base
           copy == [of |-> values, updated |-> time, synced |-> FALSE, base |-> base]
<1>0. /\ PrefTyped /\ Marks /\ LocksHold /\ Placed /\ saver \in [Savers -> SaveCall] /\ saver[s] \in SaveCall
      /\ clock \in Nat /\ call.fields \subseteq Fields /\ call.patch \subseteq Fields
      /\ hist.slips = {} => SaveFollows(s)
  BY Records DEF PrefInv, ShownInv, Lasting, SavesFollow, PrefTyped
<1>1. saver' = [saver EXCEPT ![s] = [@ EXCEPT !.at = "locked", !.row = copy, !.create = (mine = Nil)]]
  BY <1>0 DEF PrefLocks, SaveCall
<1>2. /\ UNCHANGED <<mine, server, queue, sync, theirs, hist>> /\ clock' = time
      /\ call.at = "diffed"
  BY DEF PrefLocks, Tick, Saving
<1>3. /\ \A f \in call.patch : /\ values[f].stamp = time
                               /\ values[f].choice = IF f \in call.fields THEN time ELSE kept(f)
      /\ \A f \in Fields \ call.patch : values[f] = of[f]
  BY <1>0
<1>4. /\ copy.of = values /\ copy.updated = time /\ copy.synced = FALSE
  OBVIOUS
<1>5. /\ Marked(of, time) /\ time \in 1..time /\ time \in Nat
      /\ call.seen # Nil => Marked(call.seen.of, time) /\ Marked(call.seen.of, clock) /\ call.seen.of \in Values
      /\ of \in Values
  <2>1. Marked(Unmarked, time) /\ Unmarked \in Values
    BY Blanks DEF Marked, Unmarked, Default
  <2> QED BY <1>0, <2>1, MarksTick, Records DEF Marks
<1> HIDE DEF values, base, of
<1>6. \A f \in Fields : kept(f) \in Nat /\ kept(f) < time
  <2>1. CASE call.seen = Nil
    BY <1>0, <2>1
  <2>2. CASE call.seen # Nil
    <3>1. \A f \in Fields : /\ call.seen.of[f].choice \in Nat
                            /\ call.seen.of[f].choice <= Rank(call.seen.of[f])
                            /\ Rank(call.seen.of[f]) \in 0..clock
      BY ONLY <1>0, <1>5, <2>2, MarkedIs
    <3> QED BY <1>0, <2>2, <3>1
  <2> QED BY <2>1, <2>2
<1> HIDE DEF kept
<1>7. Marked(values, time)
  <2> SUFFICES ASSUME NEW f \in Fields
               PROVE  IF values[f].stamp = Nil THEN values[f].choice = 0
                      ELSE values[f].stamp \in 1..time /\ values[f].choice <= values[f].stamp
    BY DEF Marked
  <2>1. CASE f \in call.patch
    BY <1>3, <1>5, <1>6, <2>1
  <2>2. CASE f \notin call.patch
    BY <1>3, <1>5, <2>2 DEF Marked
  <2> QED BY <2>1, <2>2
<1> HIDE DEF copy
<1>8. /\ saver'[s].at = "locked" /\ saver'[s].row = copy /\ saver'[s].seen = call.seen
      /\ saver'[s].fields = call.fields /\ saver'[s].patch = call.patch
      /\ \A u \in Savers : u # s => saver'[u] = saver[u]
  BY <1>0, <1>1 DEF SaveCall
<1>9. call.fields # {} /\ call.fields \subseteq call.patch
  BY <1>0, <1>2 DEF LocksHold, Placed, Saving
<1>10. Locked(s)'
  <2>1. call.seen # Nil => \A f \in Fields : Rank(call.seen.of[f]) < time
    BY <1>0, <1>5, MarkedIs
  <2>2. \A f \in call.patch \ call.fields :
          values[f].choice = IF call.seen = Nil THEN 0 ELSE call.seen.of[f].choice
    BY <1>3 DEF kept
  <2> QED BY <1>3, <1>4, <1>8, <1>9, <2>1, <2>2 DEF Locked
<1>11. ASSUME hist.slips = {} PROVE SaveFollows(s)'
  <2>1. SaveFollows(s)
    BY <1>0, <1>11
  <2>2. ASSUME call.seen # Nil, NEW f \in Fields \ call.patch
        PROVE  Follows(values[f], call.seen.of[f]) /\ Follows(mine.of[f], values[f])
    <3>1. mine # Nil /\ Follows(mine.of[f], call.seen.of[f]) /\ values[f] = mine.of[f]
      BY <1>3, <2>1, <2>2 DEF SaveFollows, Ahead, of
    <3> QED BY <3>1 DEF Follows
  <2>3. ASSUME ~Overtaken(call.seen), NEW given \in Values, Marked(given, clock),
               mine # Nil => NotBehind(given, mine.of)
        PROVE  NotBehind(given, values)
    <3> SUFFICES ASSUME NEW f \in Fields, Rank(given[f]) > Rank(values[f])
                 PROVE  given[f].choice >= values[f].choice
      BY DEF NotBehind
    <3>1. CASE f \in call.patch
      <4>1. Rank(given[f]) \in 0..clock
        BY <1>0, <2>3, MarkedIs
      <4>2. Rank(values[f]) = time
        BY <1>3, <1>5, <3>1 DEF Rank
      <4> QED BY <1>0, <4>1, <4>2
    <3>2. CASE f \notin call.patch
      <4>1. mine # Nil
        BY <1>2, <2>1, <3>2 DEF SaveFollows
      <4> QED BY <1>3, <2>3, <3>2, <4>1 DEF NotBehind, of
    <3> QED BY <3>1, <3>2
  <2>4. ~Overtaken(call.seen) /\ server # Nil => NotBehind(server.of, values)
    BY <1>0, <1>11, <2>3, Records DEF Marks, ShownInv, Lasting, DocsFollow
  <2>5. ~Overtaken(call.seen) /\ Syncing("judge") => NotBehind(sync.rec.of, values)
    <3>1. Syncing("judge") => sync.rec # Nil
      BY <1>0 DEF Placed, Syncing
    <3> QED BY <1>0, <1>11, <2>3, <3>1, Records DEF Marks, ShownInv, Lasting, DocsFollow
  <2> QED BY <1>2, <1>4, <1>8, <2>1, <2>2, <2>4, <2>5 DEF SaveFollows, Overtaken, Saving, Syncing
<1>12. /\ clock' = clock + 1 /\ (saver'[s].seen # Nil => Marked(saver'[s].seen.of, clock'))
       /\ saver'[s].at = "locked" => Marked(saver'[s].row.of, clock')
  BY <1>2, <1>4, <1>5, <1>7, <1>8
<1> QED BY <1>2, <1>8, <1>9, <1>10, <1>11, <1>12, SaverShifts

LEMMA CommitShown ==
  ASSUME PrefInv, PrefTyped', ShownInv, NEW s \in Savers, PrefCommits(s)
  PROVE  ShownInv'
<1> USE NilAssumption, NilIsNothing
<1> DEFINE call == saver[s]
           copy == IF mine = Nil THEN call.row
             ELSE [call.row EXCEPT
                    !.updated = IF @ > mine.updated THEN @ ELSE mine.updated + 1,
                    !.base = IF mine.base # Nil THEN mine.base ELSE @]
           made == {copy.of[f].choice : f \in call.fields}
           overtaken == Overtaken(call.seen)
<1>0. /\ PrefTyped /\ Marks /\ LocksHold /\ Placed /\ Dated /\ sync \in SyncRun
      /\ saver \in [Savers -> SaveCall] /\ call \in SaveCall
      /\ clock \in Nat /\ call.fields \subseteq Fields /\ call.patch \subseteq Fields
  BY Records DEF PrefInv, ShownInv, PrefTyped
<1>1. /\ SetsRow(copy, overtaken, made)
      /\ queue' = [key |-> clock, create |-> call.create, of |-> copy.of, updated |-> copy.updated]
      /\ saver' = [saver EXCEPT ![s] = IdleSaver]
      /\ clock' = clock + 1
      /\ UNCHANGED <<server, sync, theirs, left>>
      /\ call.at = "locked"
  BY DEF PrefCommits, Tick, Saving
<1>2. /\ call.row \in PrefRow /\ call.row # Nil /\ call.row.of \in Values /\ call.row.updated \in 1..clock
      /\ mine \in PrefRow \union {Nil}
      /\ mine # Nil => mine \in PrefRow /\ mine.of \in Values /\ mine.updated \in Nat /\ mine.updated <= clock
      /\ Marked(call.row.of, clock + 1) /\ Locked(s) /\ call.fields # {}
  <2>1. call.row \in PrefRow /\ call.row # Nil /\ call.row.of \in Values /\ call.row.updated \in 1..clock
    BY <1>0, <1>1, Records DEF Dated, Saving
  <2>2. Marked(call.row.of, clock + 1) /\ Locked(s) /\ call.fields # {}
    BY <1>0, <1>1, MarksTick DEF LocksHold, Saving
  <2> QED BY <1>0, <2>1, <2>2, Records DEF Marks
<1>3. copy \in PrefRow /\ copy.of = call.row.of
  BY <1>2, Renumbered
<1>4. /\ copy.updated \in Nat /\ copy.updated <= clock + 1
      /\ mine # Nil => copy.updated > mine.updated
      /\ ~copy.synced
  <2>1. ~call.row.synced /\ call.row.updated \in Nat /\ call.row.updated <= clock
    BY <1>0, <1>2 DEF Locked
  <2>2. CASE mine = Nil
    BY <1>0, <2>1, <2>2
  <2>3. CASE mine # Nil
    <3> DEFINE newer == IF call.row.updated > mine.updated THEN call.row.updated ELSE mine.updated + 1
               base == IF mine.base # Nil THEN mine.base ELSE call.row.base
    <3>1. newer \in Nat /\ newer <= clock + 1 /\ newer > mine.updated
      BY <1>0, <1>2, <2>1, <2>3
    <3>2. copy = [call.row EXCEPT !.updated = newer, !.base = base]
      BY <1>2, <2>3 DEF PrefRow
    <3> HIDE DEF newer, base, copy
    <3>3. copy.updated = newer /\ copy.synced = call.row.synced
      BY <1>2, <3>2 DEF PrefRow
    <3> QED BY <2>1, <3>1, <3>3
  <2> QED BY <2>2, <2>3
<1> HIDE DEF copy
<1>5. made \subseteq Nat /\ copy.of \in Values
  BY <1>0, <1>2, <1>3 DEF Values, Value
<1> HIDE DEF made
<1>6. mine' = copy /\ mine' # Nil
  BY <1>1, <1>3 DEF SetsRow
<1>7. queue'.of = copy.of /\ queue'.updated = copy.updated
  BY <1>1
<1>8. /\ saver'[s].at = "idle" /\ saver'[s].seen = Nil
      /\ \A u \in Savers : u # s => saver'[u] = saver[u]
  BY <1>0, <1>1 DEF IdleSaver
<1>9. Marks'
  <2>1. /\ server # Nil => Marked(server.of, clock + 1) /\ server.updated \in 1..(clock + 1)
        /\ sync.op # Nil => Marked(sync.op.of, clock + 1)
        /\ sync.rec # Nil => Marked(sync.rec.of, clock + 1) /\ sync.rec.updated \in 1..(clock + 1)
        /\ sync.row # Nil => Marked(sync.row.of, clock + 1) /\ sync.row.updated <= clock + 1
        /\ theirs # Nil => theirs.at \in 1..(clock + 1)
    BY <1>0, MarksTick
  <2>2. \A u \in Savers : /\ saver'[u].seen # Nil => Marked(saver'[u].seen.of, clock + 1)
                          /\ saver'[u].at = "locked" => Marked(saver'[u].row.of, clock + 1)
    BY <1>0, <1>8, MarksTick DEF Saving
  <2> QED BY ONLY <1>1, <1>2, <1>3, <1>4, <1>6, <1>7, <2>1, <2>2 DEF Marks, Saving
<1>10. LocksHold'
  <2>1. ASSUME NEW u \in Savers, u # s PROVE Locked(u)' <=> Locked(u)
    BY <1>8, <2>1 DEF Locked
  <2> QED BY <1>0, <1>1, <1>8, <2>1 DEF LocksHold, Saving, Syncing
<1>11. ASSUME hist'.slips = {} PROVE Lasting'
  <2>1. /\ hist.slips = {} /\ ~overtaken
        /\ (StillShown /\ (mine # Nil => \A f \in Fields : copy.of[f].choice >= mine.of[f].choice))
              => StillShown'
    <3>1. overtaken \in BOOLEAN
      BY DEF Overtaken
    <3> HIDE DEF overtaken
    <3> QED BY <1>0, <1>1, <1>3, <1>5, <1>11, <3>1, RowShown
  <2>2. Lasting /\ SaveFollows(s)
    BY <2>1 DEF ShownInv, Lasting, SavesFollow
  <2>3. ASSUME mine # Nil, NEW f \in Fields
        PROVE  /\ Follows(copy.of[f], mine.of[f])
               /\ copy.of[f].choice >= mine.of[f].choice
               /\ f \in call.patch => copy.of[f] # mine.of[f]
    <3>1. call.seen # Nil /\ call.seen.of = mine.of
      BY <2>1, <2>3 DEF Overtaken
    <3>2. mine.of[f] \in Value /\ call.row.of[f] \in Value /\ Marked(mine.of, clock)
      BY <1>0, <1>2, <2>3 DEF Values, Marks
    <3>3. CASE f \in call.patch
      <4>1. Rank(mine.of[f]) < call.row.updated /\ call.row.of[f].stamp = call.row.updated
        BY <1>2, <3>1, <3>3 DEF Locked
      <4>2. Rank(call.row.of[f]) = call.row.updated
        BY <1>2, <4>1 DEF Rank
      <4>3. mine.of[f].choice \in Nat /\ mine.of[f].choice <= Rank(mine.of[f]) /\ Rank(mine.of[f]) \in Nat
        BY <1>0, <1>2, <2>3, <3>2, MarkedIs, Ordered
      <4>4. CASE f \in call.fields
        <5>1. call.row.of[f].choice = call.row.updated
          BY <1>0, <1>1, <4>4 DEF Dated, Saving
        <5> QED BY <1>2, <1>3, <4>1, <4>2, <4>3, <5>1 DEF Follows
      <4>5. CASE f \notin call.fields
        <5>1. call.row.of[f].choice = mine.of[f].choice
          BY <1>2, <3>1, <3>3, <4>5 DEF Locked
        <5> QED BY <1>2, <1>3, <4>1, <4>2, <4>3, <5>1 DEF Follows
      <4> QED BY <4>4, <4>5
    <3>4. CASE f \notin call.patch
      <4>1. Follows(call.row.of[f], mine.of[f]) /\ Follows(mine.of[f], call.row.of[f])
        BY <1>1, <2>2, <3>1, <3>4 DEF SaveFollows, Saving
      <4>2. call.row.of[f] = mine.of[f]
        BY <3>2, <4>1, Ordered
      <4> QED BY <1>3, <3>2, <3>4, <4>2, Ordered DEF Value
    <3> QED BY <3>3, <3>4
  <2>4. mine # Nil => Ahead(copy.of, mine.of) /\ copy.of # mine.of
    <3>1. \E f \in Fields : f \in call.patch
      BY <1>0, <1>2 DEF Locked
    <3> QED BY <2>3, <3>1 DEF Ahead
  <2>5. StillShown'
    BY <2>1, <2>2, <2>3 DEF Lasting
  <2>6. SavesFollow'
    <3>1. ASSUME NEW u \in Savers PROVE SaveFollows(u)'
      <4>1. CASE u # s
        <5>1. SaveFollows(u) /\ saver'[u] = saver[u] /\ server' = server /\ sync' = sync
          BY <1>1, <1>8, <2>2, <4>1 DEF Lasting, SavesFollow
        <5> QED BY <1>0, <1>3, <1>6, <2>4, <5>1, SaverGoesOn
      <4>2. CASE u = s
        BY <1>8, <4>2 DEF SaveFollows, Saving
      <4> QED BY <4>1, <4>2
    <3> QED BY <3>1 DEF SavesFollow
  <2>7. DocsFollow'
    <3>1. /\ server # Nil => NotBehind(server.of, copy.of)
          /\ Syncing("judge") => NotBehind(sync.rec.of, copy.of)
      BY <1>1, <1>3, <2>1, <2>2 DEF SaveFollows, Saving
    <3> QED BY <1>1, <1>6, <2>2, <3>1 DEF Lasting, DocsFollow, Syncing
  <2>8. RunFollows'
    <3>1. /\ Since(sync.seen) => Since(sync.seen)'
          /\ Since(sync.row) => Since(sync.row)'
      <4>1. /\ sync.seen \in PrefRow \union {Nil} /\ sync.row \in PrefRow \union {Nil}
            /\ sync'.seen = sync.seen /\ sync'.row = sync.row
        BY <1>0, <1>1 DEF SyncRun
      <4> QED BY <1>0, <1>3, <1>6, <2>4, <4>1, SinceGoesOn
    <3> QED BY <1>1, <2>2, <3>1 DEF Lasting, RunFollows, Syncing
  <2>9. OpsFollow'
    <3>1. Pushing => sync.op # Nil /\ mine # Nil /\ sync.op.of \in Values /\ sync.op.updated \in Nat
      BY <1>0, Records DEF Placed
    <3>2. ASSUME Pushing PROVE Ahead(copy.of, sync.op.of) /\ sync.op.updated < copy.updated
      <4>1. Ahead(mine.of, sync.op.of) /\ sync.op.updated <= mine.updated
        BY <2>2, <3>2 DEF Lasting, OpsFollow, Past
      <4> QED BY <1>2, <1>4, <1>5, <2>4, <3>1, <3>2, <4>1, RecordsOrdered
    <3>3. Ahead(copy.of, copy.of)
      BY <1>5, RecordsOrdered
    <3>4. Pushing' <=> Pushing
      BY <1>1 DEF Pushing
    <3>5. copy.updated <= copy.updated
      BY <1>4
    <3> QED BY <1>1, <1>4, <1>6, <1>7, <3>1, <3>2, <3>3, <3>4, <3>5 DEF OpsFollow, Past, Syncing
  <2> QED BY <2>5, <2>6, <2>7, <2>8, <2>9 DEF Lasting
<1> QED BY <1>9, <1>10, <1>11 DEF ShownInv

-----------------------------------------------------------------------------
(* The other device.                                                        *)
LEMMA TheyChooseShown ==
  ASSUME PrefInv, ShownInv, NEW f \in Fields, NEW first \in BOOLEAN, TheyChoose(f, first)
  PROVE  ShownInv'
<1>1. /\ theirs' = [field |-> f, at |-> clock + 1, first |-> first \/ server = Nil]
      /\ UNCHANGED <<mine, server, queue, saver, sync, hist>> /\ clock' = clock + 1
  BY DEF TheyChoose, Tick
<1>2. theirs'.at = clock + 1
  BY <1>1
<1>3. PrefTyped /\ Marks
  BY DEF PrefInv, ShownInv
<1>4. Marks'
  BY <1>1, <1>2, <1>3, MarksTick DEF Marks, Saving
<1>5. LocksHold'
  BY <1>1 DEF ShownInv, LocksHold, Locked, Saving, Syncing
<1>6. ASSUME hist'.slips = {} PROVE Lasting'
  <2>1. Lasting
    BY <1>1, <1>6 DEF ShownInv
  <2>2. StillShown' /\ DocsFollow'
    BY <1>1, <2>1 DEF Lasting, StillShown, DocsFollow, Syncing
  <2>3. SavesFollow'
    BY <1>1, <2>1 DEF Lasting, SavesFollow, SaveFollows, Saving, Syncing, Overtaken
  <2>4. RunFollows'
    BY <1>1, <2>1 DEF Lasting, RunFollows, Since, Overtaken, Syncing
  <2>5. OpsFollow'
    BY <1>1, <2>1 DEF Lasting, OpsFollow, Past, Pushing, Syncing
  <2> QED BY <2>2, <2>3, <2>4, <2>5 DEF Lasting
<1> QED BY <1>4, <1>5, <1>6 DEF ShownInv

(* A document in which one field is later than all there is takes back no   *)
(* more than the one before it.                                             *)
LEMMA LaterDocument ==
  ASSUME NEW time \in Nat, NEW was \in Values, NEW of \in Values, NEW x \in Values,
         Marked(x, time), NotBehind(was, x),
         NEW at \in Nat,
         \A f \in Fields : \/ of[f] = was[f]
                           \/ of[f].choice = at /\ of[f].stamp = at
  PROVE  NotBehind(of, x)
<1> SUFFICES ASSUME NEW f \in Fields, Rank(of[f]) > Rank(x[f])
             PROVE  of[f].choice >= x[f].choice
  BY DEF NotBehind
<1>1. x[f].choice \in Nat /\ x[f].choice <= Rank(x[f]) /\ Rank(x[f]) \in Nat
  BY MarkedIs
<1>2. CASE of[f] = was[f]
  BY <1>2 DEF NotBehind
<1>3. CASE of[f].choice = at /\ of[f].stamp = at
  <2>1. Rank(of[f]) = at
    BY <1>3, NilAssumption DEF Rank
  <2> QED BY <1>1, <1>3, <2>1
<1> QED BY <1>2, <1>3

LEMMA TheySendShown ==
  ASSUME PrefInv, PrefTyped', ShownInv, TheySend
  PROVE  ShownInv'
<1> USE NilAssumption, NilIsNothing
<1> DEFINE new == [choice |-> theirs.at, stamp |-> theirs.at]
           of == [f \in Fields |->
                  IF theirs.first THEN IF f = theirs.field THEN new ELSE [new EXCEPT !.choice = 0]
                  ELSE IF f = theirs.field /\ (server.of[f].stamp = Nil \/ server.of[f].stamp < theirs.at)
                       THEN new ELSE server.of[f]]
           others == server # Nil \/ mine # Nil \/ \E s \in Savers : ~Saving(s, "idle")
           slips == IF theirs.first /\ others THEN hist.slips \union {"first save"} ELSE hist.slips
<1>0. /\ PrefTyped /\ Marks /\ LocksHold /\ Placed /\ clock \in Nat
  BY Records DEF PrefInv, ShownInv, PrefTyped
<1>1. /\ theirs # Nil /\ server' = [of |-> of, updated |-> clock + 1]
      /\ hist' = [hist EXCEPT !.slips = slips] /\ theirs' = Nil /\ clock' = clock + 1
      /\ UNCHANGED <<mine, queue, saver, sync, left>>
  BY DEF TheySend, Tick
<1>2. theirs.at \in 1..(clock + 1) /\ theirs.at \in Nat
  <2> HIDE DEF of, others, slips, new
  <2>1. theirs.at \in 1..(clock + 1)
    BY <1>0, <1>1, MarksTick
  <2> QED BY <1>0, <2>1
<1>3. ASSUME NEW f \in Fields
      PROVE  \/ of[f].choice = theirs.at /\ of[f].stamp = theirs.at
             \/ theirs.first /\ of[f].choice = 0 /\ of[f].stamp = theirs.at
             \/ ~theirs.first /\ of[f] = server.of[f]
  <2>1. /\ new.choice = theirs.at /\ new.stamp = theirs.at
        /\ [new EXCEPT !.choice = 0].choice = 0 /\ [new EXCEPT !.choice = 0].stamp = theirs.at
    OBVIOUS
  <2>2. \/ of[f] = new
        \/ theirs.first /\ of[f] = [new EXCEPT !.choice = 0]
        \/ ~theirs.first /\ of[f] = server.of[f]
    OBVIOUS
  <2> HIDE DEF of, new
  <2> QED BY <2>1, <2>2
<1>4. slips = {} => hist.slips = {} /\ (theirs.first => ~others)
  OBVIOUS
<1>7. ~theirs.first => server # Nil
  BY <1>0, <1>1 DEF Placed
<1>12. of \in Values
  <2>1. new \in Value /\ [new EXCEPT !.choice = 0] \in Value
    BY <1>2 DEF Value
  <2>2. ~theirs.first => \A f \in Fields : server.of[f] \in Value
    BY <1>0, <1>7, Records DEF Values
  <2> HIDE DEF new
  <2> QED BY <2>1, <2>2 DEF Values
<1> HIDE DEF of, slips
<1>5. hist'.slips = slips /\ hist'.seen = hist.seen
  BY <1>0, <1>1 DEF PrefTyped, PrefTypeOK
<1>6. server' # Nil /\ server'.of = of /\ server'.updated = clock + 1
  <2>1. server' \in PrefDoc
    BY <1>0, <1>1, <1>12 DEF PrefDoc
  <2> QED BY <1>1, <2>1
<1>8. Marked(of, clock + 1)
  <2>1. ~theirs.first => Marked(server.of, clock + 1)
    BY <1>0, <1>7, MarksTick
  <2> QED BY <1>2, <1>3, <2>1 DEF Marked
<1>9. Marks'
  <2>1. clock + 1 \in 1..(clock + 1)
    BY <1>0
  <2> QED BY <1>0, <1>1, <1>6, <1>8, <2>1, MarksTick DEF Marks, Saving
<1>10. LocksHold'
  BY <1>0, <1>1, <1>6 DEF LocksHold, Locked, Saving, Syncing
<1>11. ASSUME hist'.slips = {} PROVE Lasting'
  <2>1. Lasting /\ (theirs.first => server = Nil /\ mine = Nil /\ \A s \in Savers : Saving(s, "idle"))
    BY <1>4, <1>5, <1>11 DEF ShownInv
  <2>2. ASSUME NEW x \in Values, Marked(x, clock), NotBehind(server.of, x), ~theirs.first
        PROVE  NotBehind(of, x)
    <3>1. server.of \in Values
      BY <1>0, <1>7, <2>2, Records
    <3>2. \A f \in Fields : of[f] = server.of[f] \/ (of[f].choice = theirs.at /\ of[f].stamp = theirs.at)
      BY <1>3, <2>2
    <3> QED BY <1>0, <1>2, <1>12, <2>2, <3>1, <3>2, LaterDocument
  <2>3. StillShown' /\ RunFollows' /\ OpsFollow'
    BY <1>1, <1>5, <2>1 DEF Lasting, StillShown, RunFollows, Since, Overtaken, OpsFollow, Past, Pushing, Syncing
  <2>4. SavesFollow'
    <3>1. ASSUME NEW s \in Savers PROVE SaveFollows(s)'
      <4>1. SaveFollows(s)
        BY <2>1 DEF Lasting, SavesFollow
      <4>2. saver[s].at = "locked" /\ ~Overtaken(saver[s].seen) => NotBehind(of, saver[s].row.of)
        <5> SUFFICES ASSUME saver[s].at = "locked", ~Overtaken(saver[s].seen)
                     PROVE  NotBehind(of, saver[s].row.of)
          OBVIOUS
        <5>1. ~theirs.first
          BY <2>1 DEF Saving
        <5>2. saver[s].row.of \in Values /\ Marked(saver[s].row.of, clock)
          BY <1>0, Records DEF Marks, Saving
        <5>3. NotBehind(server.of, saver[s].row.of)
          BY <1>7, <4>1, <5>1 DEF SaveFollows, Saving
        <5> QED BY <2>2, <5>1, <5>2, <5>3
      <4> QED BY <1>1, <1>6, <4>1, <4>2 DEF SaveFollows, Saving, Syncing, Overtaken
    <3> QED BY <3>1 DEF SavesFollow
  <2>5. DocsFollow'
    <3>1. mine # Nil => NotBehind(of, mine.of)
      BY <1>0, <1>7, <2>1, <2>2, Records DEF Lasting, DocsFollow, Marks
    <3>2. sync.at = "judge" => NotBehind(of, sync.rec.of)
      <4> SUFFICES ASSUME sync.at = "judge" PROVE NotBehind(of, sync.rec.of)
        OBVIOUS
      <4>1. sync.rec # Nil /\ server # Nil
        BY <1>0 DEF Placed, LocksHold
      <4> QED BY <1>0, <2>1, <2>2, <4>1, Records DEF Lasting, DocsFollow, Marks, Syncing
    <3>3. sync.at = "upsert" => NotBehind(of, sync.row.of)
      <4> SUFFICES ASSUME sync.at = "upsert" PROVE NotBehind(of, sync.row.of)
        OBVIOUS
      <4>1. sync.row # Nil /\ server # Nil
        BY <1>0 DEF Placed, LocksHold, Syncing
      <4> QED BY <1>0, <2>1, <2>2, <4>1, Records DEF Lasting, DocsFollow, Marks, Syncing
    <3> QED BY <1>1, <1>6, <2>1, <3>1, <3>2, <3>3 DEF Lasting, DocsFollow, Syncing
  <2> QED BY <2>3, <2>4, <2>5 DEF Lasting
<1> QED BY <1>9, <1>10, <1>11 DEF ShownInv

-----------------------------------------------------------------------------
LEMMA ShownStarts == PrefInit => ShownInv
<1> SUFFICES ASSUME PrefInit PROVE ShownInv
  OBVIOUS
<1> USE NilAssumption
<1>1. /\ sync.at = "idle" /\ sync.op = Nil /\ sync.rec = Nil /\ sync.row = Nil
      /\ \A s \in Savers : saver[s].at = "idle" /\ saver[s].seen = Nil
      /\ queue = Nil /\ theirs = Nil /\ clock = 1
      /\ hist.seen = [f \in Fields |-> 0]
  BY DEF PrefInit, IdleSync, IdleSaver
<1>2. \/ mine = Nil /\ server = Nil
      \/ /\ mine # Nil => mine.of = Unmarked /\ mine.updated = 1
         /\ server # Nil => server.of = Unmarked /\ server.updated = 1
         /\ mine.of = Unmarked
  BY DEF PrefInit
<1>3. \A time \in Nat : Marked(Unmarked, time)
  BY DEF Marked, Unmarked, Default
<1>4. Marks
  BY <1>1, <1>2, <1>3 DEF Marks, Saving
<1>5. LocksHold
  BY <1>1 DEF LocksHold, Saving, Syncing
<1>6. Lasting
  <2>1. NotBehind(Unmarked, Unmarked)
    BY Blanks, RecordsOrdered
  <2>2. StillShown
    BY <1>1, <1>2 DEF StillShown, Unmarked, Default
  <2>3. SavesFollow
    BY <1>1 DEF SavesFollow, SaveFollows, Saving
  <2>4. DocsFollow
    BY <1>1, <1>2, <2>1 DEF DocsFollow, Syncing
  <2>5. RunFollows /\ OpsFollow
    BY <1>1 DEF RunFollows, OpsFollow, Pushing, Syncing
  <2> QED BY <2>2, <2>3, <2>4, <2>5 DEF Lasting
<1> QED BY <1>4, <1>5, <1>6 DEF ShownInv

LEMMA ShownSteps == PrefInv /\ ShownInv /\ [PrefNext]_prefVars => ShownInv'
<1> SUFFICES ASSUME PrefInv, ShownInv, [PrefNext]_prefVars PROVE ShownInv'
  OBVIOUS
<1>0. PrefTyped'
  BY PrefTyping DEF PrefInv
<1>1. ASSUME NEW s \in Savers, PrefSave(s) PROVE ShownInv'
  BY <1>0, <1>1, ReadShown, LockShown, CommitShown DEF PrefSave
<1>2. CASE PrefSync
  BY <1>0, <1>2, RunShown, UpsertShown, StoreShown, SendShown, SettleShown, EnqueueShown DEF PrefSync
<1>3. saver \in [Savers -> SaveCall] /\ [s \in Savers |-> IdleSaver] \in [Savers -> SaveCall]
  BY Blanks DEF PrefInv, PrefTyped, PrefTypeOK
<1>4. CASE SyncFails \/ ReplyLost
  BY <1>3, <1>4, BreakShown DEF SyncFails, ReplyLost
<1>5. CASE PrefDies
  BY <1>3, <1>5, BreakShown DEF PrefDies
<1>6. CASE (\E f \in Fields, first \in BOOLEAN : TheyChoose(f, first)) \/ TheySend
  BY <1>0, <1>6, TheyChooseShown, TheySendShown
<1>7. CASE UNCHANGED prefVars
  <2>1. UNCHANGED <<clock, mine, server, queue, saver, sync, theirs, hist>>
    BY <1>7 DEF prefVars
  <2>2. Marks' /\ LocksHold'
    BY <2>1 DEF ShownInv, Marks, LocksHold, Locked, Saving, Syncing
  <2>3. Lasting => Lasting'
    <3>1. (StillShown => StillShown') /\ (DocsFollow => DocsFollow')
      BY <2>1 DEF StillShown, DocsFollow, Syncing
    <3>2. SavesFollow => SavesFollow'
      BY <2>1 DEF SavesFollow, SaveFollows, Saving, Syncing, Overtaken
    <3>3. RunFollows => RunFollows'
      BY <2>1 DEF RunFollows, Since, Overtaken, Syncing
    <3>4. OpsFollow => OpsFollow'
      BY <2>1 DEF OpsFollow, Past, Pushing, Syncing
    <3> QED BY <3>1, <3>2, <3>3, <3>4 DEF Lasting
  <2> QED BY <2>1, <2>2, <2>3 DEF ShownInv
<1> QED BY <1>1, <1>2, <1>4, <1>5, <1>6, <1>7 DEF PrefNext

(* The whole of it: a choice made here waits until the server has had it,   *)
(* and no field goes back to an earlier choice than one this device has     *)
(* shown, through merges, pushes, lost replies and process deaths (push,    *)
(* pull, mergeFieldLevel: "each edit survives"), unless a read was overtaken*)
(* before its write, a merge was unsent when its run broke, or another      *)
(* device's first save sent its defaults.                                   *)
THEOREM PreferencesAreKept == PrefSpec => []PreferenceIsKept
<1>1. PrefInv /\ ShownInv => PreferenceIsKept
  <2> SUFFICES ASSUME PrefInv, ShownInv PROVE PreferenceIsKept
    OBVIOUS
  <2>1. ASSUME mine # Nil, hist.slips = {}, NEW f \in Fields
        PROVE  mine.of[f].choice >= hist.seen[f]
    <3>1. hist.seen[f] <= mine.of[f].choice
      BY <2>1 DEF ShownInv, Lasting, StillShown
    <3>2. hist.seen[f] \in Nat /\ mine.of[f].choice \in Nat
      BY <2>1, AllNumbers DEF PrefInv, PrefTyped, PrefTypeOK
    <3> QED BY <3>1, <3>2
  <2> QED BY <2>1 DEF PrefInv, PreferenceIsKept, ShownChoiceStays
<1>2. PrefInit => PrefInv /\ ShownInv
  BY PrefStarts, ShownStarts
<1>3. PrefInv /\ ShownInv /\ [PrefNext]_prefVars => PrefInv' /\ ShownInv'
  BY PrefSteps, ShownSteps
<1> QED BY <1>1, <1>2, <1>3, PTL DEF PrefSpec
=============================================================================
