------------------------- MODULE ContentStoreProofs -------------------------
(* Proofs about ContentStore: its types, the single decryption of a kind,   *)
(* what a streamed book leaves on the device, and that keys, seals and      *)
(* ciphertexts fit, so that reading goes on working and a deletion is one,  *)
(* for any packages, readers, writers and restarts.                         *)
EXTENDS ContentStore, TLAPS

(* What a decryption under way holds, and what it shares with the caches.   *)
Linked ==
  \A r \in Readers :
    /\ Reading(r) => run[r].pkg \in Package
    /\ run[r].at \in {"save", "seal", "decrypt"} => run[r].key \in Packages
    /\ Mine(r) => Reading(r) /\ session # None
    /\ "cache" \in run[r].ties => cache # None

(* Nothing of a streamed package is on its way to the files or the keychain.*)
Streamed ==
  /\ EliteInMemoryOnly
  /\ \A r \in Readers : run[r].at = "save" => run[r].pkg.v \notin Elite
  /\ \A w \in Writers : Writing(w) /\ op[w].call = "store" => op[w].v \in Packages \ Elite

Inv == TypeOK /\ Linked /\ Streamed /\ OneDecryption

-----------------------------------------------------------------------------
LEMMA Blank ==
  /\ NoRun \in Run /\ NoRun.at = "idle" /\ NoRun.ties = {}
  /\ NoOp \in Op /\ NoOp.at = "idle"
  /\ NewSession \in Session
  /\ NoFiles \in Disk
  BY DEF NoRun, Run, NoOp, Op, NewSession, Session, NoFiles, Disk, Maybe

(* A new package, and the one the files hold.                               *)
LEMMA Sources ==
  /\ \A p \in Packages : Fresh(p) \in Package /\ Fresh(p).v = p
  /\ disk \in Disk /\ Loadable => Persisted \in Package
<1>1. \A p \in Packages : IndexOf(p) \in Maybe(Packages)
  BY DEF IndexOf, Maybe
<1>2. ASSUME disk \in Disk, Loadable PROVE Persisted \in Package
  <2>1. disk.meta \in Meta
    BY <1>2 DEF Disk, Loadable, Maybe
  <2> QED BY <1>2, <2>1 DEF Persisted, Package, Disk, Meta, Maybe
<1> QED BY <1>1, <1>2 DEF Fresh, Package, Maybe

LEMMA Initially == Init => Inv
<1> SUFFICES ASSUME Init PROVE Inv
  OBVIOUS
<1>1. TypeOK
  <2>1. 0 \in 0..MaxRestarts
    BY MaxRestartsAssumption
  <2>2. run \in [Readers -> Run] /\ op \in [Writers -> Op]
    BY Blank DEF Init
  <2> QED BY <2>1, <2>2, Blank DEF Init, TypeOK, Maybe
<1>2. \A r \in Readers : run[r] = NoRun
  BY DEF Init
<1>3. \A w \in Writers : op[w] = NoOp
  BY DEF Init
<1>4. Linked /\ OneDecryption
  BY <1>2, Blank DEF Linked, OneDecryption, Reading, Mine
<1>5. bek = None /\ disk.content = None /\ disk.index = None /\ disk.meta = None
  BY DEF Init, NoFiles
<1>6. None \notin Elite
  BY NoneAssumption, PackagesAssumption
<1>7. Streamed
  BY <1>2, <1>3, <1>5, <1>6, Blank DEF Streamed, EliteInMemoryOnly, Writing
<1> QED BY <1>1, <1>4, <1>7 DEF Inv

-----------------------------------------------------------------------------
(* What a change of the decryptions keeps. *)

(* The links to the open session and to the cached package stay or go.      *)
Tied ==
  \A q \in Readers :
    /\ "session" \in run'[q].ties => session' # None
    /\ "cache" \in run'[q].ties => cache' # None

(* A decryption goes on with the package it was started for, or is over.    *)
Follows(q) ==
  /\ run'[q] \in Run
  /\ \/ run'[q] = NoRun
     \/ /\ run'[q].at = "idle" <=> run[q].at = "idle"
        /\ run'[q].of = run[q].of
        /\ run'[q].pkg = run[q].pkg
        /\ run'[q].ties \subseteq run[q].ties
        /\ run'[q].at \in {"save", "seal", "decrypt"} => run'[q].key \in Packages
        /\ run'[q].at = "save" => run[q].at = "save" \/ run[q].pkg.v \notin Elite

LEMMA Keeping ==
  ASSUME Inv, \A q \in Readers : Follows(q), Tied
  PROVE  /\ Linked'
         /\ OneDecryption'
         /\ \A q \in Readers : run'[q].at = "save" => run'[q].pkg.v \notin Elite
<1>1. \A q \in Readers : Mine(q)' => Mine(q) /\ Reading(q)' /\ run'[q].of = run[q].of
  BY Blank DEF Inv, Linked, Follows, Mine, Reading
<1>2. \A q \in Readers : Reading(q)' => Reading(q) /\ run'[q].pkg = run[q].pkg
  BY Blank DEF Follows, Reading
<1>3. Linked'
  BY <1>1, <1>2, Blank DEF Inv, Linked, Follows, Mine, Tied
<1>4. OneDecryption'
  <2> SUFFICES ASSUME NEW r \in Readers, NEW q \in Readers,
                      Mine(r)', Mine(q)', run'[r].of = run'[q].of
               PROVE  r = q
    BY DEF OneDecryption
  <2>1. Mine(r) /\ Mine(q) /\ run[r].of = run[q].of
    BY <1>1
  <2>2. Reading(r) /\ Reading(q)
    BY <2>1 DEF Inv, Linked
  <2> QED BY <2>1, <2>2 DEF Inv, OneDecryption
<1>5. \A q \in Readers : run'[q].at = "save" => run'[q].pkg.v \notin Elite
  BY <1>2, Blank DEF Inv, Streamed, Follows
<1> QED BY <1>3, <1>4, <1>5

LEMMA UncachedFollows ==
  ASSUME Inv, run' = Uncached
  PROVE  \A q \in Readers : Follows(q) /\ "cache" \notin run'[q].ties
                            /\ run'[q].ties \subseteq run[q].ties
<1> SUFFICES ASSUME NEW q \in Readers
             PROVE  Follows(q) /\ "cache" \notin run'[q].ties
                    /\ run'[q].ties \subseteq run[q].ties
  OBVIOUS
<1>1. run[q] \in Run
  BY DEF Inv, TypeOK
<1>2. run'[q] = [run[q] EXCEPT !.ties = @ \ {"cache"}]
  BY DEF Uncached
<1>3. run[q].at \in {"save", "seal", "decrypt"} => run[q].key \in Packages
  BY DEF Inv, Linked
<1> QED BY <1>1, <1>2, <1>3 DEF Follows, Run

LEMMA OrphanedFollows ==
  ASSUME Inv, run' = Orphaned
  PROVE  \A q \in Readers : /\ Follows(q) /\ "session" \notin run'[q].ties
                            /\ "cache" \in run'[q].ties => ClosedCache # None
<1> SUFFICES ASSUME NEW q \in Readers
             PROVE  /\ Follows(q) /\ "session" \notin run'[q].ties
                    /\ "cache" \in run'[q].ties => ClosedCache # None
  OBVIOUS
<1>1. run[q] \in Run
  BY DEF Inv, TypeOK
<1>2. run'[q] = [run[q] EXCEPT !.ties = IF ClosedCache = None THEN {}
                                        ELSE @ \ {"session"}]
  BY DEF Orphaned
<1>3. run[q].at \in {"save", "seal", "decrypt"} => run[q].key \in Packages
  BY DEF Inv, Linked
<1> QED BY <1>1, <1>2, <1>3 DEF Follows, Run

LEMMA IdleFollows ==
  ASSUME Inv, UNCHANGED run
  PROVE  \A q \in Readers : Follows(q) /\ run'[q].ties \subseteq run[q].ties
  BY DEF Inv, TypeOK, Linked, Follows

LEMMA UncachedTyped ==
  ASSUME Inv, run' = Uncached \/ run' = Orphaned
  PROVE  run' \in [Readers -> Run]
<1>1. \A q \in Readers : run'[q] \in Run
  BY UncachedFollows, OrphanedFollows DEF Follows
<1> QED BY <1>1 DEF Uncached, Orphaned

LEMMA MovesFollows ==
  ASSUME Inv, NEW r \in Readers, Reading(r),
         NEW a \in {"unwrap", "save", "seal", "decrypt"}, NEW k \in Maybe(Packages),
         a # "unwrap" => k \in Packages,
         a = "save" => run[r].pkg.v \notin Elite,
         Moves(r, a, k)
  PROVE  \A q \in Readers : Follows(q) /\ run'[q].ties \subseteq run[q].ties
<1> SUFFICES ASSUME NEW q \in Readers
             PROVE  Follows(q) /\ run'[q].ties \subseteq run[q].ties
  OBVIOUS
<1>1. run[q] \in Run /\ run[r] \in Run /\ run \in [Readers -> Run]
  BY DEF Inv, TypeOK
<1>2. run'[q] = IF q = r THEN [run[r] EXCEPT !.at = a, !.key = k] ELSE run[q]
  BY <1>1 DEF Moves
<1>3. run[q].at \in {"save", "seal", "decrypt"} => run[q].key \in Packages
  BY DEF Inv, Linked
<1> QED BY <1>1, <1>2, <1>3 DEF Follows, Run, Reading

LEMMA EndsFollows ==
  ASSUME Inv, NEW r \in Readers, Ends(r)
  PROVE  \A q \in Readers : Follows(q) /\ run'[q].ties \subseteq run[q].ties
<1> SUFFICES ASSUME NEW q \in Readers
             PROVE  Follows(q) /\ run'[q].ties \subseteq run[q].ties
  OBVIOUS
<1>1. run[q] \in Run /\ run \in [Readers -> Run]
  BY DEF Inv, TypeOK
<1>2. run'[q] = IF q = r THEN NoRun ELSE run[q]
  BY <1>1 DEF Ends
<1>3. run[q].at \in {"save", "seal", "decrypt"} => run[q].key \in Packages
  BY DEF Inv, Linked
<1> QED BY <1>1, <1>2, <1>3, Blank DEF Follows

(* The key is there: it is used, or it does not fit the seal.               *)
LEMMA HasKeyFollows ==
  ASSUME Inv, NEW r \in Readers, Reading(r), NEW k \in Packages, HasKey(r, k)
  PROVE  /\ \A q \in Readers : Follows(q) /\ run'[q].ties \subseteq run[q].ties
         /\ run' \in [Readers -> Run]
         /\ broken' \in BOOLEAN
<1>1. \/ Moves(r, "seal", k) /\ broken' = broken
      \/ Moves(r, "decrypt", k) /\ broken' = broken
      \/ Breaks(r)
  BY DEF HasKey
<1>2. \A q \in Readers : Follows(q) /\ run'[q].ties \subseteq run[q].ties
  <2>1. k \in Maybe(Packages)
    BY DEF Maybe
  <2> QED BY <1>1, <2>1, MovesFollows, EndsFollows DEF Breaks
<1>3. run' \in [Readers -> Run]
  BY <1>1, <1>2 DEF Inv, TypeOK, Moves, Breaks, Ends, Follows
<1>4. broken' \in BOOLEAN
  BY <1>1 DEF Inv, TypeOK, Breaks
<1> QED BY <1>2, <1>3, <1>4

LEMMA TiesKept ==
  ASSUME Inv, \A q \in Readers : Follows(q) /\ run'[q].ties \subseteq run[q].ties,
         session # None => session' # None, cache # None => cache' # None
  PROVE  Tied
  BY DEF Inv, Linked, Tied, Mine

-----------------------------------------------------------------------------
(* The steps of a decryption. *)

(* It starts with the cached package, in the open session, once.            *)
LEMMA StartKeeps ==
  ASSUME Inv, NEW r \in Readers, NEW kind \in {"book", "index"}, StartRead(r, kind)
  PROVE  Inv'
<1>1. CASE UNCHANGED run
  <2>1. TypeOK'
    BY <1>1 DEF Inv, TypeOK, StartRead
  <2>2. Linked' /\ Streamed' /\ OneDecryption'
    BY <1>1 DEF Inv, Linked, Streamed, EliteInMemoryOnly, OneDecryption, StartRead,
                Reading, Writing, Mine
  <2> QED BY <2>1, <2>2 DEF Inv
<1>2. CASE /\ cache # None
           /\ run' = [run EXCEPT ![r] =
                [at |-> "key", of |-> kind, pkg |-> cache, key |-> session.rawKey,
                 ties |-> {"session", "cache"}]]
           /\ UNCHANGED broken
  <2> DEFINE new == [at |-> "key", of |-> kind, pkg |-> cache, key |-> session.rawKey,
                     ties |-> {"session", "cache"}]
  <2>1. session \in Session /\ cache \in Package /\ ~Pending(kind)
    BY <1>2 DEF Inv, TypeOK, StartRead, Maybe
  <2>2. new \in Run
    BY <2>1 DEF Run, Session, Maybe
  <2>3. \A q \in Readers : run'[q] = IF q = r THEN new ELSE run[q]
    BY <1>2 DEF Inv, TypeOK
  <2>4. TypeOK'
    BY <1>2, <2>2 DEF Inv, TypeOK, StartRead
  <2>5. Linked'
    BY <1>2, <2>1, <2>3 DEF Inv, Linked, StartRead, Reading, Mine
  <2>6. Streamed'
    BY <2>3 DEF Inv, Streamed, EliteInMemoryOnly, StartRead, Writing
  <2>7. \A q \in Readers : Reading(q) /\ Mine(q) => run[q].of # kind
    BY <2>1 DEF Pending
  <2>8. OneDecryption'
    <3> SUFFICES ASSUME NEW p \in Readers, NEW q \in Readers,
                        Reading(p)', Mine(p)', Reading(q)', Mine(q)',
                        run'[p].of = run'[q].of
                 PROVE  p = q
      BY DEF OneDecryption
    <3>1. CASE p # r /\ q # r
      BY <3>1, <2>3 DEF Inv, OneDecryption, Reading, Mine
    <3>2. CASE p = r \/ q = r
      BY <3>2, <2>3, <2>7 DEF Reading, Mine
    <3> QED BY <3>1, <3>2
  <2> QED BY <2>4, <2>5, <2>6, <2>8 DEF Inv
<1> QED BY <1>1, <1>2 DEF StartRead

(* Any other step of a decryption: what is left to show of it.              *)
LEMMA Continuing ==
  ASSUME Inv, \A q \in Readers : Follows(q) /\ run'[q].ties \subseteq run[q].ties,
         run' \in [Readers -> Run], broken' \in BOOLEAN, UNCHANGED <<op, restarts>>,
         cache # None => cache' # None, session # None => session' # None,
         cache' \in Maybe(Package), session' \in Maybe(Session),
         sealed' \in Maybe(Seal), disk' \in Disk, bek' \in Maybe(Packages),
         slips' \subseteq Slip, EliteInMemoryOnly'
  PROVE  Inv'
<1>1. TypeOK'
  BY DEF Inv, TypeOK
<1>2. Tied
  BY TiesKept
<1>3. Linked' /\ OneDecryption' /\ \A q \in Readers : run'[q].at = "save" => run'[q].pkg.v \notin Elite
  BY <1>2, Keeping
<1>4. Streamed'
  BY <1>3 DEF Inv, Streamed, Writing
<1> QED BY <1>1, <1>3, <1>4 DEF Inv

LEMMA EndsTyped ==
  ASSUME Inv, NEW r \in Readers, Ends(r)
  PROVE  run' \in [Readers -> Run]
  BY Blank DEF Inv, TypeOK, Ends

LEMMA MovesTyped ==
  ASSUME Inv, NEW r \in Readers, NEW a, NEW k, Moves(r, a, k),
         \A q \in Readers : Follows(q)
  PROVE  run' \in [Readers -> Run]
  BY DEF Inv, TypeOK, Moves, Follows

(* Everything but the decryptions and `broken` stays as it is.              *)
LEMMA OnlyTheRead ==
  ASSUME Inv, \A q \in Readers : Follows(q) /\ run'[q].ties \subseteq run[q].ties,
         run' \in [Readers -> Run], broken' \in BOOLEAN,
         UNCHANGED <<cache, session, sealed, disk, bek, op, restarts, slips>>
  PROVE  Inv'
<1>1. EliteInMemoryOnly'
  BY DEF Inv, Streamed, EliteInMemoryOnly
<1>2. /\ cache' = cache /\ session' = session /\ sealed' = sealed /\ disk' = disk
      /\ bek' = bek /\ slips' = slips /\ UNCHANGED <<op, restarts>>
  OBVIOUS
<1>3. /\ cache \in Maybe(Package) /\ session \in Maybe(Session) /\ sealed \in Maybe(Seal)
      /\ disk \in Disk /\ bek \in Maybe(Packages) /\ slips \subseteq Slip
  BY DEF Inv, TypeOK
<1> QED BY <1>1, <1>2, <1>3, Continuing

LEMMA ReadKeeps ==
  ASSUME Inv, NEW r \in Readers, ReadStep(r)
  PROVE  Inv'
<1>0. run[r] \in Run
  BY DEF Inv, TypeOK
<1>t. /\ cache \in Maybe(Package) /\ session \in Maybe(Session) /\ sealed \in Maybe(Seal)
      /\ disk \in Disk /\ bek \in Maybe(Packages) /\ slips \subseteq Slip /\ broken \in BOOLEAN
  BY DEF Inv, TypeOK
<1>1. CASE \E kind \in {"book", "index"} : StartRead(r, kind)
  BY <1>1, StartKeeps
<1>2. CASE KeyFound(r)
  <2>1. PICK k \in Packages : HasKey(r, k)
    BY <1>0, <1>t, <1>2 DEF KeyFound, Run, Maybe
  <2>2. Reading(r)
    BY <1>2 DEF KeyFound, Reading
  <2> QED BY <1>2, <2>1, <2>2, HasKeyFollows, OnlyTheRead DEF KeyFound
<1>3. CASE KeyMissing(r)
  <2>1. Reading(r) /\ Moves(r, "unwrap", None) /\ None \in Maybe(Packages)
    BY <1>3 DEF KeyMissing, Reading, Maybe
  <2>2. \A q \in Readers : Follows(q) /\ run'[q].ties \subseteq run[q].ties
    BY <2>1, MovesFollows
  <2> QED BY <1>3, <1>t, <2>1, <2>2, MovesTyped, OnlyTheRead DEF KeyMissing
<1>5. CASE Garbled(r)
  <2>1. Ends(r) /\ broken' \in BOOLEAN
    BY <1>5, <1>t DEF Garbled, Breaks
  <2> QED BY <1>5, <2>1, EndsFollows, EndsTyped, OnlyTheRead DEF Garbled
<1>6. CASE Denied(r)
  <2>1. Ends(r) /\ broken' \in BOOLEAN
    BY <1>6, <1>t DEF Denied
  <2> QED BY <1>6, <2>1, EndsFollows, EndsTyped, OnlyTheRead DEF Denied
<1>7. CASE Unwraps(r)
  <2> DEFINE p == run[r].pkg.v
  <2>1. Reading(r) /\ run[r].pkg \in Package /\ p \in Packages
    BY <1>7 DEF Inv, Linked, Unwraps, Reading, Package
  <2>2. CASE p \in Elite
    <3>1. HasKey(r, p) /\ session' = IF Mine(r) THEN [session EXCEPT !.rawKey = p] ELSE session
      BY <1>7, <2>2 DEF Unwraps
    <3>2. session' \in Maybe(Session) /\ (session # None => session' # None)
      <4>1. Mine(r) => session \in Session
        BY <1>t DEF Inv, Linked, Maybe
      <4>2. Mine(r) => session' \in Session
        BY <3>1, <4>1, <2>1 DEF Session, Maybe
      <4> QED BY <3>1, <4>2, <1>t, NoneAssumption DEF Maybe
    <3>3. EliteInMemoryOnly'
      BY <1>7 DEF Inv, Streamed, EliteInMemoryOnly, Unwraps
    <3>4. /\ cache' = cache /\ sealed' = sealed /\ disk' = disk
          /\ bek' = bek /\ slips' = slips /\ UNCHANGED <<op, restarts>>
      BY <1>7 DEF Unwraps
    <3> QED BY <1>t, <2>1, <3>1, <3>2, <3>3, <3>4, HasKeyFollows, Continuing
  <2>3. CASE p \notin Elite
    <3>1. Moves(r, "save", p) /\ UNCHANGED <<session, broken>> /\ p \in Maybe(Packages)
      BY <1>7, <2>1, <2>3 DEF Unwraps, Maybe
    <3>2. \A q \in Readers : Follows(q) /\ run'[q].ties \subseteq run[q].ties
      BY <2>1, <2>3, <3>1, MovesFollows
    <3> QED BY <1>7, <1>t, <3>1, <3>2, MovesTyped, OnlyTheRead DEF Unwraps
  <2> QED BY <2>2, <2>3
<1>8. CASE SavesKey(r)
  <2>1. /\ Reading(r) /\ run[r].pkg \in Package /\ run[r].key \in Packages
        /\ run[r].pkg.v \in Packages \ Elite
    BY <1>8 DEF Inv, Linked, Streamed, SavesKey, Reading, Package
  <2>2. bek' = run[r].pkg.v /\ HasKey(r, run[r].key)
    BY <1>8 DEF SavesKey
  <2>3. EliteInMemoryOnly'
    BY <1>8, <2>1, <2>2 DEF Inv, Streamed, EliteInMemoryOnly, SavesKey
  <2>4. slips' \subseteq Slip
    BY <1>8, <1>t DEF SavesKey, Slips, Slip
  <2>5. /\ cache' = cache /\ sealed' = sealed /\ disk' = disk
        /\ session' = session /\ UNCHANGED <<op, restarts>>
    BY <1>8 DEF SavesKey
  <2>6. bek' \in Maybe(Packages)
    BY <2>1, <2>2 DEF Maybe
  <2> QED BY <1>t, <2>1, <2>2, <2>3, <2>4, <2>5, <2>6, HasKeyFollows, Continuing
<1>9. CASE MakesSeal(r)
  <2> DEFINE seal == [licence |-> run[r].pkg.v, key |-> run[r].key]
  <2>1. Reading(r) /\ run[r].pkg \in Package /\ run[r].key \in Packages
    BY <1>9 DEF Inv, Linked, MakesSeal, Reading
  <2>2. seal \in Seal
    BY <2>1 DEF Seal, Package
  <2>3. Moves(r, "decrypt", run[r].key) /\ run[r].key \in Maybe(Packages)
    BY <1>9, <2>1 DEF MakesSeal, Maybe
  <2>4. \A q \in Readers : Follows(q) /\ run'[q].ties \subseteq run[q].ties
    BY <2>1, <2>3, MovesFollows
  <2>5. sealed' = seal /\ disk' = IF disk.meta = None THEN disk ELSE [disk EXCEPT !.meta.seal = seal]
    BY <1>9 DEF MakesSeal
  <2>6. /\ disk' \in Disk /\ disk'.content = disk.content /\ disk'.index = disk.index
        /\ disk'.meta # None => disk.meta # None /\ disk'.meta.v = disk.meta.v
    <3>1. CASE disk.meta = None
      BY <3>1, <2>5, <1>t
    <3>2. CASE disk.meta # None
      <4>1. disk.meta \in Meta
        BY <3>2, <1>t DEF Disk, Maybe
      <4>2. [disk.meta EXCEPT !.seal = seal] \in Meta /\ [disk.meta EXCEPT !.seal = seal].v = disk.meta.v
        BY <4>1, <2>2 DEF Meta, Maybe
      <4>3. disk' = [disk EXCEPT !.meta = [disk.meta EXCEPT !.seal = seal]]
        BY <3>2, <2>5
      <4> QED BY <4>2, <4>3, <3>2, <1>t DEF Disk, Maybe
    <3> QED BY <3>1, <3>2
  <2>7. EliteInMemoryOnly'
    BY <1>9, <2>6 DEF Inv, Streamed, EliteInMemoryOnly, MakesSeal
  <2>8. sealed' \in Maybe(Seal)
    BY <2>2, <2>5 DEF Maybe
  <2>9. /\ cache' = cache /\ session' = session /\ bek' = bek /\ slips' = slips
        /\ broken' = broken /\ UNCHANGED <<op, restarts>>
    BY <1>9 DEF MakesSeal
  <2>10. run' \in [Readers -> Run]
    BY <2>3, <2>4, MovesTyped
  <2> QED BY <1>t, <2>4, <2>6, <2>7, <2>8, <2>9, <2>10, Continuing
<1>10. CASE Decrypts(r)
  <2> DEFINE v == run[r].pkg.v
  <2>1. Reading(r) /\ run[r].pkg \in Package /\ v \in Packages
    BY <1>10 DEF Inv, Linked, Decrypts, Reading, Package
  <2>2. session' \in Maybe(Session) /\ (session # None => session' # None)
    <3>1. Mine(r) => session \in Session
      BY <1>t DEF Inv, Linked, Maybe
    <3>2. Mine(r) => session' \in Session
      BY <1>10, <2>1, <3>1 DEF Decrypts, Session, Maybe
    <3>3. ~Mine(r) => session' = session
      BY <1>10 DEF Decrypts
    <3> QED BY <3>2, <3>3, <1>t, NoneAssumption DEF Maybe
  <2>3. cache' \in Maybe(Package) /\ (cache # None => cache' # None)
    <3>1. "cache" \in run[r].ties => cache \in Package
      BY <1>t DEF Inv, Linked, Maybe
    <3>2. cache \in Package => [cache EXCEPT !.content = None] \in Package
      BY DEF Package, Maybe
    <3>3. cache' = cache \/ ("cache" \in run[r].ties /\ cache' = [cache EXCEPT !.content = None])
      BY <1>10 DEF Decrypts
    <3> QED BY <3>1, <3>2, <3>3, <1>t, NoneAssumption DEF Maybe
  <2>4. Ends(r)
    BY <1>10 DEF Decrypts
  <2>5. EliteInMemoryOnly'
    BY <1>10 DEF Inv, Streamed, EliteInMemoryOnly, Decrypts
  <2>6. /\ sealed' = sealed /\ disk' = disk /\ bek' = bek /\ slips' = slips
        /\ broken' = broken /\ UNCHANGED <<op, restarts>>
    BY <1>10 DEF Decrypts
  <2> QED BY <1>t, <2>2, <2>3, <2>4, <2>5, <2>6, EndsFollows, EndsTyped, Continuing
<1> QED BY <1>1, <1>2, <1>3, <1>5, <1>6, <1>7, <1>8, <1>9, <1>10 DEF ReadStep

-----------------------------------------------------------------------------
(* The steps of the sessions and of the calls that write. *)

(* Any of them: what is left to show of it.                                 *)
LEMMA Serving ==
  ASSUME Inv, \A q \in Readers : Follows(q), Tied,
         run' \in [Readers -> Run], UNCHANGED <<restarts, broken>>,
         cache' \in Maybe(Package), session' \in Maybe(Session),
         sealed' \in Maybe(Seal), disk' \in Disk, bek' \in Maybe(Packages),
         slips' \subseteq Slip, EliteInMemoryOnly',
         op' \in [Writers -> Op],
         \A w \in Writers : op'[w].at # "idle" /\ op'[w].call = "store"
                             => op'[w].v \in Packages \ Elite
  PROVE  Inv'
<1>1. TypeOK'
  BY DEF Inv, TypeOK
<1>2. Linked' /\ OneDecryption' /\ \A q \in Readers : run'[q].at = "save" => run'[q].pkg.v \notin Elite
  BY Keeping
<1>3. Streamed'
  BY <1>2 DEF Streamed, Writing
<1> QED BY <1>1, <1>2, <1>3 DEF Inv

LEMMA Calls ==
  ASSUME Inv, NEW w \in Writers,
         \/ UNCHANGED op
         \/ Returns(w)
         \/ op' = [op EXCEPT ![w].at = "finish"] /\ Writing(w)
         \/ \E call \in {"destroy", "revoke"} : CallOf(w, "drop", call, None)
         \/ \E p \in Packages \ Elite : CallOf(w, "drop", "store", p)
  PROVE  /\ op' \in [Writers -> Op]
         /\ \A x \in Writers : op'[x].at # "idle" /\ op'[x].call = "store"
                                 => op'[x].v \in Packages \ Elite
<1> USE DEF Writing
<1>1. op \in [Writers -> Op] /\ \A x \in Writers : op[x] \in Op
  BY DEF Inv, TypeOK
<1>2. \A x \in Writers : op[x].at # "idle" /\ op[x].call = "store" => op[x].v \in Packages \ Elite
  BY DEF Inv, Streamed
<1>3. CASE UNCHANGED op
  BY <1>1, <1>2, <1>3
<1>4. CASE Returns(w)
  BY <1>1, <1>2, <1>4, Blank DEF Returns
<1>5. CASE op' = [op EXCEPT ![w].at = "finish"] /\ Writing(w)
  <2>1. [op[w] EXCEPT !.at = "finish"] \in Op
    BY <1>1 DEF Op
  <2>2. \A x \in Writers : op'[x] = IF x = w THEN [op[w] EXCEPT !.at = "finish"] ELSE op[x]
    BY <1>1, <1>5
  <2>3. /\ [op[w] EXCEPT !.at = "finish"].call = op[w].call
        /\ [op[w] EXCEPT !.at = "finish"].v = op[w].v
    BY <1>1 DEF Op
  <2> QED BY <1>1, <1>2, <1>5, <2>1, <2>2, <2>3
<1>6. ASSUME NEW call \in {"destroy", "revoke"}, CallOf(w, "drop", call, None)
      PROVE  /\ op' \in [Writers -> Op]
             /\ \A x \in Writers : op'[x].at # "idle" /\ op'[x].call = "store"
                                     => op'[x].v \in Packages \ Elite
  <2>1. [at |-> "drop", call |-> call, v |-> None] \in Op
    BY DEF Op, Maybe
  <2> QED BY <1>1, <1>2, <1>6, <2>1 DEF CallOf
<1>7. ASSUME NEW p \in Packages \ Elite, CallOf(w, "drop", "store", p)
      PROVE  /\ op' \in [Writers -> Op]
             /\ \A x \in Writers : op'[x].at # "idle" /\ op'[x].call = "store"
                                     => op'[x].v \in Packages \ Elite
  <2>1. [at |-> "drop", call |-> "store", v |-> p] \in Op
    BY DEF Op, Maybe
  <2> QED BY <1>1, <1>2, <1>7, <2>1 DEF CallOf
<1> QED BY <1>3, <1>4, <1>5, <1>6, <1>7

(* The caches and the files after close(), store() and a deletion.          *)
LEMMA Closing ==
  ASSUME Inv, CloseEffect
  PROVE  /\ \A q \in Readers : Follows(q)
         /\ Tied
         /\ run' \in [Readers -> Run]
         /\ cache' \in Maybe(Package) /\ session' \in Maybe(Session)
<1>1. ClosedCache \in Maybe(Package)
  BY DEF Inv, TypeOK, ClosedCache, Maybe
<1> QED BY <1>1, OrphanedFollows, UncachedTyped DEF CloseEffect, Tied, Maybe

LEMMA Writes ==
  ASSUME Inv, NEW p \in Packages \ Elite, Write(p)
  PROVE  /\ \A q \in Readers : Follows(q)
         /\ Tied
         /\ run' \in [Readers -> Run]
         /\ cache' \in Maybe(Package) /\ session' \in Maybe(Session)
         /\ sealed' \in Maybe(Seal) /\ disk' \in Disk /\ bek' \in Maybe(Packages)
         /\ slips' \subseteq Slip /\ UNCHANGED <<restarts, broken>>
         /\ EliteInMemoryOnly'
<1>1. IndexOf(p) \in Maybe(Packages) /\ IndexOf(p) \in {p, None}
  BY DEF IndexOf, Maybe
<1>2. [v |-> p, licence |-> TRUE, seal |-> None] \in Meta
  BY DEF Meta, Maybe
<1>3. /\ disk'.content = p /\ disk'.index = IndexOf(p) /\ disk'.meta.v = p
      /\ disk' \in Disk
  BY <1>1, <1>2 DEF Write, Disk, Maybe
<1>4. run' = Uncached /\ session' = session /\ bek' = bek
  BY DEF Write
<1>5. Tied
  BY <1>4, UncachedFollows DEF Inv, Linked, Tied, Mine
<1>6. cache' \in Maybe(Package)
  BY Sources DEF Write, Maybe
<1>7. slips' \subseteq Slip
  BY DEF Inv, TypeOK, Write, Slip
<1>8. None \notin Elite
  BY NoneAssumption, PackagesAssumption
<1>9. EliteInMemoryOnly'
  BY <1>1, <1>3, <1>4, <1>8 DEF Inv, Streamed, EliteInMemoryOnly
<1> QED BY <1>3, <1>4, <1>5, <1>6, <1>7, <1>9, UncachedFollows, UncachedTyped
        DEF Inv, TypeOK, Write, Maybe

LEMMA Dropping ==
  ASSUME Inv, DropsCaches, UNCHANGED session
  PROVE  /\ \A q \in Readers : Follows(q)
         /\ Tied
         /\ run' \in [Readers -> Run]
         /\ cache' \in Maybe(Package) /\ session' \in Maybe(Session)
         /\ sealed' \in Maybe(Seal) /\ slips' \subseteq Slip
<1>1. run' = Uncached /\ cache' = None /\ sealed' = None
  BY DEF DropsCaches
<1>2. Tied
  BY <1>1, UncachedFollows DEF Inv, Linked, Tied, Mine
<1>3. slips' \subseteq Slip
  BY DEF Inv, TypeOK, DropsCaches, Slips, Slip
<1> QED BY <1>1, <1>2, <1>3, UncachedFollows, UncachedTyped DEF Inv, TypeOK, Maybe

(* openSession() and close().                                               *)
LEMMA SessionKeeps ==
  ASSUME Inv, OpenSession \/ Close
  PROVE  Inv'
<1>t. /\ cache \in Maybe(Package) /\ sealed \in Maybe(Seal) /\ disk \in Disk
      /\ bek \in Maybe(Packages) /\ slips \subseteq Slip /\ op \in [Writers -> Op]
      /\ run \in [Readers -> Run]
  BY DEF Inv, TypeOK
<1>o. \A w \in Writers : op[w].at # "idle" /\ op[w].call = "store" => op[w].v \in Packages \ Elite
  BY DEF Inv, Streamed, Writing
<1>1. CASE OpenSession
  <2>1. session' = NewSession /\ session' \in Maybe(Session) /\ session' # None
    BY <1>1, Blank, NoneAssumption DEF OpenSession, Maybe
  <2>2. /\ cache' \in Maybe(Package) /\ cache' # None /\ sealed' \in Maybe(Seal)
    <3>1. CASE cache # None /\ UNCHANGED <<cache, sealed, run>>
      BY <3>1, <1>t
    <3>2. CASE Loadable /\ cache' = Persisted /\ sealed' = disk.meta.seal
      <4>1. disk.meta \in Meta
        BY <3>2, <1>t DEF Loadable, Disk, Maybe
      <4> QED BY <3>2, <4>1, <1>t, Sources, NoneAssumption DEF Meta, Maybe
    <3> QED BY <1>1, <3>1, <3>2 DEF OpenSession
  <2>3. run' = run \/ run' = Uncached
    BY <1>1 DEF OpenSession
  <2>4. (\A q \in Readers : Follows(q)) /\ run' \in [Readers -> Run]
    BY <2>3, <1>t, IdleFollows, UncachedFollows, UncachedTyped
  <2>5. Tied
    BY <2>1, <2>2 DEF Tied
  <2>6. EliteInMemoryOnly'
    BY <1>1 DEF Inv, Streamed, EliteInMemoryOnly, OpenSession
  <2>7. /\ disk' = disk /\ bek' = bek /\ op' = op /\ slips' = slips
        /\ UNCHANGED <<restarts, broken>>
    BY <1>1 DEF OpenSession
  <2> QED BY <1>t, <1>o, <2>1, <2>2, <2>4, <2>5, <2>6, <2>7, Serving
<1>2. CASE Close
  <2>1. CloseEffect /\ sealed' = sealed /\ disk' = disk /\ bek' = bek /\ op' = op
        /\ slips' = slips /\ UNCHANGED <<restarts, broken>>
    BY <1>2 DEF Close
  <2>2. EliteInMemoryOnly'
    BY <2>1 DEF Inv, Streamed, EliteInMemoryOnly
  <2> QED BY <1>t, <1>o, <2>1, <2>2, Closing, Serving
<1> QED BY <1>1, <1>2

(* store() of a streamed package: memory only.                              *)
LEMMA StreamKeeps ==
  ASSUME Inv, NEW p \in Packages, StoreElite(p)
  PROVE  Inv'
<1>1. /\ run' = Uncached /\ session' = session /\ sealed' = sealed /\ disk' = disk
      /\ bek' = bek /\ op' = op /\ UNCHANGED <<restarts, broken>>
  BY DEF StoreElite
<1>2. cache' \in Maybe(Package)
  BY Sources DEF StoreElite, Maybe
<1>3. slips' \subseteq Slip
  BY DEF Inv, TypeOK, StoreElite, Slips, Slip
<1>4. Tied
  BY <1>1, UncachedFollows DEF Inv, Linked, Tied, Mine
<1>5. EliteInMemoryOnly'
  BY <1>1 DEF Inv, Streamed, EliteInMemoryOnly
<1>6. /\ op' \in [Writers -> Op]
      /\ \A w \in Writers : op'[w].at # "idle" /\ op'[w].call = "store"
                              => op'[w].v \in Packages \ Elite
  BY <1>1 DEF Inv, TypeOK, Streamed, Writing
<1> QED BY <1>1, <1>2, <1>3, <1>4, <1>5, <1>6, UncachedFollows, UncachedTyped, Serving
        DEF Inv, TypeOK

(* The process dies: the files as they are left, the keychain as it is.     *)
LEMMA DyingKeeps ==
  ASSUME Inv, Dies, disk' \in Disk, slips' \subseteq Slip,
         disk'.content \notin Elite, disk'.index \notin Elite,
         disk'.meta # None => disk'.meta.v \notin Elite
  PROVE  Inv'
<1>1. restarts' \in 0..MaxRestarts
  BY MaxRestartsAssumption DEF Inv, TypeOK, Dies
<1>2. \A q \in Readers : run'[q] = NoRun
  BY DEF Dies
<1>3. \A w \in Writers : op'[w] = NoOp
  BY DEF Dies
<1>4. run' \in [Readers -> Run] /\ op' \in [Writers -> Op]
  BY Blank DEF Dies
<1>5. TypeOK'
  BY <1>1, <1>4 DEF Inv, TypeOK, Dies, Maybe
<1>6. Linked' /\ OneDecryption'
  BY <1>2, Blank DEF Linked, OneDecryption, Reading, Mine
<1>7. Streamed'
  BY <1>2, <1>3, Blank DEF Inv, Streamed, EliteInMemoryOnly, Writing, Dies
<1> QED BY <1>5, <1>6, <1>7 DEF Inv

LEMMA RestartKeeps ==
  ASSUME Inv, Restart
  PROVE  Inv'
<1>1. slips' \subseteq Slip
  BY DEF Inv, TypeOK, Restart, Slips, Slip
<1>2. disk' = disk /\ Dies
  BY DEF Restart
<1> QED BY <1>1, <1>2, DyingKeeps DEF Inv, TypeOK, Streamed, EliteInMemoryOnly

LEMMA TornKeeps ==
  ASSUME Inv, NEW w \in Writers, NEW p \in Packages, TornFiles(w, p)
  PROVE  Inv'
<1>1. p \notin Elite
  BY DEF TornFiles, Inv, Streamed, Writing
<1>2. slips' \subseteq Slip /\ Dies
  BY DEF Inv, TypeOK, TornFiles, Slips, Slip
<1>3. IndexOf(p) \in Maybe(Packages) /\ IndexOf(p) \notin Elite /\ None \notin Elite
  BY <1>1, NoneAssumption, PackagesAssumption DEF IndexOf, Maybe
<1>4. /\ disk' \in Disk /\ disk'.content \notin Elite /\ disk'.index \notin Elite
      /\ disk'.meta # None => disk'.meta.v \notin Elite
  <2>1. disk \in Disk /\ disk.content \notin Elite /\ disk.index \notin Elite
        /\ (disk.meta # None => disk.meta.v \notin Elite)
    BY DEF Inv, TypeOK, Streamed, EliteInMemoryOnly
  <2>2. \/ disk' = [disk EXCEPT !.content = None]
        \/ disk' = [disk EXCEPT !.content = None, !.index = None]
        \/ disk' = [disk EXCEPT !.content = p]
        \/ disk' = [disk EXCEPT !.content = p, !.index = IndexOf(p)]
        \/ disk' = [content |-> p, index |-> IndexOf(p), meta |-> None]
    BY DEF TornFiles
  <2>3. p \in Maybe(Packages) /\ None \in Maybe(Packages) /\ None \in Maybe(Meta)
    BY DEF Maybe
  <2> DEFINE Good(d) == /\ d \in Disk /\ d.content \notin Elite /\ d.index \notin Elite
                        /\ d.meta # None => d.meta.v \notin Elite
  <2>4. Good([disk EXCEPT !.content = None])
    BY <1>1, <1>3, <2>1, <2>3 DEF Disk
  <2>5. Good([disk EXCEPT !.content = None, !.index = None])
    BY <1>1, <1>3, <2>1, <2>3 DEF Disk
  <2>6. Good([disk EXCEPT !.content = p])
    BY <1>1, <1>3, <2>1, <2>3 DEF Disk
  <2>7. Good([disk EXCEPT !.content = p, !.index = IndexOf(p)])
    BY <1>1, <1>3, <2>1, <2>3 DEF Disk
  <2>8. Good([content |-> p, index |-> IndexOf(p), meta |-> None])
    BY <1>1, <1>3, <2>1, <2>3 DEF Disk
  <2> QED BY <2>2, <2>4, <2>5, <2>6, <2>7, <2>8
<1> QED BY <1>2, <1>4, DyingKeeps

LEMMA WriteKeeps ==
  ASSUME Inv, NEW w \in Writers, WriteStep(w)
  PROVE  Inv'
<1>t. /\ cache \in Maybe(Package) /\ session \in Maybe(Session) /\ sealed \in Maybe(Seal)
      /\ disk \in Disk /\ bek \in Maybe(Packages) /\ slips \subseteq Slip
      /\ run \in [Readers -> Run]
  BY DEF Inv, TypeOK
<1>0. EliteInMemoryOnly /\ None \notin Elite
  BY NoneAssumption, PackagesAssumption DEF Inv, Streamed
<1>1. ASSUME NEW p \in Packages, StoreStarts(w, p) PROVE Inv'
  <2>1. p \in Packages \ Elite
    BY <1>1 DEF StoreStarts
  <2>2. CASE Write(p) /\ UNCHANGED op
    BY <2>1, <2>2, Writes, Calls, Serving
  <2>3. CASE /\ CallOf(w, "drop", "store", p)
             /\ UNCHANGED <<cache, session, sealed, disk, bek, run, restarts, broken, slips>>
    <3>1. EliteInMemoryOnly' /\ Tied
      BY <1>0, <2>3, IdleFollows, TiesKept DEF EliteInMemoryOnly
    <3> QED BY <1>t, <2>1, <2>3, <3>1, IdleFollows, Calls, Serving
  <2> QED BY <1>1, <2>2, <2>3 DEF StoreStarts
<1>2. ASSUME NEW p \in Packages, TornFiles(w, p) PROVE Inv'
  BY <1>2, TornKeeps
<1>3. CASE DropsKey(w)
  <2>1. /\ bek' = None /\ op' = [op EXCEPT ![w].at = "finish"] /\ Writing(w)
        /\ UNCHANGED <<cache, session, sealed, disk, run, restarts, broken, slips>>
    BY <1>3 DEF DropsKey, Writing
  <2>2. EliteInMemoryOnly' /\ Tied /\ bek' \in Maybe(Packages)
    BY <1>0, <2>1, IdleFollows, TiesKept DEF EliteInMemoryOnly, Maybe
  <2> QED BY <1>t, <2>1, <2>2, IdleFollows, Calls, Serving
<1>4. CASE DropFails(w)
  <2>1. /\ Returns(w) /\ slips' \subseteq Slip
        /\ UNCHANGED <<cache, session, sealed, disk, bek, run, restarts, broken>>
    BY <1>4, <1>t DEF DropFails, Slips, Slip
  <2>2. EliteInMemoryOnly' /\ Tied
    BY <1>0, <2>1, IdleFollows, TiesKept DEF EliteInMemoryOnly
  <2> QED BY <1>t, <2>1, <2>2, IdleFollows, Calls, Serving
<1>5. CASE StoreEnds(w)
  <2>1. op[w].v \in Packages \ Elite /\ Write(op[w].v) /\ Returns(w)
    BY <1>5 DEF StoreEnds, Inv, Streamed, Writing
  <2> QED BY <2>1, Writes, Calls, Serving
<1>6. CASE DestroyStarts(w)
  <2>1. /\ CloseEffect /\ disk' = NoFiles /\ CallOf(w, "drop", "destroy", None)
        /\ UNCHANGED <<sealed, bek, restarts, broken, slips>>
    BY <1>6 DEF DestroyStarts
  <2>2. EliteInMemoryOnly' /\ disk' \in Disk
    BY <1>0, <2>1, Blank DEF EliteInMemoryOnly, NoFiles
  <2> QED BY <1>t, <2>1, <2>2, Closing, Calls, Serving
<1>7. CASE RevokeStarts(w)
  <2>1. /\ CloseEffect /\ CallOf(w, "drop", "revoke", None)
        /\ UNCHANGED <<sealed, disk, bek, restarts, broken, slips>>
    BY <1>7 DEF RevokeStarts
  <2>2. EliteInMemoryOnly'
    BY <1>0, <2>1 DEF EliteInMemoryOnly
  <2> QED BY <1>t, <2>1, <2>2, Closing, Calls, Serving
<1>8. CASE DestroyEnds(w)
  <2>1. DropsCaches /\ Returns(w) /\ UNCHANGED <<session, disk, bek, restarts, broken>>
    BY <1>8 DEF DestroyEnds
  <2>2. EliteInMemoryOnly'
    BY <1>0, <2>1 DEF EliteInMemoryOnly
  <2> QED BY <1>t, <2>1, <2>2, Dropping, Calls, Serving
<1>9. CASE RevokeEnds(w)
  <2>1. DropsCaches /\ Returns(w) /\ UNCHANGED <<session, bek, restarts, broken>>
    BY <1>9 DEF RevokeEnds
  <2>2. /\ disk' \in Disk /\ disk'.content = disk.content /\ disk'.index = disk.index
        /\ disk'.meta # None => disk.meta # None /\ disk'.meta.v = disk.meta.v
    <3>1. CASE disk.meta = None
      BY <1>9, <3>1, <1>t DEF RevokeEnds
    <3>2. CASE disk.meta # None
      <4> DEFINE m == [disk.meta EXCEPT !.licence = FALSE, !.seal = None]
      <4>1. disk.meta \in Meta
        BY <3>2, <1>t DEF Disk, Maybe
      <4>2. m \in Meta /\ m.v = disk.meta.v
        BY <4>1 DEF Meta, Maybe
      <4>3. disk' = [disk EXCEPT !.meta = m]
        BY <1>9, <3>2 DEF RevokeEnds
      <4> QED BY <4>2, <4>3, <3>2, <1>t DEF Disk, Maybe
    <3> QED BY <3>1, <3>2
  <2>3. EliteInMemoryOnly'
    BY <1>0, <2>1, <2>2 DEF EliteInMemoryOnly
  <2> QED BY <1>t, <2>1, <2>2, <2>3, Dropping, Calls, Serving
<1> QED BY <1>1, <1>2, <1>3, <1>4, <1>5, <1>6, <1>7, <1>8, <1>9 DEF WriteStep

-----------------------------------------------------------------------------
(* The inductive invariant: types, what decryptions share with the caches,  *)
(* and where the bytes and keys of a streamed package may be.               *)
THEOREM Invariance == Spec => []Inv
<1>1. Inv /\ [Next]_vars => Inv'
  <2> SUFFICES ASSUME Inv, [Next]_vars PROVE Inv'
    OBVIOUS
  <2>1. CASE OpenSession \/ Close
    BY <2>1, SessionKeeps
  <2>2. CASE Restart
    BY <2>2, RestartKeeps
  <2>3. ASSUME NEW p \in Packages, StoreElite(p) PROVE Inv'
    BY <2>3, StreamKeeps
  <2>4. ASSUME NEW r \in Readers, ReadStep(r) PROVE Inv'
    BY <2>4, ReadKeeps
  <2>5. ASSUME NEW w \in Writers, WriteStep(w) PROVE Inv'
    BY <2>5, WriteKeeps
  <2>6. CASE UNCHANGED vars
    BY <2>6 DEF vars, Inv, TypeOK, Linked, Streamed, EliteInMemoryOnly, OneDecryption,
                Reading, Writing, Mine
  <2> QED BY <2>1, <2>2, <2>3, <2>4, <2>5, <2>6 DEF Next
<1> QED BY Initially, <1>1, PTL DEF Spec

(* The variables keep their types, for any packages, readers and writers.   *)
THEOREM TypeCorrect == Spec => []TypeOK
<1>1. Inv => TypeOK
  BY DEF Inv
<1> QED BY Invariance, <1>1, PTL

(* No byte and no key of a streamed (Elite) package is ever in the files or *)
(* the keychain, whatever is stored, read, deleted or cut short meanwhile.  *)
THEOREM NothingOfElitePersists == Spec => []EliteInMemoryOnly
<1>1. Inv => EliteInMemoryOnly
  BY DEF Inv, Streamed
<1> QED BY Invariance, <1>1, PTL

(* All the callers of one session share one decryption of each kind.        *)
THEOREM SharedDecryption == Spec => []OneDecryption
<1>1. Inv => OneDecryption
  BY DEF Inv
<1> QED BY Invariance, <1>1, PTL

-----------------------------------------------------------------------------
(* Until a slip, keys, seals and ciphertexts belong together.               *)

(* A session has its package in memory, and a raw key of its own if any.    *)
SessionHasPackage ==
  session # None => cache # None /\ session.rawKey \in {None, cache.v}

(* A package that persists is cached as the files hold it, or without the   *)
(* content that the session has as text.                                    *)
CachedIsStored ==
  cache # None =>
    /\ cache.v \in Elite => cache.content = cache.v
    /\ cache.v \notin Elite =>
         /\ Loadable /\ disk.meta.v = cache.v
         /\ sealed # None => sealed.key = cache.v
         /\ cache.content \in {None, disk.content}
         /\ cache.content = None => session # None /\ session.text # None
         /\ session # None /\ session.text # None => disk.content = cache.v

(* The keychain has the key of the package on disk, or of one that a        *)
(* deletion is about to drop.                                               *)
KeyIsTheFiles ==
  /\ bek # None /\ disk.meta = None =>
       \E w \in Writers : op[w].at = "drop" /\ op[w].call = "destroy"
  /\ bek # None /\ disk.meta # None => bek = disk.meta.v
  /\ disk.meta # None /\ disk.meta.seal # None => disk.meta.seal.key = disk.meta.v

(* What a call about to write, and a deletion, can rely on.                 *)
CallsRely ==
  \A w \in Writers :
    /\ op[w].at = "finish" /\ op[w].call = "store" => bek \in {None, op[w].v}
    /\ Writing(w) /\ op[w].call = "destroy" => disk = NoFiles
    /\ op[w].at = "finish" /\ op[w].call = "destroy" => bek = None

(* A decryption has the key of its package, whatever was closed since; while*)
(* its session is open, that package is the cached one.                     *)
Of(r) == run[r].pkg.v
ReadsRely ==
  \A r \in Readers : Reading(r) =>
    /\ run[r].key \in {None, Of(r)}
    /\ run[r].at = "seal" => Of(r) \notin Elite
    /\ Of(r) \notin Elite => bek \in {None, Of(r)} /\ (disk.meta # None => disk.meta.v = Of(r))
    /\ Mine(r) => cache # None /\ cache.v = Of(r)
    /\ Mine(r) /\ Of(r) \notin Elite /\ run[r].pkg.content = Of(r) => disk.content = Of(r)
    /\ "cache" \in run[r].ties => cache # None /\ cache.v = Of(r) /\ (Of(r) \in Elite \/ Mine(r))

Fitting == SessionHasPackage /\ CachedIsStored /\ KeyIsTheFiles /\ CallsRely /\ ReadsRely
Sound == slips = {} => ~broken /\ Fitting

-----------------------------------------------------------------------------
(* The steps of a decryption. *)

Typed ==
  /\ cache # None => cache \in Package
  /\ session # None => session \in Session
  /\ sealed # None => sealed \in Seal
  /\ disk \in Disk
  /\ disk.meta # None => disk.meta \in Meta
  /\ disk.meta # None /\ disk.meta.seal # None => disk.meta.seal \in Seal
  /\ bek \in Maybe(Packages)
  /\ None \notin Packages

LEMMA StoreTyped == Inv => Typed
  BY NoneAssumption DEF Inv, TypeOK, Typed, Disk, Meta, Maybe

(* A decryption that goes on has its package, its ties and the key of it.   *)
Goes(q) ==
  Reading(q)' =>
    /\ Reading(q) /\ run'[q].pkg = run[q].pkg /\ run'[q].ties = run[q].ties
    /\ run'[q].key \in {None, Of(q)}
    /\ run'[q].at = "seal" => Of(q) \notin Elite

LEMMA StayingGoes ==
  ASSUME ReadsRely, UNCHANGED run PROVE \A q \in Readers : Goes(q)
  BY DEF ReadsRely, Goes, Reading, Of

LEMMA MovingGoes ==
  ASSUME Inv, ReadsRely, NEW r \in Readers, Reading(r), NEW a, NEW k \in {None, Of(r)},
         a = "seal" => Of(r) \notin Elite, Moves(r, a, k)
  PROVE  \A q \in Readers : Goes(q)
<1> SUFFICES ASSUME NEW q \in Readers PROVE Goes(q)
  OBVIOUS
<1>1. run[r] \in Run /\ run \in [Readers -> Run]
  BY DEF Inv, TypeOK
<1>2. run'[q] = IF q = r THEN [run[r] EXCEPT !.at = a, !.key = k] ELSE run[q]
  BY <1>1 DEF Moves
<1>3. CASE q = r
  BY <1>1, <1>2, <1>3 DEF Goes, Run, Of
<1>4. CASE q # r
  BY <1>2, <1>4 DEF Goes, ReadsRely, Reading, Of
<1> QED BY <1>3, <1>4

LEMMA EndingGoes ==
  ASSUME Inv, ReadsRely, NEW r \in Readers, Ends(r)
  PROVE  \A q \in Readers : Goes(q)
<1> SUFFICES ASSUME NEW q \in Readers PROVE Goes(q)
  OBVIOUS
<1>1. run \in [Readers -> Run]
  BY DEF Inv, TypeOK
<1>2. run'[q] = IF q = r THEN NoRun ELSE run[q]
  BY <1>1 DEF Ends
<1> QED BY <1>2, Blank DEF Goes, ReadsRely, Reading, Of

(* Where cache, files and keychain still serve it, it can rely on them.     *)
LEMMA GoingRelies ==
  ASSUME Fitting, \A q \in Readers : Goes(q),
         cache # None => cache' # None /\ cache'.v = cache.v,
         disk'.content = disk.content,
         disk'.meta # None => disk.meta # None /\ disk'.meta.v = disk.meta.v,
         \A q \in Readers : Reading(q) /\ Of(q) \notin Elite => bek' \in {None, Of(q)}
  PROVE  ReadsRely'
<1> SUFFICES ASSUME NEW q \in Readers, Reading(q)'
             PROVE
    /\ run'[q].key \in {None, Of(q)'}
    /\ run'[q].at = "seal" => Of(q)' \notin Elite
    /\ Of(q)' \notin Elite => bek' \in {None, Of(q)'} /\ (disk'.meta # None => disk'.meta.v = Of(q)')
    /\ Mine(q)' => cache' # None /\ cache'.v = Of(q)'
    /\ Mine(q)' /\ Of(q)' \notin Elite /\ run'[q].pkg.content = Of(q)' => disk'.content = Of(q)'
    /\ "cache" \in run'[q].ties => cache' # None /\ cache'.v = Of(q)' /\ (Of(q)' \in Elite \/ Mine(q)')
  BY DEF ReadsRely
<1>1. /\ Reading(q) /\ Of(q)' = Of(q) /\ run'[q].pkg = run[q].pkg
      /\ run'[q].ties = run[q].ties /\ (Mine(q)' <=> Mine(q))
  BY DEF Goes, Of, Mine
<1>2. run'[q].key \in {None, Of(q)'} /\ (run'[q].at = "seal" => Of(q)' \notin Elite)
  BY <1>1 DEF Goes
<1> QED BY <1>1, <1>2 DEF Fitting, ReadsRely

(* The key fits the seal, so it is used.                                    *)
LEMMA KeyFits ==
  ASSUME Inv, Fitting, ~broken, NEW r \in Readers, Reading(r), Of(r) \in Packages, HasKey(r, Of(r))
  PROVE  ~broken' /\ \A q \in Readers : Goes(q)
<1>0. ReadsRely
  BY DEF Fitting
<1>1. CASE Moves(r, "seal", Of(r)) /\ Of(r) \notin Elite /\ UNCHANGED broken
  BY <1>0, <1>1, MovingGoes
<1>2. CASE Moves(r, "decrypt", Of(r)) /\ UNCHANGED broken
  BY <1>0, <1>2, MovingGoes
<1>3. CASE Of(r) \notin Elite /\ sealed # None /\ sealed.key # Of(r) /\ Breaks(r)
  <2>1. ~Mine(r)
    BY <1>3 DEF Fitting, ReadsRely, CachedIsStored
  <2>2. Ends(r) /\ broken' = (broken \/ Mine(r))
    BY <1>3 DEF Breaks
  <2> QED BY <1>0, <2>1, <2>2, EndingGoes
<1> QED BY <1>1, <1>2, <1>3 DEF HasKey, Of

(* The steps that leave cache, seal, files, keychain and calls alone, and   *)
(* of the session all but its key.                                          *)
LEMMA QuietRead ==
  ASSUME Inv, Fitting, \A q \in Readers : Goes(q), UNCHANGED <<cache, sealed, disk, bek, op>>,
         \/ session' = session
         \/ session # None /\ session' # None /\ session'.text = session.text
            /\ session'.rawKey \in {None, cache.v}
  PROVE  Fitting'
<1>1. ReadsRely'
  BY GoingRelies DEF Fitting, ReadsRely
<1>2. SessionHasPackage'
  BY DEF Fitting, SessionHasPackage
<1>3. CachedIsStored'
  BY DEF Fitting, CachedIsStored, Loadable
<1>4. KeyIsTheFiles' /\ CallsRely'
  BY DEF Fitting, KeyIsTheFiles, CallsRely, Writing
<1> QED BY <1>1, <1>2, <1>3, <1>4 DEF Fitting

LEMMA StartFits ==
  ASSUME Inv, Fitting, ~broken, NEW r \in Readers, NEW kind \in {"book", "index"}, StartRead(r, kind)
  PROVE  ~broken' /\ Fitting'
<1>1. /\ ~Reading(r) /\ session # None /\ ~Done(kind)
      /\ UNCHANGED <<cache, session, sealed, disk, bek, op, slips>>
  BY DEF StartRead
<1>2. cache # None /\ ~(kind = "book" /\ cache.content = None)
  <2>1. cache # None /\ Typed
    BY <1>1, StoreTyped DEF Fitting, SessionHasPackage
  <2>2. cache.content = None => session.text # None
    BY <2>1 DEF Fitting, CachedIsStored, Typed, Package
  <2> QED BY <1>1, <2>1, <2>2 DEF Done
<1> DEFINE new == [at |-> "key", of |-> kind, pkg |-> cache, key |-> session.rawKey,
                   ties |-> {"session", "cache"}]
<1>3. broken' = broken /\ run' = [run EXCEPT ![r] = new]
  BY <1>2 DEF StartRead
<1>4. \A q \in Readers : run'[q] = IF q = r THEN new ELSE run[q]
  BY <1>3 DEF Inv, TypeOK
<1>5. ASSUME NEW q \in Readers, q # r PROVE Goes(q)
  BY <1>4, <1>5 DEF Goes, Fitting, ReadsRely, Reading, Of
<1>6. ReadsRely'
  <2>1. session.rawKey \in {None, cache.v}
    BY <1>1 DEF Fitting, SessionHasPackage
  <2>2. cache.v \notin Elite => bek \in {None, cache.v} /\ disk.meta # None /\ disk.meta.v = cache.v
    BY <1>2 DEF Fitting, CachedIsStored, KeyIsTheFiles, Loadable
  <2>3. cache.v \notin Elite /\ cache.content = cache.v => disk.content = cache.v
    <3>1. Typed
      BY StoreTyped
    <3> QED BY <1>2, <3>1 DEF Fitting, CachedIsStored, Typed, Package
  <2> SUFFICES ASSUME NEW q \in Readers, Reading(q)'
               PROVE
      /\ run'[q].key \in {None, Of(q)'}
      /\ run'[q].at = "seal" => Of(q)' \notin Elite
      /\ Of(q)' \notin Elite => bek' \in {None, Of(q)'} /\ (disk'.meta # None => disk'.meta.v = Of(q)')
      /\ Mine(q)' => cache' # None /\ cache'.v = Of(q)'
      /\ Mine(q)' /\ Of(q)' \notin Elite /\ run'[q].pkg.content = Of(q)' => disk'.content = Of(q)'
      /\ "cache" \in run'[q].ties => cache' # None /\ cache'.v = Of(q)' /\ (Of(q)' \in Elite \/ Mine(q)')
    BY DEF ReadsRely
  <2>4. CASE q = r
    <3>1. /\ run'[q].pkg = cache /\ run'[q].key = session.rawKey /\ run'[q].at = "key"
          /\ Of(q)' = cache.v /\ Mine(q)'
      BY <1>4, <2>4 DEF Of, Mine
    <3> QED BY <1>1, <1>2, <2>1, <2>2, <2>3, <3>1
  <2>5. CASE q # r
    <3>1. run'[q] = run[q] /\ Reading(q) /\ Of(q)' = Of(q) /\ (Mine(q)' <=> Mine(q))
      BY <1>4, <2>5 DEF Reading, Of, Mine
    <3> QED BY <1>1, <3>1 DEF Fitting, ReadsRely
  <2> QED BY <2>4, <2>5
<1>7. SessionHasPackage' /\ CachedIsStored' /\ KeyIsTheFiles' /\ CallsRely'
  BY <1>1 DEF Fitting, SessionHasPackage, CachedIsStored, Loadable, KeyIsTheFiles, CallsRely, Writing
<1> QED BY <1>3, <1>6, <1>7 DEF Fitting


LEMMA ReadFits ==
  ASSUME Inv, slips = {} , ~broken, Fitting, NEW r \in Readers, ReadStep(r), slips' = {}
  PROVE  ~broken' /\ Fitting'
<1>0. Typed /\ ReadsRely
  BY StoreTyped DEF Fitting
<1>r. Reading(r) => /\ run[r].pkg \in Package /\ Of(r) \in Packages
                    /\ run[r].key \in {None, Of(r)}
                    /\ run[r].at = "seal" => Of(r) \notin Elite
                    /\ run[r].at \in {"save", "seal", "decrypt"} => run[r].key = Of(r)
                    /\ run[r].at = "save" => Of(r) \notin Elite
  BY <1>0 DEF Inv, Linked, Streamed, ReadsRely, Typed, Package, Of, Reading
<1>1. CASE \E kind \in {"book", "index"} : StartRead(r, kind)
  BY <1>1, StartFits
<1>2. CASE KeyFound(r)
  <2>1. Reading(r) /\ HasKey(r, Of(r)) /\ UNCHANGED <<cache, session, sealed, disk, bek, op>>
    BY <1>0, <1>2, <1>r DEF KeyFound, ReadsRely, Reading, Of
  <2> QED BY <1>r, <2>1, KeyFits, QuietRead
<1>3. CASE KeyMissing(r)
  <2>1. Reading(r) /\ Moves(r, "unwrap", None) /\ broken' = broken
        /\ UNCHANGED <<cache, session, sealed, disk, bek, op>>
    BY <1>3 DEF KeyMissing, Reading
  <2> QED BY <1>0, <2>1, MovingGoes, QuietRead
<1>4. CASE Unwraps(r)
  <2>1. Reading(r) /\ UNCHANGED <<cache, sealed, disk, bek, op>>
    BY <1>4 DEF Unwraps, Reading
  <2>2. CASE Of(r) \in Elite
    <3>1. HasKey(r, Of(r)) /\ session' = IF Mine(r) THEN [session EXCEPT !.rawKey = Of(r)] ELSE session
      BY <1>4, <2>2 DEF Unwraps, Of
    <3>2. Mine(r) => session # None /\ session \in Session /\ cache.v = Of(r)
      BY <1>0, <2>1 DEF Inv, Linked, Typed, ReadsRely
    <3>3. Mine(r) => session' \in Session /\ session'.text = session.text /\ session'.rawKey = cache.v
      BY <1>r, <2>1, <3>1, <3>2 DEF Session, Maybe
    <3>4. Mine(r) => session' # None
      BY <3>3, NoneAssumption
    <3> QED BY <1>r, <2>1, <3>1, <3>2, <3>3, <3>4, KeyFits, QuietRead
  <2>3. CASE Of(r) \notin Elite
    <3>1. Moves(r, "save", Of(r)) /\ session' = session /\ broken' = broken
      BY <1>4, <2>3 DEF Unwraps, Of
    <3> QED BY <1>0, <2>1, <3>1, MovingGoes, QuietRead
  <2> QED BY <2>2, <2>3
<1>5. CASE Garbled(r)
  <2>1. Reading(r) /\ UNCHANGED <<cache, session, sealed, disk, bek, op>>
        /\ Bytes(r) # run[r].pkg.v /\ Ends(r) /\ broken' = broken
    BY <1>5, <1>r DEF Garbled, Reading, Fits, Of
  <2> QED BY <1>0, <2>1, EndingGoes, QuietRead
<1>6. CASE Denied(r)
  <2>1. Ends(r) /\ broken' = broken /\ UNCHANGED <<cache, session, sealed, disk, bek, op>>
    BY <1>6 DEF Denied
  <2> QED BY <1>0, <2>1, EndingGoes, QuietRead
<1>7. CASE SavesKey(r)
  <2>1. /\ Reading(r) /\ bek' = Of(r) /\ HasKey(r, Of(r)) /\ Of(r) \notin Elite
        /\ UNCHANGED <<cache, session, sealed, disk, op>>
    BY <1>7, <1>r DEF SavesKey, Of, Reading
  <2>2. /\ disk.meta # None /\ disk.meta.v = Of(r)
        /\ \A w \in Writers : op[w].at = "finish" /\ op[w].call = "store" => op[w].v = Of(r)
    BY <1>7 DEF SavesKey, Slips, Rotated, Replaces, Of
  <2>3. ~broken' /\ \A q \in Readers : Goes(q)
    BY <1>r, <2>1, KeyFits
  <2>4. \A q \in Readers : Reading(q) /\ Of(q) \notin Elite => bek' \in {None, Of(q)}
    BY <1>0, <2>1, <2>2 DEF ReadsRely
  <2>5. ReadsRely'
    BY <2>1, <2>3, <2>4, GoingRelies
  <2>6. KeyIsTheFiles'
    BY <2>1, <2>2 DEF Fitting, KeyIsTheFiles
  <2>7. CallsRely'
    BY <2>1, <2>2 DEF Fitting, CallsRely, Writing, NoFiles
  <2>8. SessionHasPackage' /\ CachedIsStored'
    BY <2>1 DEF Fitting, SessionHasPackage, CachedIsStored, Loadable
  <2> QED BY <2>3, <2>5, <2>6, <2>7, <2>8 DEF Fitting
<1>8. CASE MakesSeal(r)
  <2> DEFINE seal == [licence |-> run[r].pkg.v, key |-> run[r].key]
  <2>1. /\ Reading(r) /\ Of(r) \notin Elite /\ run[r].key = Of(r) /\ broken' = broken
        /\ Moves(r, "decrypt", Of(r)) /\ sealed' = seal /\ seal.key = Of(r)
        /\ UNCHANGED <<cache, session, bek, op>>
        /\ disk' = IF disk.meta = None THEN disk ELSE [disk EXCEPT !.meta.seal = seal]
    BY <1>8, <1>r DEF MakesSeal, Of, Reading
  <2>2. /\ disk'.content = disk.content /\ disk'.index = disk.index
        /\ disk'.meta # None <=> disk.meta # None
        /\ disk.meta # None => disk'.meta.v = disk.meta.v /\ disk'.meta.seal = seal
        /\ disk.meta = None => disk' = disk
    <3>1. CASE disk.meta = None
      BY <2>1, <3>1
    <3>2. CASE disk.meta # None
      <4> DEFINE m == [disk.meta EXCEPT !.seal = seal]
      <4>1. disk.meta \in Meta /\ seal \in Seal
        BY <1>0, <1>r, <2>1, <3>2 DEF Typed, Seal, Of
      <4>2. m \in Meta /\ m.v = disk.meta.v /\ m.seal = seal
        BY <4>1 DEF Meta, Maybe
      <4>3. disk' = [disk EXCEPT !.meta = m]
        BY <2>1, <3>2
      <4>4. disk'.meta = m /\ disk'.content = disk.content /\ disk'.index = disk.index
        BY <1>0, <4>2, <4>3 DEF Typed, Disk, Maybe
      <4>5. m # None
        BY <4>2, NoneAssumption
      <4> QED BY <3>2, <4>2, <4>4, <4>5
    <3> QED BY <3>1, <3>2
  <2> HIDE DEF seal
  <2>3. \A q \in Readers : Goes(q)
    BY <1>0, <2>1, MovingGoes
  <2>4. \A q \in Readers : Reading(q) /\ Of(q) \notin Elite => bek' \in {None, Of(q)}
    BY <1>0, <2>1 DEF ReadsRely
  <2>5. ReadsRely'
    BY <2>1, <2>2, <2>3, <2>4, GoingRelies
  <2>6. disk.meta # None => disk.meta.v = Of(r)
    BY <1>0, <2>1 DEF ReadsRely
  <2>7. KeyIsTheFiles'
    BY <2>1, <2>2, <2>6 DEF Fitting, KeyIsTheFiles
  <2>8. CallsRely'
    BY <2>1, <2>2 DEF Fitting, CallsRely, Writing, NoFiles
  <2>9. SessionHasPackage' /\ CachedIsStored'
    BY <2>1, <2>2, <2>6 DEF Fitting, SessionHasPackage, CachedIsStored, Loadable
  <2> QED BY <2>1, <2>5, <2>7, <2>8, <2>9 DEF Fitting
<1>9. CASE Decrypts(r)
  <2>1. /\ Reading(r) /\ Ends(r) /\ broken' = broken /\ UNCHANGED <<sealed, disk, bek, op>>
        /\ run[r].of = "book" => run[r].pkg.content = Of(r)
    BY <1>9 DEF Decrypts, Reading, Fits, Bytes, Of
  <2>2. /\ ~Mine(r) => session' = session
        /\ Mine(r) => session \in Session
        /\ Mine(r) /\ run[r].of = "book" => session' = [session EXCEPT !.text = Of(r)]
        /\ Mine(r) /\ run[r].of # "book" => session' = [session EXCEPT !.index = Of(r)]
    BY <1>0, <1>9 DEF Decrypts, Inv, Linked, Typed, Of
  <2>3. Mine(r) => /\ session' # None /\ session # None /\ session'.rawKey = session.rawKey
                   /\ run[r].of = "book" => session'.text = Of(r)
                   /\ run[r].of # "book" => session'.text = session.text
    <3>1. Mine(r) => /\ session' \in Session /\ session'.rawKey = session.rawKey
                     /\ run[r].of = "book" => session'.text = Of(r)
                     /\ run[r].of # "book" => session'.text = session.text
      BY <1>r, <2>1, <2>2 DEF Session, Maybe
    <3> QED BY <2>2, <3>1, NoneAssumption
  <2>4. \/ cache' = cache
        \/ /\ run[r].of = "book" /\ Of(r) \notin Elite /\ "cache" \in run[r].ties
           /\ cache' = [cache EXCEPT !.content = None]
    BY <1>9 DEF Decrypts, Of
  <2>5. "cache" \in run[r].ties => cache # None /\ cache \in Package /\ cache.v = Of(r)
                                   /\ (Of(r) \in Elite \/ Mine(r))
    BY <1>0, <2>1 DEF Typed, ReadsRely
  <2>6. \/ cache' = cache
        \/ /\ run[r].of = "book" /\ Of(r) \notin Elite /\ Mine(r)
           /\ cache # None /\ cache' # None /\ cache'.v = cache.v /\ cache'.content = None
    <3>1. "cache" \in run[r].ties =>
            /\ [cache EXCEPT !.content = None] \in Package
            /\ [cache EXCEPT !.content = None].v = cache.v
            /\ [cache EXCEPT !.content = None].content = None
      BY <2>5 DEF Package, Maybe
    <3> QED BY <2>4, <2>5, <3>1, NoneAssumption
  <2>7. \A q \in Readers : Goes(q)
    BY <1>0, <2>1, EndingGoes
  <2>8. \A q \in Readers : Reading(q) /\ Of(q) \notin Elite => bek' \in {None, Of(q)}
    BY <1>0, <2>1 DEF ReadsRely
  <2>9. ReadsRely'
    BY <2>1, <2>6, <2>7, <2>8, GoingRelies
  <2>10. SessionHasPackage'
    BY <2>2, <2>3, <2>6 DEF Fitting, SessionHasPackage
  <2>11. Mine(r) /\ Of(r) \notin Elite /\ run[r].of = "book" => disk.content = Of(r) /\ cache.v = Of(r)
    BY <1>0, <2>1 DEF ReadsRely
  <2>12. CachedIsStored'
    <3> SUFFICES ASSUME cache' # None PROVE
          /\ cache'.v \in Elite => cache'.content = cache'.v
          /\ cache'.v \notin Elite =>
               /\ Loadable' /\ disk'.meta.v = cache'.v
               /\ sealed' # None => sealed'.key = cache'.v
               /\ cache'.content \in {None, disk'.content}
               /\ cache'.content = None => session' # None /\ session'.text # None
               /\ session' # None /\ session'.text # None => disk'.content = cache'.v
      BY DEF CachedIsStored
    <3>1. /\ cache # None /\ cache'.v = cache.v /\ (Loadable' <=> Loadable)
          /\ Mine(r) => cache.v = Of(r)
          /\ Of(r) # None
      BY <1>0, <1>r, <2>1, <2>6 DEF Loadable, ReadsRely, Typed
    <3>2. CASE cache.v \in Elite
      BY <2>6, <3>1, <3>2 DEF Fitting, CachedIsStored
    <3>3. CASE cache.v \notin Elite
      <4>1. /\ Loadable /\ disk.meta.v = cache.v
            /\ sealed # None => sealed.key = cache.v
            /\ cache.content \in {None, disk.content}
            /\ cache.content = None => session # None /\ session.text # None
            /\ session # None /\ session.text # None => disk.content = cache.v
        BY <3>1, <3>3 DEF Fitting, CachedIsStored
      <4>2. session' # None /\ session'.text # None => disk.content = cache.v
        BY <2>2, <2>3, <2>11, <3>1, <3>3, <4>1
      <4>3. cache'.content = None => session' # None /\ session'.text # None
        BY <2>2, <2>3, <2>6, <3>1, <4>1
      <4> QED BY <2>1, <2>6, <3>1, <3>3, <4>1, <4>2, <4>3
    <3> QED BY <3>2, <3>3
  <2>13. KeyIsTheFiles' /\ CallsRely'
    BY <2>1 DEF Fitting, KeyIsTheFiles, CallsRely, Writing
  <2> QED BY <2>1, <2>9, <2>10, <2>12, <2>13 DEF Fitting
<1> QED BY <1>1, <1>2, <1>3, <1>4, <1>5, <1>6, <1>7, <1>8, <1>9 DEF ReadStep


-----------------------------------------------------------------------------
(* The steps of the sessions and of the calls that write. *)

(* Decryptions lose ties to the cache, or to a session that is closed.      *)
LEMMA UncachedIs ==
  ASSUME Inv, run' = Uncached, NEW q \in Readers
  PROVE  /\ run'[q].at = run[q].at /\ run'[q].pkg = run[q].pkg /\ run'[q].key = run[q].key
         /\ run'[q].ties = run[q].ties \ {"cache"} /\ "cache" \notin run'[q].ties
         /\ Reading(q)' <=> Reading(q)
         /\ Of(q)' = Of(q) /\ (Mine(q)' <=> Mine(q))
<1>1. run[q] \in Run /\ run'[q] = [run[q] EXCEPT !.ties = @ \ {"cache"}]
  BY DEF Inv, TypeOK, Uncached
<1>2. /\ run'[q].at = run[q].at /\ run'[q].pkg = run[q].pkg /\ run'[q].key = run[q].key
      /\ run'[q].ties = run[q].ties \ {"cache"}
  BY <1>1 DEF Run
<1> QED BY <1>2 DEF Reading, Of, Mine

LEMMA OrphanedIs ==
  ASSUME Inv, run' = Orphaned, NEW q \in Readers
  PROVE  /\ run'[q].at = run[q].at /\ run'[q].pkg = run[q].pkg /\ run'[q].key = run[q].key
         /\ Reading(q)' <=> Reading(q)
         /\ Of(q)' = Of(q) /\ ~Mine(q)'
         /\ "cache" \in run'[q].ties => "cache" \in run[q].ties /\ ClosedCache # None
<1>1. run[q] \in Run /\ run'[q] = [run[q] EXCEPT !.ties = IF ClosedCache = None THEN {}
                                                         ELSE @ \ {"session"}]
  BY DEF Inv, TypeOK, Orphaned
<1>2. /\ run'[q].at = run[q].at /\ run'[q].pkg = run[q].pkg /\ run'[q].key = run[q].key
      /\ run'[q].ties = IF ClosedCache = None THEN {} ELSE run[q].ties \ {"session"}
  BY <1>1 DEF Run
<1> QED BY <1>2 DEF Reading, Of, Mine

LEMMA OpenFits ==
  ASSUME Inv, Fitting, OpenSession
  PROVE  Fitting'
<1>0. Typed
  BY StoreTyped
<1>1. /\ session = None /\ session' = NewSession /\ session' # None
      /\ session'.rawKey = None /\ session'.text = None
      /\ UNCHANGED <<disk, bek, op>>
  BY Blank, NoneAssumption DEF OpenSession, NewSession
<1>2. \A q \in Readers : ~Mine(q)
  BY <1>1 DEF Inv, Linked
<1>3. KeyIsTheFiles' /\ CallsRely'
  BY <1>1 DEF Fitting, KeyIsTheFiles, CallsRely, Writing
<1>4. CASE cache # None /\ UNCHANGED <<cache, sealed, run>>
  <2>1. ReadsRely'
    BY <1>1, <1>4 DEF Fitting, ReadsRely, Reading, Mine, Of
  <2>2. SessionHasPackage' /\ CachedIsStored'
    BY <1>1, <1>4 DEF Fitting, SessionHasPackage, CachedIsStored, Loadable
  <2> QED BY <1>3, <2>1, <2>2 DEF Fitting
<1>5. CASE cache = None /\ Loadable /\ cache' = Persisted /\ sealed' = disk.meta.seal /\ run' = Uncached
  <2>1. /\ cache' # None /\ cache'.v = disk.meta.v /\ cache'.content = disk.content
        /\ disk.meta # None /\ disk.content # None
    BY <1>0, <1>5, Sources, NoneAssumption DEF Typed, Persisted, Loadable
  <2>2. disk.meta.v \notin Elite
    BY <2>1 DEF Inv, Streamed, EliteInMemoryOnly
  <2>3. ReadsRely'
    <3> SUFFICES ASSUME NEW q \in Readers, Reading(q)'
                 PROVE
        /\ run'[q].key \in {None, Of(q)'}
        /\ run'[q].at = "seal" => Of(q)' \notin Elite
        /\ Of(q)' \notin Elite => bek' \in {None, Of(q)'} /\ (disk'.meta # None => disk'.meta.v = Of(q)')
        /\ ~Mine(q)' /\ "cache" \notin run'[q].ties
      BY DEF ReadsRely
    <3>1. /\ run'[q].at = run[q].at /\ run'[q].key = run[q].key
          /\ Reading(q) /\ Of(q)' = Of(q) /\ ~Mine(q)' /\ "cache" \notin run'[q].ties
      BY <1>2, <1>5, UncachedIs
    <3> QED BY <1>1, <3>1 DEF Fitting, ReadsRely
  <2>4. SessionHasPackage'
    BY <1>1, <2>1 DEF SessionHasPackage
  <2>5. CachedIsStored'
    BY <1>1, <1>5, <2>1, <2>2 DEF Fitting, CachedIsStored, KeyIsTheFiles, Loadable
  <2> QED BY <1>3, <2>3, <2>4, <2>5 DEF Fitting
<1> QED BY <1>4, <1>5 DEF OpenSession

(* close(), also as the first part of a deletion or a revocation.           *)
LEMMA CloseFits ==
  ASSUME Inv, Fitting, CloseEffect, UNCHANGED <<sealed, bek>>, disk' \in {disk, NoFiles}
  PROVE  SessionHasPackage' /\ CachedIsStored' /\ ReadsRely'
<1>1. session' = None /\ cache' = ClosedCache /\ run' = Orphaned
  BY DEF CloseEffect
<1>2. cache' # None => cache' = cache /\ cache # None /\ cache.v \in Elite
  BY <1>1 DEF ClosedCache
<1>3. disk'.meta # None => disk' = disk
  BY DEF NoFiles
<1>4. ReadsRely'
  <2> SUFFICES ASSUME NEW q \in Readers, Reading(q)'
               PROVE
      /\ run'[q].key \in {None, Of(q)'}
      /\ run'[q].at = "seal" => Of(q)' \notin Elite
      /\ Of(q)' \notin Elite => bek' \in {None, Of(q)'} /\ (disk'.meta # None => disk'.meta.v = Of(q)')
      /\ ~Mine(q)'
      /\ "cache" \in run'[q].ties => cache' # None /\ cache'.v = Of(q)' /\ Of(q)' \in Elite
    BY DEF ReadsRely
  <2>1. /\ run'[q].at = run[q].at /\ run'[q].pkg = run[q].pkg /\ run'[q].key = run[q].key
        /\ Reading(q) /\ Of(q)' = Of(q) /\ ~Mine(q)'
        /\ "cache" \in run'[q].ties => "cache" \in run[q].ties /\ ClosedCache # None
    BY <1>1, OrphanedIs
  <2> QED BY <1>1, <1>2, <1>3, <2>1 DEF Fitting, ReadsRely
<1>5. SessionHasPackage' /\ CachedIsStored'
  BY <1>1, <1>2 DEF Fitting, SessionHasPackage, CachedIsStored
<1> QED BY <1>4, <1>5

LEMMA StreamFits ==
  ASSUME Inv, slips = {}, Fitting, NEW p \in Packages, StoreElite(p), slips' = {}
  PROVE  Fitting'
<1>1. /\ p \in Elite /\ cache' = Fresh(p) /\ cache' # None /\ cache'.v = p /\ cache'.content = p
      /\ run' = Uncached /\ UNCHANGED <<session, sealed, disk, bek, op>>
  BY Sources, NoneAssumption DEF StoreElite, Fresh
<1>2. /\ \A q \in Readers : Reading(q) => Of(q) = p
      /\ session # None => session.rawKey \in {None, p}
  BY DEF StoreElite, Slips, UnderAReader, Of
<1>3. ReadsRely'
  <2> SUFFICES ASSUME NEW q \in Readers, Reading(q)'
               PROVE
      /\ run'[q].key \in {None, Of(q)'}
      /\ Of(q)' \in Elite /\ run'[q].at # "seal"
      /\ cache' # None /\ cache'.v = Of(q)'
    BY DEF ReadsRely
  <2>1. run'[q].key = run[q].key /\ run'[q].at = run[q].at /\ Reading(q) /\ Of(q)' = Of(q)
    BY <1>1, UncachedIs
  <2> QED BY <1>1, <1>2, <2>1 DEF Fitting, ReadsRely
<1>4. SessionHasPackage' /\ CachedIsStored'
  BY <1>1, <1>2 DEF SessionHasPackage, CachedIsStored
<1>5. KeyIsTheFiles' /\ CallsRely'
  BY <1>1 DEF Fitting, KeyIsTheFiles, CallsRely, Writing
<1> QED BY <1>3, <1>4, <1>5 DEF Fitting

(* The writes of a store(): what it finds in the keychain is the key of the *)
(* package it writes, and no deletion is under way.                         *)
LEMMA WriteFits ==
  ASSUME Inv, slips = {}, Fitting, NEW p \in Packages \ Elite, Write(p), slips' = {},
         bek \in {None, p},
         \A w \in Writers : op'[w].at # "idle" => op'[w] = op[w]
  PROVE  Fitting'
<1>1. /\ cache' = Fresh(p) /\ cache' # None /\ cache'.v = p /\ cache'.content = p
      /\ run' = Uncached /\ UNCHANGED <<session, bek>> /\ sealed' = None
      /\ disk'.content = p /\ disk'.index = IndexOf(p)
      /\ disk'.meta = [v |-> p, licence |-> TRUE, seal |-> None]
      /\ disk'.meta # None /\ disk'.meta.v = p /\ disk'.meta.seal = None
  <2>1. [v |-> p, licence |-> TRUE, seal |-> None] \in Meta
    BY DEF Meta, Maybe
  <2> QED BY <2>1, Sources, NoneAssumption DEF Write, Fresh
<1>2. /\ \A q \in Readers : Reading(q) => Of(q) = p
      /\ session # None => session.rawKey \in {None, p}
      /\ \A w \in Writers : Writing(w) => op[w].call = "store"
  BY DEF Write, UnderAReader, Of
<1>3. ReadsRely'
  <2> SUFFICES ASSUME NEW q \in Readers, Reading(q)'
               PROVE
      /\ run'[q].key \in {None, Of(q)'}
      /\ run'[q].at = "seal" => Of(q)' \notin Elite
      /\ bek' \in {None, Of(q)'} /\ disk'.meta.v = Of(q)'
      /\ cache' # None /\ cache'.v = Of(q)' /\ disk'.content = Of(q)'
      /\ "cache" \notin run'[q].ties
    BY DEF ReadsRely
  <2>1. /\ run'[q].key = run[q].key /\ run'[q].at = run[q].at /\ Reading(q) /\ Of(q)' = Of(q)
        /\ "cache" \notin run'[q].ties
    BY <1>1, UncachedIs
  <2> QED BY <1>1, <1>2, <2>1 DEF Fitting, ReadsRely
<1>4. SessionHasPackage'
  BY <1>1, <1>2 DEF SessionHasPackage
<1>5. Loadable'
  BY <1>1, NoneAssumption DEF Loadable, IndexOf
<1>6. CachedIsStored'
  BY <1>1, <1>5, NoneAssumption DEF CachedIsStored
<1>7. KeyIsTheFiles'
  BY <1>1 DEF KeyIsTheFiles
<1>8. CallsRely'
  BY <1>1, <1>2 DEF Fitting, CallsRely, Writing
<1> QED BY <1>3, <1>4, <1>6, <1>7, <1>8 DEF Fitting

(* The last part of a deletion or a revocation.                             *)
LEMMA DropFits ==
  ASSUME Inv, slips = {}, Fitting, DropsCaches, slips' = {}, UNCHANGED <<session, bek>>,
         disk'.meta # None => disk.meta # None /\ disk'.meta.v = disk.meta.v
  PROVE  SessionHasPackage' /\ CachedIsStored' /\ ReadsRely'
<1>1. session = None /\ session' = None /\ cache' = None /\ run' = Uncached
  BY DEF DropsCaches, Slips
<1>2. ReadsRely'
  <2> SUFFICES ASSUME NEW q \in Readers, Reading(q)'
               PROVE
      /\ run'[q].key \in {None, Of(q)'}
      /\ run'[q].at = "seal" => Of(q)' \notin Elite
      /\ Of(q)' \notin Elite => bek' \in {None, Of(q)'} /\ (disk'.meta # None => disk'.meta.v = Of(q)')
      /\ ~Mine(q)' /\ "cache" \notin run'[q].ties
    BY DEF ReadsRely
  <2>1. /\ run'[q].at = run[q].at /\ run'[q].key = run[q].key
        /\ Reading(q) /\ Of(q)' = Of(q) /\ (Mine(q)' <=> Mine(q)) /\ "cache" \notin run'[q].ties
    BY <1>1, UncachedIs
  <2>2. ~Mine(q)
    BY <1>1 DEF Inv, Linked
  <2> QED BY <2>1, <2>2 DEF Fitting, ReadsRely
<1> QED BY <1>1, <1>2 DEF SessionHasPackage, CachedIsStored


(* The process dies.                                                        *)
LEMMA DyingFits ==
  ASSUME Inv, Fitting, ~broken, Dies, disk'.meta \in {disk.meta, None},
         ~(bek # None /\ disk'.meta = None)
  PROVE  ~broken' /\ Fitting'
<1>1. /\ cache' = None /\ session' = None /\ sealed' = None /\ bek' = bek /\ broken' = broken
      /\ \A q \in Readers : run'[q] = NoRun
      /\ \A w \in Writers : op'[w] = NoOp
  BY DEF Dies
<1>2. SessionHasPackage' /\ CachedIsStored'
  BY <1>1 DEF SessionHasPackage, CachedIsStored
<1>3. ReadsRely' /\ CallsRely'
  BY <1>1, Blank DEF ReadsRely, CallsRely, Reading, Writing
<1>4. KeyIsTheFiles'
  BY <1>1 DEF Fitting, KeyIsTheFiles
<1> QED BY <1>1, <1>2, <1>3, <1>4 DEF Fitting


LEMMA OpOf ==
  ASSUME Inv, NEW w \in Writers
  PROVE  /\ Returns(w) => \A x \in Writers : op'[x] = IF x = w THEN NoOp ELSE op[x]
         /\ op' = [op EXCEPT ![w].at = "finish"] =>
              /\ \A x \in Writers : x # w => op'[x] = op[x]
              /\ op'[w].at = "finish" /\ op'[w].call = op[w].call /\ op'[w].v = op[w].v
<1>1. op \in [Writers -> Op] /\ op[w] \in Op
  BY DEF Inv, TypeOK
<1>2. op' = [op EXCEPT ![w].at = "finish"] =>
        /\ \A x \in Writers : x # w => op'[x] = op[x]
        /\ op'[w] = [op[w] EXCEPT !.at = "finish"]
  BY <1>1
<1>3. LET o == [op[w] EXCEPT !.at = "finish"]
      IN o.at = "finish" /\ o.call = op[w].call /\ o.v = op[w].v
  BY <1>1 DEF Op
<1> QED BY <1>1, <1>2, <1>3 DEF Returns

LEMMA WriteStepFits ==
  ASSUME Inv, slips = {}, ~broken, Fitting, NEW w \in Writers, WriteStep(w), slips' = {}
  PROVE  ~broken' /\ Fitting'
<1>0. Typed
  BY StoreTyped
<1>o. op \in [Writers -> Op]
  BY DEF Inv, TypeOK
<1>1. ASSUME NEW p \in Packages, StoreStarts(w, p) PROVE ~broken' /\ Fitting'
  <2>1. p \in Packages \ Elite /\ ~Writing(w)
    BY <1>1 DEF StoreStarts
  <2>2. CASE Rotated(p)
    <3>1. /\ UNCHANGED <<cache, session, sealed, disk, bek, run, broken>>
          /\ \A x \in Writers : op'[x] = IF x = w THEN [at |-> "drop", call |-> "store", v |-> p] ELSE op[x]
      BY <1>1, <1>o, <2>2 DEF StoreStarts, CallOf
    <3>2. KeyIsTheFiles'
      BY <2>1, <3>1 DEF Fitting, KeyIsTheFiles, Writing
    <3>3. CallsRely'
      BY <3>1 DEF Fitting, CallsRely, Writing
    <3>4. SessionHasPackage' /\ CachedIsStored' /\ ReadsRely'
      BY <3>1 DEF Fitting, SessionHasPackage, CachedIsStored, Loadable, ReadsRely, Reading, Mine, Of
    <3> QED BY <3>1, <3>2, <3>3, <3>4 DEF Fitting
  <2>3. CASE ~Rotated(p)
    <3>1. Write(p) /\ UNCHANGED op
      BY <1>1, <2>3 DEF StoreStarts
    <3>2. \A x \in Writers : Writing(x) => op[x].call = "store"
      BY <3>1 DEF Write
    <3>3. bek \in {None, p}
      BY <2>3, <3>2 DEF Fitting, KeyIsTheFiles, Rotated, Writing
    <3>4. Fitting'
      BY <2>1, <3>1, <3>3, WriteFits
    <3> QED BY <3>1, <3>4 DEF Write
  <2> QED BY <2>2, <2>3
<1>2. ASSUME NEW p \in Packages, TornFiles(w, p) PROVE ~broken' /\ Fitting'
  <2>1. Dies /\ ~(bek # None /\ disk'.meta = None)
    BY <1>2 DEF TornFiles, Slips
  <2>2. disk'.meta = disk.meta \/ disk'.meta = None
    <3> DEFINE Kept(d) == d.meta = disk.meta \/ d.meta = None
    <3>1. \/ disk' = [disk EXCEPT !.content = None]
          \/ disk' = [disk EXCEPT !.content = None, !.index = None]
          \/ disk' = [disk EXCEPT !.content = p]
          \/ disk' = [disk EXCEPT !.content = p, !.index = IndexOf(p)]
          \/ disk' = [content |-> p, index |-> IndexOf(p), meta |-> None]
      BY <1>2 DEF TornFiles
    <3>2. Kept([disk EXCEPT !.content = None]) /\ Kept([disk EXCEPT !.content = p])
      BY <1>0 DEF Typed, Disk
    <3>3. /\ Kept([disk EXCEPT !.content = None, !.index = None])
          /\ Kept([disk EXCEPT !.content = p, !.index = IndexOf(p)])
      BY <1>0 DEF Typed, Disk
    <3>4. Kept([content |-> p, index |-> IndexOf(p), meta |-> None])
      OBVIOUS
    <3> QED BY <3>1, <3>2, <3>3, <3>4
  <2> QED BY <1>0, <2>1, <2>2, DyingFits
<1>3. CASE DropsKey(w)
  <2>1. /\ op[w].at = "drop" /\ bek' = None /\ UNCHANGED <<cache, session, sealed, disk, run, broken>>
        /\ \A x \in Writers : x # w => op'[x] = op[x]
        /\ op'[w].at = "finish" /\ op'[w].call = op[w].call /\ op'[w].v = op[w].v
    BY <1>3, OpOf DEF DropsKey
  <2>2. KeyIsTheFiles'
    BY <2>1 DEF Fitting, KeyIsTheFiles
  <2>3. CallsRely'
    BY <2>1 DEF Fitting, CallsRely, Writing
  <2>4. ReadsRely'
    BY <2>1 DEF Fitting, ReadsRely, Reading, Mine, Of
  <2>5. SessionHasPackage' /\ CachedIsStored'
    BY <2>1 DEF Fitting, SessionHasPackage, CachedIsStored, Loadable
  <2> QED BY <2>1, <2>2, <2>3, <2>4, <2>5 DEF Fitting
<1>4. CASE DropFails(w)
  <2>1. /\ UNCHANGED <<cache, session, sealed, disk, bek, run, broken>>
        /\ ~(bek # None /\ disk.meta = None)
        /\ \A x \in Writers : op'[x] = IF x = w THEN NoOp ELSE op[x]
    BY <1>4, OpOf DEF DropFails, Slips
  <2>2. KeyIsTheFiles'
    BY <2>1 DEF Fitting, KeyIsTheFiles
  <2>3. CallsRely'
    BY <2>1, Blank DEF Fitting, CallsRely, Writing
  <2>4. ReadsRely'
    BY <2>1 DEF Fitting, ReadsRely, Reading, Mine, Of
  <2>5. SessionHasPackage' /\ CachedIsStored'
    BY <2>1 DEF Fitting, SessionHasPackage, CachedIsStored, Loadable
  <2> QED BY <2>1, <2>2, <2>3, <2>4, <2>5 DEF Fitting
<1>5. CASE StoreEnds(w)
  <2>1. /\ op[w].v \in Packages \ Elite /\ Write(op[w].v) /\ bek \in {None, op[w].v}
        /\ \A x \in Writers : op'[x] = IF x = w THEN NoOp ELSE op[x]
    BY <1>5, OpOf DEF StoreEnds, Inv, Streamed, Writing, Fitting, CallsRely
  <2>2. Fitting'
    BY <2>1, Blank, WriteFits
  <2> QED BY <2>1, <2>2 DEF Write
<1>6. CASE DestroyStarts(w)
  <2>1. /\ CloseEffect /\ disk' = NoFiles /\ UNCHANGED <<sealed, bek, broken>>
        /\ \A x \in Writers : op'[x] = IF x = w THEN [at |-> "drop", call |-> "destroy", v |-> None] ELSE op[x]
    BY <1>6, <1>o DEF DestroyStarts, CallOf
  <2>2. SessionHasPackage' /\ CachedIsStored' /\ ReadsRely'
    BY <2>1, CloseFits
  <2>3. disk'.meta = None
    BY <2>1 DEF NoFiles
  <2>4. KeyIsTheFiles'
    BY <2>1, <2>3 DEF KeyIsTheFiles
  <2>5. CallsRely'
    BY <2>1 DEF Fitting, CallsRely, Writing
  <2> QED BY <2>1, <2>2, <2>4, <2>5 DEF Fitting
<1>7. CASE RevokeStarts(w)
  <2>1. /\ ~Writing(w) /\ CloseEffect /\ UNCHANGED <<sealed, disk, bek, broken>>
        /\ \A x \in Writers : op'[x] = IF x = w THEN [at |-> "drop", call |-> "revoke", v |-> None] ELSE op[x]
    BY <1>7, <1>o DEF RevokeStarts, CallOf
  <2>2. SessionHasPackage' /\ CachedIsStored' /\ ReadsRely'
    BY <2>1, CloseFits
  <2>3. KeyIsTheFiles'
    BY <2>1 DEF Fitting, KeyIsTheFiles, Writing
  <2>4. CallsRely'
    BY <2>1 DEF Fitting, CallsRely, Writing
  <2> QED BY <2>1, <2>2, <2>3, <2>4 DEF Fitting
<1>8. CASE DestroyEnds(w)
  <2>1. /\ op[w].at = "finish" /\ DropsCaches /\ UNCHANGED <<session, disk, bek, broken>>
        /\ \A x \in Writers : op'[x] = IF x = w THEN NoOp ELSE op[x]
    BY <1>8, OpOf DEF DestroyEnds
  <2>2. SessionHasPackage' /\ CachedIsStored' /\ ReadsRely'
    BY <2>1, DropFits
  <2>3. KeyIsTheFiles'
    BY <2>1 DEF Fitting, KeyIsTheFiles
  <2>4. CallsRely'
    BY <2>1, Blank DEF Fitting, CallsRely, Writing
  <2> QED BY <2>1, <2>2, <2>3, <2>4 DEF Fitting
<1>9. CASE RevokeEnds(w)
  <2>1. /\ op[w].at = "finish" /\ DropsCaches /\ UNCHANGED <<session, bek, broken>>
        /\ \A x \in Writers : op'[x] = IF x = w THEN NoOp ELSE op[x]
    BY <1>9, OpOf DEF RevokeEnds
  <2>2. /\ disk.meta = None => disk' = disk
        /\ disk.meta # None => disk'.meta # None /\ disk'.meta.v = disk.meta.v /\ disk'.meta.seal = None
    <3>1. CASE disk.meta = None
      BY <1>9, <3>1 DEF RevokeEnds
    <3>2. CASE disk.meta # None
      <4> DEFINE m == [disk.meta EXCEPT !.licence = FALSE, !.seal = None]
      <4>1. m \in Meta /\ m.v = disk.meta.v /\ m.seal = None
        BY <1>0, <3>2 DEF Typed, Meta, Maybe
      <4>2. disk' = [disk EXCEPT !.meta = m]
        BY <1>9, <3>2 DEF RevokeEnds
      <4>3. disk'.meta = m
        BY <1>0, <4>2 DEF Typed, Disk
      <4>4. m # None
        BY <4>1, NoneAssumption
      <4> QED BY <3>2, <4>1, <4>3, <4>4
    <3> QED BY <3>1, <3>2
  <2>3. SessionHasPackage' /\ CachedIsStored' /\ ReadsRely'
    BY <2>1, <2>2, DropFits
  <2>4. KeyIsTheFiles'
    BY <2>1, <2>2 DEF Fitting, KeyIsTheFiles
  <2>5. CallsRely'
    BY <2>1, <2>2, Blank DEF Fitting, CallsRely, Writing, NoFiles
  <2> QED BY <2>1, <2>3, <2>4, <2>5 DEF Fitting
<1> QED BY <1>1, <1>2, <1>3, <1>4, <1>5, <1>6, <1>7, <1>8, <1>9 DEF WriteStep


-----------------------------------------------------------------------------
LEMMA SlipsStay ==
  ASSUME [Next]_vars, slips' = {} PROVE slips = {}
<1>1. slips \subseteq slips'
  BY DEF Next, ReadStep, WriteStep, vars, Slips, OpenSession, Close, CloseEffect, Restart, StoreElite,
         StartRead, KeyFound, KeyMissing, Unwraps, SavesKey, MakesSeal, Decrypts, Garbled, Denied,
         StoreStarts, Write, TornFiles, DropsKey, DropFails, StoreEnds, DestroyStarts, DestroyEnds,
         RevokeStarts, RevokeEnds, DropsCaches
<1> QED BY <1>1

LEMMA SoundAtFirst == Init => Sound
<1> SUFFICES ASSUME Init PROVE Sound
  OBVIOUS
<1>1. /\ cache = None /\ session = None /\ bek = None /\ disk.meta = None /\ ~broken
      /\ \A r \in Readers : run[r] = NoRun
      /\ \A w \in Writers : op[w] = NoOp
  BY DEF Init, NoFiles
<1> QED BY <1>1, Blank DEF Sound, Fitting, SessionHasPackage, CachedIsStored, KeyIsTheFiles, CallsRely,
           ReadsRely, Reading, Writing

LEMMA SoundStays == Inv /\ Sound /\ [Next]_vars => Sound'
<1> SUFFICES ASSUME Inv, Sound, [Next]_vars, slips' = {} PROVE ~broken' /\ Fitting'
  BY DEF Sound
<1>0. slips = {} /\ ~broken /\ Fitting
  BY SlipsStay DEF Sound
<1>1. CASE OpenSession
  BY <1>0, <1>1, OpenFits DEF OpenSession
<1>2. CASE Close
  <2>1. CloseEffect /\ UNCHANGED <<sealed, disk, bek, op, broken>>
    BY <1>2 DEF Close
  <2>2. SessionHasPackage' /\ CachedIsStored' /\ ReadsRely'
    BY <1>0, <2>1, CloseFits
  <2>3. KeyIsTheFiles' /\ CallsRely'
    BY <1>0, <2>1 DEF Fitting, KeyIsTheFiles, CallsRely, Writing
  <2> QED BY <1>0, <2>1, <2>2, <2>3 DEF Fitting
<1>3. CASE Restart
  <2>1. Dies /\ disk' = disk /\ ~(bek # None /\ disk.meta = None)
    BY <1>3 DEF Restart, Slips
  <2> QED BY <1>0, <2>1, DyingFits
<1>4. ASSUME NEW p \in Packages, StoreElite(p) PROVE ~broken' /\ Fitting'
  BY <1>0, <1>4, StreamFits DEF StoreElite
<1>5. ASSUME NEW r \in Readers, ReadStep(r) PROVE ~broken' /\ Fitting'
  BY <1>0, <1>5, ReadFits
<1>6. ASSUME NEW w \in Writers, WriteStep(w) PROVE ~broken' /\ Fitting'
  BY <1>0, <1>6, WriteStepFits
<1>7. CASE UNCHANGED vars
  BY <1>0, <1>7 DEF vars, Fitting, SessionHasPackage, CachedIsStored, Loadable, KeyIsTheFiles, CallsRely,
                    ReadsRely, Reading, Writing, Mine, Of
<1> QED BY <1>1, <1>2, <1>3, <1>4, <1>5, <1>6, <1>7 DEF Next

(* Until one of the named slips, keychain, seals, files and caches are of   *)
(* one package, through every store, read, close, revocation, deletion,     *)
(* restart and write that is cut short.                                     *)
THEOREM Soundness == Spec => []Sound
<1>1. Init => Sound
  BY SoundAtFirst
<1>2. Inv /\ Sound /\ [Next]_vars => Sound'
  BY SoundStays
<1> QED BY <1>1, <1>2, Invariance, PTL DEF Spec

(* A read of an open session whose files are whole fails as damaged only    *)
(* after one of the named slips.                                            *)
THEOREM ReadsKeepWorking == Spec => []ReadsOnlyBreakAfterASlip
<1>1. Sound => ReadsOnlyBreakAfterASlip
  BY DEF Sound, ReadsOnlyBreakAfterASlip
<1> QED BY <1>1, Soundness, PTL

-----------------------------------------------------------------------------
(* What opening, reading and closing leave readable. *)

LEMMA CloseIsReversible ==
  ASSUME Inv, Fitting, Readable, CloseEffect, UNCHANGED disk
  PROVE  Readable'
<1>1. Typed
  BY StoreTyped
<1>2. cache' = ClosedCache /\ session' = None
  BY DEF CloseEffect
<1>3. session # None => cache # None
  BY DEF Fitting, SessionHasPackage
<1>4. CASE cache # None /\ cache.v \in Elite
  BY <1>2, <1>4 DEF ClosedCache, Fitting, CachedIsStored, Readable
<1>5. CASE cache # None /\ cache.v \notin Elite
  <2>1. Loadable /\ disk.meta.v = cache.v
    BY <1>5 DEF Fitting, CachedIsStored
  <2>2. disk.content = cache.v
    <3>1. cache.v \in Packages
      BY <1>1, <1>5 DEF Typed, Package
    <3> QED BY <1>1, <1>5, <3>1 DEF Fitting, CachedIsStored, Readable, Typed
  <2>3. cache' = None /\ (Loadable' <=> Loadable)
    BY <1>2, <1>5 DEF ClosedCache, Loadable
  <2> QED BY <2>1, <2>2, <2>3 DEF Readable
<1>6. CASE cache = None
  <2>1. session = None /\ Loadable /\ disk.content = disk.meta.v
    BY <1>3, <1>6 DEF Readable
  <2> QED BY <1>2, <1>6, <2>1 DEF ClosedCache, Readable, Loadable
<1> QED BY <1>4, <1>5, <1>6

LEMMA ReadIsReversible ==
  ASSUME Inv, Fitting, Readable, NEW r \in Readers, ReadStep(r)
  PROVE  Readable'
<1>0. Typed
  BY StoreTyped
<1>1. CASE UNCHANGED <<cache, session, disk>>
  BY <1>1 DEF Readable, Loadable
<1>2. CASE Unwraps(r)
  <2>1. Mine(r) => session # None /\ session \in Session /\ Of(r) \in Packages
    BY <1>0, <1>2 DEF Inv, Linked, Typed, Of, Package, Unwraps, Reading
  <2>2. UNCHANGED <<cache, disk>>
    BY <1>2 DEF Unwraps
  <2>3. session' = session \/ (Mine(r) /\ session' = [session EXCEPT !.rawKey = Of(r)])
    BY <1>2 DEF Unwraps, Of
  <2>4. Mine(r) /\ session' = [session EXCEPT !.rawKey = Of(r)] =>
          session' \in Session /\ session'.text = session.text
    BY <2>1 DEF Session, Maybe
  <2>5. session # None => session' # None /\ session'.text = session.text
    BY <2>1, <2>3, <2>4, NoneAssumption
  <2> QED BY <2>2, <2>5 DEF Readable, Loadable
<1>3. CASE MakesSeal(r)
  <2>1. /\ UNCHANGED <<cache, session>>
        /\ disk' = IF disk.meta = None THEN disk
                   ELSE [disk EXCEPT !.meta.seal = [licence |-> run[r].pkg.v, key |-> run[r].key]]
        /\ run[r].key \in Packages /\ run[r].pkg.v \in Packages
    BY <1>3 DEF MakesSeal, Inv, Linked, Reading, Package
  <2>2. /\ disk'.content = disk.content /\ disk'.index = disk.index
        /\ disk.meta # None => disk'.meta # None /\ disk'.meta.v = disk.meta.v
    <3>1. CASE disk.meta = None
      BY <2>1, <3>1
    <3>2. CASE disk.meta # None
      <4> DEFINE seal == [licence |-> run[r].pkg.v, key |-> run[r].key]
      <4> DEFINE m == [disk.meta EXCEPT !.seal = seal]
      <4>1. disk.meta \in Meta /\ seal \in Seal
        BY <1>0, <2>1, <3>2 DEF Typed, Seal
      <4>2. m \in Meta /\ m.v = disk.meta.v
        BY <4>1 DEF Meta, Maybe
      <4>3. disk' = [disk EXCEPT !.meta = m]
        BY <2>1, <3>2
      <4>4. disk'.meta = m /\ disk'.content = disk.content /\ disk'.index = disk.index
        BY <1>0, <4>2, <4>3 DEF Typed, Disk, Maybe
      <4>5. m # None
        BY <4>2, NoneAssumption
      <4> QED BY <4>2, <4>4, <4>5
    <3> QED BY <3>1, <3>2
  <2> QED BY <2>1, <2>2 DEF Readable, Loadable
<1>4. CASE Decrypts(r)
  <2>1. /\ run[r].at = "decrypt" /\ Of(r) \in Packages /\ Of(r) # None /\ Reading(r)
        /\ UNCHANGED disk
    BY <1>0, <1>4 DEF Decrypts, Inv, Linked, Reading, Typed, Package, Of
  <2>2. "cache" \in run[r].ties => Of(r) \in Elite \/ Mine(r)
    BY <2>1 DEF Fitting, ReadsRely
  <2>3. /\ Mine(r) => session \in Session /\ session # None
        /\ ~Mine(r) => session' = session
        /\ Mine(r) /\ run[r].of = "book" => session' = [session EXCEPT !.text = Of(r)]
        /\ Mine(r) /\ run[r].of # "book" => session' = [session EXCEPT !.index = Of(r)]
    BY <1>0, <1>4 DEF Decrypts, Inv, Linked, Typed, Of
  <2>4. Mine(r) => /\ session' \in Session
                   /\ run[r].of = "book" => session'.text = Of(r)
                   /\ run[r].of # "book" => session'.text = session.text
    BY <2>1, <2>3 DEF Session, Maybe
  <2>5. Mine(r) => session' # None
    BY <2>4, NoneAssumption
  <2>6. CASE Mine(r) /\ run[r].of = "book"
    BY <2>1, <2>4, <2>5, <2>6 DEF Readable
  <2>7. CASE ~(Mine(r) /\ run[r].of = "book")
    <3>1. cache' = cache
      BY <1>4, <2>2, <2>7 DEF Decrypts, Of
    <3> QED BY <2>1, <2>3, <2>4, <2>5, <2>7, <3>1 DEF Readable, Loadable
  <2> QED BY <2>6, <2>7
<1> QED BY <1>1, <1>2, <1>3, <1>4 DEF ReadStep, StartRead, KeyFound, KeyMissing, SavesKey, Garbled, Denied

LEMMA DyingCounts == ASSUME Inv, Dies PROVE restarts' # restarts
<1>1. restarts \in Nat /\ restarts' = restarts + 1
  BY MaxRestartsAssumption DEF Inv, TypeOK, Dies
<1> QED BY <1>1

LEMMA StepIsReversible ==
  ASSUME Inv, Sound, [Next]_vars, slips = {}, Readable, op' = op, restarts' = restarts
  PROVE  Readable'
<1>0. Typed /\ Fitting
  BY StoreTyped DEF Sound
<1>1. CASE OpenSession
  <2>1. CASE cache # None /\ UNCHANGED <<cache, disk>>
    BY <1>1, <2>1 DEF Readable, OpenSession
  <2>2. CASE cache = None /\ Loadable /\ cache' = Persisted
    <3>1. cache' # None /\ cache'.v = disk.meta.v /\ cache'.content = disk.content
      BY <1>0, <2>2, Sources, NoneAssumption DEF Typed, Persisted
    <3> QED BY <1>1, <2>2, <3>1 DEF Readable, OpenSession
  <2> QED BY <1>1, <2>1, <2>2 DEF OpenSession
<1>2. CASE Close
  BY <1>0, <1>2, CloseIsReversible DEF Close
<1>3. CASE Restart
  BY <1>3, DyingCounts DEF Restart
<1>4. ASSUME NEW p \in Packages, StoreElite(p) \/ Write(p) PROVE Readable'
  <2>1. cache' = Fresh(p)
    BY <1>4 DEF StoreElite, Write
  <2>2. Fresh(p) # None
    BY Sources, NoneAssumption
  <2>3. Fresh(p).v = p /\ Fresh(p).content = p
    BY DEF Fresh
  <2> QED BY <2>1, <2>2, <2>3 DEF Readable
<1>5. ASSUME NEW r \in Readers, ReadStep(r) PROVE Readable'
  BY <1>0, <1>5, ReadIsReversible
<1>6. ASSUME NEW w \in Writers, WriteStep(w) PROVE Readable'
  <2>1. op \in [Writers -> Op] /\ op[w] \in Op
    BY DEF Inv, TypeOK
  <2>2. ASSUME NEW p \in Packages, StoreStarts(w, p) PROVE Readable'
    <3>1. ~CallOf(w, "drop", "store", p)
      BY <2>1, <2>2 DEF StoreStarts, CallOf, Writing
    <3> QED BY <1>4, <2>2, <3>1 DEF StoreStarts
  <2>3. ASSUME NEW p \in Packages, TornFiles(w, p) PROVE Readable'
    BY <2>3, DyingCounts DEF TornFiles
  <2>4. CASE DropsKey(w)
    BY <2>1, <2>4 DEF DropsKey
  <2>5. CASE DropFails(w) \/ StoreEnds(w) \/ DestroyEnds(w) \/ RevokeEnds(w)
    BY <2>1, <2>5, Blank DEF DropFails, StoreEnds, DestroyEnds, RevokeEnds, Returns
  <2>6. CASE DestroyStarts(w) \/ RevokeStarts(w)
    BY <2>1, <2>6 DEF DestroyStarts, RevokeStarts, CallOf, Writing
  <2> QED BY <1>6, <2>2, <2>3, <2>4, <2>5, <2>6 DEF WriteStep
<1>7. CASE UNCHANGED vars
  BY <1>7 DEF vars, Readable, Loadable
<1> QED BY <1>1, <1>2, <1>3, <1>4, <1>5, <1>6, <1>7 DEF Next

(* A deletion that returns leaves nothing of the book.                      *)
LEMMA DeletionIsTerminal ==
  ASSUME Inv, Sound, [Next]_vars, NEW w \in Writers,
         op[w].call = "destroy", op[w].at = "finish", op'[w].at = "idle",
         restarts' = restarts, slips' = {}
  PROVE  disk' = NoFiles /\ bek' = None /\ cache' = None /\ sealed' = None
<1>1. op \in [Writers -> Op]
  BY DEF Inv, TypeOK
<1>2. disk = NoFiles /\ bek = None
  BY SlipsStay DEF Sound, Fitting, CallsRely, Writing
<1>3. op' # op
  OBVIOUS
<1>4. ASSUME NEW x \in Writers, WriteStep(x) PROVE DestroyEnds(w)
  <2>1. x = w
    <3>1. ASSUME x # w PROVE op'[w] = op[w] \/ Dies
      BY <1>1, <1>4, <3>1 DEF WriteStep, StoreStarts, TornFiles, DropsKey, DropFails, StoreEnds,
         DestroyStarts, DestroyEnds, RevokeStarts, RevokeEnds, CallOf, Returns
    <3>2. ~Dies
      BY DyingCounts
    <3> QED BY <3>1, <3>2
  <2>2. ~Dies
    BY DyingCounts
  <2> QED BY <1>4, <2>1, <2>2 DEF WriteStep, StoreStarts, TornFiles, DropsKey, DropFails, StoreEnds,
             DestroyStarts, RevokeStarts, RevokeEnds, Writing
<1>5. DestroyEnds(w)
  <2>1. ~Restart
    BY DyingCounts DEF Restart
  <2> QED BY <1>3, <1>4, <2>1 DEF Next, vars, OpenSession, Close, StoreElite, ReadStep, StartRead, KeyFound,
             KeyMissing, Unwraps, SavesKey, MakesSeal, Decrypts, Garbled, Denied
<1> QED BY <1>2, <1>5 DEF DestroyEnds, DropsCaches

(* Unless a slip happened, opening, reading and closing take nothing from   *)
(* the reader, and a deletion that returns has left nothing of the book.    *)
THEOREM ReadableUntilItIsDestroyed == Spec => ReadableUntilDestroyed
<1> DEFINE Reversible == slips = {} /\ Readable /\ op' = op /\ restarts' = restarts => Readable'
           Terminal == \A w \in Writers :
             /\ op[w].call = "destroy" /\ op[w].at = "finish" /\ op'[w].at = "idle"
             /\ restarts' = restarts /\ slips' = {}
             => disk' = NoFiles /\ bek' = None /\ cache' = None /\ sealed' = None
<1>1. Inv /\ Sound /\ [Next]_vars => [Reversible]_vars
  BY StepIsReversible
<1>2. Inv /\ Sound /\ [Next]_vars => [Terminal]_vars
  BY DeletionIsTerminal
<1>3. Spec => [][Reversible]_vars /\ [][Terminal]_vars
  BY <1>1, <1>2, Invariance, Soundness, PTL DEF Spec
<1> QED BY <1>3 DEF ReadableUntilDestroyed, ReadingIsReversible, DestroyIsTerminal
=============================================================================
