---------------------------- MODULE BookOpening ----------------------------
(***************************************************************************)
(* Opening one book (openBook.ts) through the licence check                *)
(* (licenseCheck.ts): the server is asked first, the copy on the device is *)
(* used when there is one, a book that is not kept is streamed into        *)
(* memory, and without a network the licence of the kept copy decides,     *)
(* for so many days after the last answer of the server.  Opens overlap    *)
(* one another, a revocation, a deletion of memory by a restart, and the   *)
(* pull that says a download is no longer valid.                           *)
(*                                                                         *)
(* The content store is modelled in detail by ContentStore; here it is one *)
(* book's meta.json, package cache and session.  An `edition` is a version *)
(* of the encrypted file with the key that fits it.                        *)
(***************************************************************************)
EXTENDS Absence, Integers

CONSTANTS
  Attempts,      \* calls of openBook
  Ttl,           \* days a kept copy opens without the server (four in the code)
  MaxDay,        \* bound: days that pass
  MaxEditions,   \* bound: times the server encrypts the file anew
  MaxChanges     \* bound: changes of the server's mind, of the network, of `valid`

ASSUME OpeningAssumption ==
  /\ Ttl \in Nat \ {0}
  /\ MaxDay \in Nat /\ MaxEditions \in Nat /\ MaxChanges \in Nat

VARIABLES
  today,     \* the device's clock, in days
  openAccess,\* session.licenceModel === 'OPEN_ACCESS'
  answer,    \* how the server answers POST /reading-sessions
  reachable, \* the network
  edition,   \* what the server serves now
  valid,     \* is_valid of the downloads row
  meta,      \* meta.json of the kept copy, None when there is none
  cache,     \* packageCache: the package in memory
  session,   \* sessions: the open session
  locking,   \* an invalidateLicence of a content.lock is waiting for deleteBek
  opening,   \* the calls of openBook
  heard,     \* history: the last day the server allowed this book
  changed    \* bound: how often the world has changed

openVars == <<today, openAccess, answer, reachable, edition, valid, meta, cache,
              session, locking, opening, heard, changed>>

Editions == 0 .. MaxEditions

Stages == {"idle", "asking", "deciding", "invalidating", "fetching", "decrypting",
           "opened", "failed"}

NotOpening ==
  [at |-> "idle", offline |-> FALSE, seen |-> 0, key |-> 0, text |-> 0,
   barred |-> "no", age |-> 0]

Package == [kept : BOOLEAN, key : Editions, text : Editions]
Meta == [licence : BOOLEAN, revoked : BOOLEAN, validated : 0 .. MaxDay, edition : Editions]
Opening == [at : Stages, offline : BOOLEAN, seen : 0 .. MaxDay, key : Editions,
            text : Editions, barred : {"no", "row", "copy"}, age : 0 .. MaxDay]

ASSUME NoMetaAssumption == None \notin Meta

BookTypeOK ==
  /\ today \in 0 .. MaxDay
  /\ openAccess \in BOOLEAN /\ reachable \in BOOLEAN /\ valid \in BOOLEAN
  /\ answer \in {"granted", "queued", "refused"}
  /\ edition \in Editions
  /\ meta \in {None} \cup Meta
  /\ cache \in {None} \cup Package
  /\ session \in {None} \cup [key : {None} \cup Editions, plain : BOOLEAN]
  /\ locking \in BOOLEAN
  /\ opening \in [Attempts -> Opening]
  /\ heard \in 0 .. MaxDay
  /\ changed \in 0 .. MaxChanges

BookInit ==
  /\ today = 0 /\ heard = 0 /\ edition = 0 /\ changed = 0
  /\ openAccess \in BOOLEAN
  /\ answer = "granted" /\ reachable = TRUE /\ valid = TRUE
  /\ meta = None /\ cache = None /\ session = None /\ locking = FALSE
  /\ opening = [a \in Attempts |-> NotOpening]

-----------------------------------------------------------------------------
(* The content store, as openBook uses it *)

Kept(m) == [kept |-> TRUE, key |-> m.edition, text |-> m.edition]

\* loadPersisted, through resolvePackage: the package in memory, or the kept one.
Resolved == IF cache # None THEN cache ELSE IF meta # None THEN Kept(meta) ELSE None

\* isAvailableOffline
AvailableOffline == meta # None /\ ~meta.revoked

\* close(): the session goes, with its key; a streamed package stays.
Closed(c) == IF c # None /\ c.kept THEN None ELSE c

Settle(a, place) == opening' = [opening EXCEPT ![a].at = place]

\* openSession and the start of decryptBook for package p: an open session is
\* used as it is, with the plaintext or the raw key it holds.
Decrypting(a, c, p) ==
  /\ cache' = p
  /\ IF session # None /\ session.plain
     THEN /\ opening' = [opening EXCEPT ![a] = [c EXCEPT !.at = "opened"]]
          /\ UNCHANGED session
     ELSE LET key == IF session # None /\ session.key # None THEN session.key ELSE p.key
          IN /\ opening' = [opening EXCEPT ![a] = [c EXCEPT !.at = "decrypting", !.key = key,
                                                      !.text = p.text]]
             /\ session' = [key   |-> IF ~p.kept THEN key
                                      ELSE IF session = None THEN None ELSE session.key,
                            plain |-> FALSE]

\* The kept copy: openSession fails when nothing is stored.
OpenKept(a, c) ==
  IF Resolved = None
  THEN /\ opening' = [opening EXCEPT ![a] = [c EXCEPT !.at = "failed"]]
       /\ UNCHANGED <<cache, session>>
  ELSE Decrypting(a, c, Resolved)

-----------------------------------------------------------------------------
(* openBook and checkLicense *)

\* History: what bars a kept copy under a licence when an open begins.
Barred ==
  IF meta = None \/ ~meta.licence THEN "no"
  ELSE IF meta.revoked THEN "copy" ELSE IF ~valid THEN "row" ELSE "no"

\* generateDeviceKeypair and the request of openReadingSession.
Begin(a) ==
  /\ opening[a].at = "idle"
  /\ opening' = [opening EXCEPT ![a] = [NotOpening EXCEPT !.at = "asking", !.barred = Barred]]
  /\ UNCHANGED <<today, openAccess, answer, reachable, edition, valid, meta, cache,
                 session, locking, heard, changed>>

\* recordLicenceValidation: nothing to record without a meta.json.
Validated == IF meta = None \/ openAccess THEN meta ELSE [meta EXCEPT !.validated = today]

\* The server allows the book, or queues the reader in the same answer.  The
\* validation is recorded for either, and a kept copy is opened for either.
Granted(a) ==
  /\ opening[a].at = "asking" /\ reachable
  /\ answer \in {"granted", "queued"}
  /\ meta' = Validated
  /\ heard' = today
  /\ \/ /\ AvailableOffline
        /\ OpenKept(a, opening[a])
     \/ /\ ~AvailableOffline
        /\ opening' = [opening EXCEPT ![a].at = IF answer = "queued" THEN "failed" ELSE "fetching",
                                ![a].key = edition]
        /\ UNCHANGED <<cache, session>>
  /\ UNCHANGED <<today, openAccess, answer, reachable, edition, valid, locking, changed>>

Denied(a) ==
  /\ opening[a].at = "asking" /\ reachable
  /\ answer = "refused"
  /\ Settle(a, "failed")
  /\ UNCHANGED <<today, openAccess, answer, reachable, edition, valid, meta, cache,
                 session, locking, heard, changed>>

\* offlineFallback: nothing is kept, or what is kept was revoked.
Unusable == meta = None \/ meta.revoked

\* No answer (no network, an abort after twenty seconds, no device key):
\* offlineFallback reads the status of the kept copy, then waits for the row.
Unanswered(a) ==
  /\ opening[a].at = "asking"
  /\ LET c == [opening[a] EXCEPT !.offline = TRUE]
     IN IF Unusable
        THEN /\ opening' = [opening EXCEPT ![a] = [c EXCEPT !.at = "failed"]]
             /\ UNCHANGED <<cache, session>>
        ELSE IF ~meta.licence
        THEN OpenKept(a, c)
        ELSE /\ opening' = [opening EXCEPT ![a] = [c EXCEPT !.at = "deciding",
                                                      !.seen = meta.validated]]
             /\ UNCHANGED <<cache, session>>
  /\ UNCHANGED <<today, openAccess, answer, reachable, edition, valid, meta, locking,
                 heard, changed>>

\* computeOfflineLicenceExpiry, from the validation that was read before.
LapsedNever(a) == FALSE
WindowLapsed(a) == today >= opening[a].seen + Ttl

\* isBookValid answers: an invalid row starts invalidateLicence, whose close()
\* runs at once; else the window since the last validation decides.
Decide(a) ==
  /\ opening[a].at = "deciding"
  /\ IF ~valid
     THEN /\ Settle(a, "invalidating")
          /\ cache' = Closed(cache)
          /\ session' = None
     ELSE IF WindowLapsed(a)
     THEN /\ Settle(a, "failed")
          /\ UNCHANGED <<cache, session>>
     ELSE OpenKept(a, [opening[a] EXCEPT !.age = IF today >= heard THEN today - heard ELSE 0])
  /\ UNCHANGED <<today, openAccess, answer, reachable, edition, valid, meta, locking,
                 heard, changed>>

\* The rest of invalidateLicence, after deleteBek: the licence goes, the
\* encrypted file and its descriptor stay.
Stripped ==
  /\ meta' = IF meta # None /\ meta.licence THEN [meta EXCEPT !.revoked = TRUE] ELSE meta
  /\ cache' = IF meta = None \/ meta.licence THEN None ELSE cache

Invalidated(a) ==
  /\ opening[a].at = "invalidating"
  /\ Stripped
  /\ Settle(a, "failed")
  /\ UNCHANGED <<today, openAccess, answer, reachable, edition, valid, session, locking,
                 heard, changed>>

\* The whole file has been streamed: it is stored as a package that may not be
\* kept, with the key of the answer, and opened.
Streamed(a) ==
  /\ opening[a].at = "fetching" /\ reachable
  /\ Decrypting(a, opening[a], [kept |-> FALSE, key |-> opening[a].key, text |-> edition])
  /\ UNCHANGED <<today, openAccess, answer, reachable, edition, valid, meta, locking,
                 heard, changed>>

\* discardPartialDownload and the error.
StreamFails(a) ==
  /\ opening[a].at = "fetching"
  /\ Settle(a, "failed")
  /\ UNCHANGED <<today, openAccess, answer, reachable, edition, valid, meta, cache,
                 session, locking, heard, changed>>

\* The decryption ends: the plaintext is its caller's even when the session was
\* closed meanwhile.  A file that does not fit its key fails its integrity check.
Decrypted(a) ==
  /\ opening[a].at = "decrypting"
  /\ LET whole == opening[a].key = opening[a].text
     IN /\ Settle(a, IF whole THEN "opened" ELSE "failed")
        /\ session' = IF whole /\ session # None THEN [session EXCEPT !.plain = TRUE]
                      ELSE session
  /\ UNCHANGED <<today, openAccess, answer, reachable, edition, valid, meta, cache,
                 locking, heard, changed>>

\* The screen shows the error, or the reader that was opened is left: closeBook.
Again(a) ==
  /\ opening[a].at \in {"opened", "failed"}
  /\ opening' = [opening EXCEPT ![a] = NotOpening]
  /\ IF opening[a].at = "opened"
     THEN session' = None /\ cache' = Closed(cache)
     ELSE UNCHANGED <<session, cache>>
  /\ UNCHANGED <<today, openAccess, answer, reachable, edition, valid, meta, locking,
                 heard, changed>>

-----------------------------------------------------------------------------
(* The rest of the program, and the world *)

\* downloadBook stores the book: a download is a validation, and its row is valid.
Download ==
  /\ reachable /\ answer = "granted"
  /\ meta' = [licence |-> ~openAccess, revoked |-> FALSE, validated |-> today,
              edition |-> edition]
  /\ cache' = Kept(meta')
  /\ valid' = TRUE
  /\ heard' = today
  /\ opening' = [a \in Attempts |-> [opening[a] EXCEPT !.barred = "no"]]
  /\ UNCHANGED <<today, openAccess, answer, reachable, edition, session, locking, changed>>

\* readingAccessMonitor's ruling: content.lock, 'revoked'.  close() runs at once.
LockBegins ==
  /\ reachable /\ answer = "refused" /\ ~locking
  /\ session # None
  /\ locking' = TRUE
  /\ session' = None
  /\ cache' = Closed(cache)
  /\ UNCHANGED <<today, openAccess, answer, reachable, edition, valid, meta, opening, heard,
                 changed>>

LockEnds ==
  /\ locking
  /\ locking' = FALSE
  /\ Stripped
  /\ UNCHANGED <<today, openAccess, answer, reachable, edition, valid, session, opening,
                 heard, changed>>

\* pull() writes the server's is_valid into the row.
PullLicence ==
  /\ reachable /\ changed < MaxChanges
  /\ valid' = ~valid
  /\ changed' = changed + 1
  /\ opening' = [a \in Attempts |->
               [opening[a] EXCEPT !.barred = IF @ = "row" /\ valid' THEN "no" ELSE @]]
  /\ UNCHANGED <<today, openAccess, answer, reachable, edition, meta, cache, session,
                 locking, heard>>

Restart ==
  /\ changed < MaxChanges
  /\ changed' = changed + 1
  /\ cache' = None /\ session' = None /\ locking' = FALSE
  /\ opening' = [a \in Attempts |-> NotOpening]
  /\ UNCHANGED <<today, openAccess, answer, reachable, edition, valid, meta, heard>>

Tomorrow ==
  /\ today < MaxDay
  /\ today' = today + 1
  /\ UNCHANGED <<openAccess, answer, reachable, edition, valid, meta, cache, session,
                 locking, opening, heard, changed>>

ServerDecides ==
  /\ changed < MaxChanges
  /\ changed' = changed + 1
  /\ answer' \in {"granted", "queued", "refused"} \ {answer}
  /\ UNCHANGED <<today, openAccess, reachable, edition, valid, meta, cache, session,
                 locking, opening, heard>>

Encrypt ==
  /\ edition < MaxEditions
  /\ edition' = edition + 1
  /\ UNCHANGED <<today, openAccess, answer, reachable, valid, meta, cache, session,
                 locking, opening, heard, changed>>

Network ==
  /\ changed < MaxChanges
  /\ changed' = changed + 1
  /\ reachable' = ~reachable
  /\ UNCHANGED <<today, openAccess, answer, edition, valid, meta, cache, session, locking,
                 opening, heard>>

CallStep(a) ==
  \/ Begin(a) \/ Granted(a) \/ Denied(a) \/ Unanswered(a) \/ Decide(a) \/ Invalidated(a)
  \/ Streamed(a) \/ StreamFails(a) \/ Decrypted(a) \/ Again(a)

BookNext ==
  \/ \E a \in Attempts : CallStep(a)
  \/ Download \/ LockBegins \/ LockEnds \/ PullLicence \/ Restart
  \/ Tomorrow \/ ServerDecides \/ Encrypt \/ Network

BookSpec == BookInit /\ [][BookNext]_openVars

-----------------------------------------------------------------------------
(* Properties *)

\* A book under a licence that was opened without the server was opened within
\* Ttl days of the last time the server allowed it, whatever failed opens,
\* revocations, downloads and restarts there were in between
\* (computeOfflineLicenceExpiry, recordLicenceValidation).
OfflineIsFresh ==
  \A a \in Attempts :
    (opening[a].at = "opened" /\ opening[a].offline /\ ~openAccess) => opening[a].age < Ttl

\* An open that began after the book was revoked, by a lock or by a pull, gives
\* the book only when the server itself allows it in that open: never from what
\* is left on the device (offlineFallback, isAvailableOffline).
RevokedNeedsTheServer ==
  \A a \in Attempts :
    (opening[a].barred # "no" /\ opening[a].offline) => opening[a].at # "opened"

\* What opens a book without the server is a licence that is fresh and was not
\* revoked since (checkLicense).
OfflineIsAllowed == OfflineIsFresh /\ RevokedNeedsTheServer
=============================================================================
