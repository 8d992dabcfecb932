--------------------------- MODULE ReaderSession ---------------------------
(***************************************************************************)
(* Reading one book, from the screen's mount to its close: ReaderScreen.tsx *)
(* over readerAssets.ts (the byte path), readingAccessMonitor.ts (the       *)
(* periodic re-check), useContentLock.ts (the push) and the content         *)
(* session of contentProvider.ts.  A book whose access ends must be shut,   *)
(* whichever of the two says so first, and a book that is left must leave   *)
(* neither plaintext nor a timer behind.                                    *)
(*                                                                          *)
(* A screen is one mount of ReaderScreen: "Resume from there" unmounts one  *)
(* and mounts the next for the same book.                                   *)
(***************************************************************************)
EXTENDS Naturals, FiniteSets, Absence

CONSTANTS
  Screens,        \* mounts of ReaderScreen for this book
  MaxFlips,       \* background and foreground changes (bound)
  MaxOutages,     \* changes of the connection (bound)
  MaxRulings      \* changes of the server's answer (bound)

ASSUME ReaderBoundsAssumption == {MaxFlips, MaxOutages, MaxRulings} \subseteq Nat

VARIABLES
  screen,     \* screen -> its state
  monitor,    \* screen -> the monitor it started
  text,       \* the content session of the book: what is in memory
  rights,     \* "valid", or "void" once content.lock has stripped the copy
  device,     \* [front, online]: the app in the foreground, flambeau reachable
  access,     \* what flambeau answers to a reading session of this book
  changes,    \* how often each part of the environment changed (bound)
  leaks       \* history: screens that were left while their open ran

readerVars == <<screen, monitor, text, rights, device, access, changes, leaks>>

(* `open` is handleReady()'s async body; `marks` are lockedRef, the WebView *)
(* holding the book, the open timeout, the WebView's `ready`, and onLocked. *)
Screen == [at : {"none", "preparing", "shell", "failed", "gone"},
           open : {"idle", "appearance", "verify", "decrypt"},
           marks : SUBSET {"ready", "late", "holds", "locked"},
           told : 0..2]
Monitor == [at : {"none", "armed", "paused", "stopped"}, tick : {"idle", "asking"}]
NoScreen == [at |-> "none", open |-> "idle", marks |-> {}, told |-> 0]
NoMonitor == [at |-> "none", tick |-> "idle"]

ReaderTypeOK ==
  /\ screen \in [Screens -> Screen]
  /\ monitor \in [Screens -> Monitor]
  /\ text \in {"closed", "open", "decrypted"}
  /\ rights \in {"valid", "void"}
  /\ device \in [front : BOOLEAN, online : BOOLEAN]
  /\ access \in {"granted", "refused"}
  /\ changes \in [flips : 0..MaxFlips, outages : 0..MaxOutages, rulings : 0..MaxRulings]
  /\ leaks \subseteq Screens

ReaderInit ==
  /\ screen = [s \in Screens |-> NoScreen]
  /\ monitor = [s \in Screens |-> NoMonitor]
  /\ text = "closed"
  /\ rights = "valid"
  /\ device = [front |-> TRUE, online |-> TRUE]
  /\ access = "granted"
  /\ changes = [flips |-> 0, outages |-> 0, rulings |-> 0]
  /\ leaks = {}

Mounted(s) == screen[s].at \in {"preparing", "shell", "failed"}
Locked(s) == "locked" \in screen[s].marks
HoldsBook(s) == "holds" \in screen[s].marks
Environment == <<rights, device, access, changes>>

(* openSession(): a session, unless there is one.                           *)
Opened == IF text = "closed" THEN "open" ELSE text

(* AccessMonitorHandle.stop(): the timer is cleared, an answer under way is *)
(* ignored.                                                                 *)
Stopped(m) == [m EXCEPT !.at = IF @ = "none" THEN @ ELSE "stopped"]

-----------------------------------------------------------------------------
(* Opening *)

(* The mount: prepareBook() opens the content session to read the format.   *)
ReaderMounts(s) ==
  /\ screen[s].at = "none"
  /\ \A t \in Screens : ~Mounted(t)
  /\ screen' = [screen EXCEPT ![s].at = "preparing"]
  /\ text' = Opened
  /\ UNCHANGED <<monitor, Environment, leaks>>

(* The format and the shell's uri: kept unless the screen was left or       *)
(* locked meanwhile.  A format without a renderer, or a missing asset,      *)
(* raises an error.                                                         *)
Prepared(s) ==
  /\ screen[s].at = "preparing"
  /\ ~Locked(s)
  /\ \E at \in {"shell", "failed"} : screen' = [screen EXCEPT ![s].at = at]
  /\ UNCHANGED <<monitor, text, Environment, leaks>>

(* `ready`: handleReady() takes the sender and resolves the appearance.     *)
WebViewReady(s) ==
  /\ screen[s].at = "shell" /\ "ready" \notin screen[s].marks
  /\ screen' = [screen EXCEPT ![s].open = "appearance", ![s].marks = @ \union {"ready"}]
  /\ UNCHANGED <<monitor, text, Environment, leaks>>

(* applyAppearanceWith() is done: lockedRef is read again, and the byte     *)
(* path asks flambeau for a reading session first.                          *)
AppearanceApplied(s) ==
  /\ screen[s].open = "appearance"
  /\ screen' = [screen EXCEPT ![s].open = IF Locked(s) THEN "idle" ELSE "verify"]
  /\ UNCHANGED <<monitor, text, Environment, leaks>>

(* verifyReadingAccess(): a refusal fails the open; an answer that cannot   *)
(* be had lets it go on.  getBook() then opens the session and decrypts.    *)
Refused == device.online /\ access = "refused"
AccessVerified(s) ==
  /\ screen[s].open = "verify"
  /\ IF Refused
     THEN screen' = [screen EXCEPT ![s].open = "idle"] /\ text' = text
     ELSE screen' = [screen EXCEPT ![s].open = "decrypt"] /\ text' = Opened
  /\ UNCHANGED <<monitor, Environment, leaks>>

(* startAccessMonitor(), which replaces the one of an earlier `ready`.      *)
Watch(s) == monitor' = [monitor EXCEPT ![s] = [at |-> "armed", tick |-> "idle"]]

(* Mutant: the lock is not looked at again once the bytes are there.        *)
MayOpenAnyway(s) == "late" \notin screen[s].marks

(* After the await: neither locked meanwhile nor given up on.               *)
MayOpen(s) == "late" \notin screen[s].marks /\ ~Locked(s)

(* The bytes arrive.  The decryption belongs to the session it began in:    *)
(* one that was closed meanwhile takes its buffer with it.                  *)
BytesArrive(s) ==
  /\ screen[s].open = "decrypt"
  /\ text' = IF text = "open" THEN "decrypted" ELSE text
  /\ IF MayOpen(s)
     THEN /\ screen' = [screen EXCEPT ![s].open = "idle",
                                      ![s].marks = IF Mounted(s) THEN @ \union {"holds"} ELSE @]
          /\ Watch(s)
     ELSE /\ screen' = [screen EXCEPT ![s].open = "idle"]
          /\ monitor' = monitor
  /\ UNCHANGED <<Environment, leaks>>

(* The decryption fails: a licence that is void, a key that is gone.        *)
BytesFail(s) ==
  /\ screen[s].open = "decrypt"
  /\ screen' = [screen EXCEPT ![s].open = "idle"]
  /\ UNCHANGED <<monitor, text, Environment, leaks>>

(* withOpenTimeout(): the screen gives up; the work goes on unattended.     *)
OpenTimesOut(s) ==
  /\ screen[s].open \in {"verify", "decrypt"}
  /\ "late" \notin screen[s].marks
  /\ screen' = [screen EXCEPT ![s].marks = @ \union {"late"}]
  /\ UNCHANGED <<monitor, text, Environment, leaks>>

-----------------------------------------------------------------------------
(* Shutting *)

(* tearDownAndLock(): the WebView is unmounted, and onLocked is called once. *)
TearDown(s) ==
  [screen[s] EXCEPT !.marks = (@ \union {"locked"}) \ {"holds"},
                    !.told = IF Locked(s) THEN @ ELSE @ + 1]

(* content.lock on the bus: contentStore.ts closes the session and strips   *)
(* the rights, then the mounted screen is torn down, in one emit().         *)
ContentLock ==
  /\ rights = "valid"
  /\ rights' = "void"
  /\ text' = "closed"
  /\ screen' = [s \in Screens |-> IF Mounted(s) THEN TearDown(s) ELSE screen[s]]
  /\ monitor' = [s \in Screens |-> IF Mounted(s) THEN Stopped(monitor[s]) ELSE monitor[s]]
  /\ UNCHANGED <<device, access, changes, leaks>>

MonitorFires(s) ==
  /\ monitor[s].at = "armed" /\ monitor[s].tick = "idle"
  /\ monitor' = [monitor EXCEPT ![s].tick = "asking"]
  /\ UNCHANGED <<screen, text, Environment, leaks>>

(* The re-check's answer.  Only a refusal acts, and only on a monitor that  *)
(* was not stopped while it was under way: pause() does not count as that.  *)
MonitorHears(s) ==
  /\ monitor[s].tick = "asking"
  /\ IF Refused /\ monitor[s].at # "stopped"
     THEN /\ monitor' = [monitor EXCEPT ![s] = [at |-> "stopped", tick |-> "idle"]]
          /\ screen' = [screen EXCEPT ![s] = TearDown(s)]
          /\ text' = "closed"
     ELSE /\ monitor' = [monitor EXCEPT ![s].tick = "idle"]
          /\ UNCHANGED <<screen, text>>
  /\ UNCHANGED <<Environment, leaks>>

LeftMonitor(s) == Stopped(monitor[s])

(* The unmount: the monitor stops, the book is closed.  Nothing tells       *)
(* handleReady() of it.                                                     *)
ReaderUnmounts(s) ==
  /\ Mounted(s)
  /\ screen' = [screen EXCEPT ![s].at = "gone", ![s].marks = @ \ {"holds"}]
  /\ monitor' = [monitor EXCEPT ![s] = LeftMonitor(s)]
  /\ text' = "closed"
  /\ leaks' = leaks \union {t \in {s} : screen[s].open # "idle"}
  /\ UNCHANGED Environment

-----------------------------------------------------------------------------
(* The device and the server *)

(* Mutant: coming back does not start the timer again.                      *)
NeverResumed(m) == m

Resumed(m) == IF m.at = "paused" THEN [m EXCEPT !.at = "armed"] ELSE m
Paused(m) == IF m.at = "armed" THEN [m EXCEPT !.at = "paused"] ELSE m

(* The AppState listener of the mounted screen, whose accessMonitorRef is   *)
(* null once it is locked.                                                  *)
AppStateChanges ==
  /\ changes.flips < MaxFlips
  /\ changes' = [changes EXCEPT !.flips = @ + 1]
  /\ device' = [device EXCEPT !.front = ~@]
  /\ monitor' = [s \in Screens |-> IF ~Mounted(s) THEN monitor[s]
                                   ELSE IF device.front THEN Paused(monitor[s])
                                   ELSE Resumed(monitor[s])]
  /\ UNCHANGED <<screen, text, rights, access, leaks>>

ConnectionChanges ==
  /\ changes.outages < MaxOutages
  /\ changes' = [changes EXCEPT !.outages = @ + 1]
  /\ device' = [device EXCEPT !.online = ~@]
  /\ UNCHANGED <<screen, monitor, text, rights, access, leaks>>

(* The licence ends, or is granted again; the reader's devices come and go  *)
(* under DEVICE_LIMIT_REACHED.                                              *)
RulingChanges ==
  /\ changes.rulings < MaxRulings
  /\ changes' = [changes EXCEPT !.rulings = @ + 1]
  /\ access' = IF access = "granted" THEN "refused" ELSE "granted"
  /\ UNCHANGED <<screen, monitor, text, rights, device, leaks>>

OpeningStep(s) ==
  \/ Prepared(s) \/ WebViewReady(s) \/ AppearanceApplied(s)
  \/ AccessVerified(s) \/ BytesArrive(s) \/ BytesFail(s) \/ OpenTimesOut(s)

ReaderNext ==
  \/ \E s \in Screens : ReaderMounts(s) \/ ReaderUnmounts(s) \/ OpeningStep(s)
  \/ \E s \in Screens : MonitorFires(s) \/ MonitorHears(s)
  \/ ContentLock \/ AppStateChanges \/ ConnectionChanges \/ RulingChanges

(* A timer that is not cleared fires, a request is answered or aborted      *)
(* (readingSessionClient.ts bounds it), and an await goes on.               *)
ReaderFairness ==
  \A s \in Screens :
    /\ WF_readerVars(MonitorFires(s))
    /\ WF_readerVars(MonitorHears(s))
    /\ WF_readerVars(AppearanceApplied(s))
    /\ WF_readerVars(AccessVerified(s))
    /\ WF_readerVars(BytesArrive(s))

ReaderSpec == ReaderInit /\ [][ReaderNext]_readerVars /\ ReaderFairness

-----------------------------------------------------------------------------
(* Properties *)

(* A book whose access ended is out of the WebView, and stays out, however  *)
(* the lock and the byte path interleave; and the reader is told once, by   *)
(* whichever of the bus and the monitor came first.                         *)
LockedStaysShut ==
  \A s \in Screens : Locked(s) => ~HoldsBook(s) /\ screen[s].told = 1

(* While a book is on screen in the foreground, its access is being         *)
(* re-checked: no order of background, foreground and opening stops it.  A  *)
(* book that is left is out of memory, and its monitor is stopped; unless   *)
(* it was left while it was being opened.                                   *)
MonitorFollowsBook ==
  \A s \in Screens :
    /\ HoldsBook(s) /\ device.front => monitor[s].at = "armed"
    /\ screen[s].at = "gone" /\ leaks = {} =>
         /\ monitor[s].at \in {"none", "stopped"}
         /\ (\A t \in Screens : ~Mounted(t)) => text = "closed"

(* ReaderScreen.tsx:1399: closeBook() runs when the reader closes, "or the  *)
(* whole decrypted book stays in RAM indefinitely".                         *)
LeftIsForgotten ==
  (\A s \in Screens : ~Mounted(s) /\ screen[s].open = "idle") => text = "closed"

(* Access that has ended for good, with the reader at it and flambeau       *)
(* reachable, ends the reading: the fail-open answers of an outage do not   *)
(* keep the book open.                                                      *)
RefusalShutsBook ==
  <>[](access = "refused" /\ device.online /\ device.front)
    => <>[](\A s \in Screens : ~HoldsBook(s))
=============================================================================
