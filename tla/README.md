# A TLA+ development of the TF Reader

The repository is a mobile reader (React Native, TypeScript, under `src/src/`) for books and
journals that a library licenses to its members. It signs readers in through their institution,
downloads encrypted books, keeps them readable offline, opens, reads aloud and plays them, and keeps
bookmarks, highlights, progress, preferences and download records in step with a server. This
directory models the parts of it whose correctness depends on the order in which things happen,
checks them with TLC, and proves the central facts about them with TLAPS for every number of edits,
callers, packages, screens and restarts.

Contents: [inventory](#1-inventory), [modules](#2-modules-and-the-code), [runs](#3-runs),
[proofs](#4-proofs), [limits](#5-what-is-only-checked-and-what-is-not-modelled),
[findings](#6-findings), [plan](#7-what-is-left).

## 1. Inventory

All of it runs on one JavaScript thread. Concurrency is therefore the interleaving of promise
continuations, timers and events: between an `await` and its continuation any other callback may
run, and whatever was read before the `await` may be old. SQLite writes go through one promise
queue (`withWriteLock`), and not all of them do. The web view, the speech engine, the audio player
and the speech recogniser are outside the thread, and their messages come late. Everything in memory
is gone when the operating system ends the process.

| Component | State | Operations | What makes it correct | Module |
|---|---|---|---|---|
| Sync scheduling: `syncEngine.run`, `syncTrigger`, `useAutoSync`, `useConnectivity` | `inFlight`, `queuedRun`, the debounce timer, the last connectivity and AppState seen | `run`, `requestSync`, three edges, a button | one execution at a time; callers are answered; a queued edit is attempted | SyncScheduler |
| Sync engine: `syncEngine.push/pull/pullBook`, `syncableTable`, `outboxStore`, the stores | SQLite rows with `synced`, `updated_at`, `server_updated_at`; the outbox | local create, update, delete; push with conflict and collision handling; pull | no edit shown but unqueued; device and server agree after a quiet run; one record for one thing | SyncEngine |
| Preferences: `sharedPrefs`, `prefsStore`, field merge in `syncableTable` | one row with a stamp for each field | save, merge, push, pull | edits of different fields all survive | Preferences |
| Session: `tokenRefresh`, `sessionStore`, `secureStorage`, `ApiAuthClient`, the sign-ins | access token and identity in memory, refresh token in secure storage, `inFlightRefresh`, `_authReady` | `ensureFreshToken`, `bootstrapAuth`, two sign-ins, sign-out, a 401 | one refresh at a time; no token presented twice; tokens are those of the user named; signing out sticks | TokenSession |
| Content store: `contentStore`, `contentProvider`, `keyStorage`, `licenceSeal` | `packageCache`, `sessions`, `licenceSealCache`, three files and a keychain item for a book | `store`, `openSession`, `decryptBook`, `decryptSearchIndex`, `close`, `destroy`, `invalidateLicence` | key, seal and ciphertext belong together; streamed books leave nothing; deletion is terminal; reading is reversible | ContentStore |
| Downloads: `downloadManager`, the shelf's deletions, `clearAllDownloads` | content, `downloads` rows, the shelf's list | download with a limit of five, its recheck and rollbacks, delete, clear | limit kept; rows and content agree; other writers get the lock | Downloads |
| Transfer: `chunkedAssetFetcher` | partial file, manifest | fetch, resume, discard | what is returned is the asset | ChunkedFetch |
| Opening: `openBook`, `licenseCheck` | `meta.json`, the package in memory, the row's `isValid` | open online and offline, revocation, pull | no open without a licence that is fresh and was not revoked | BookOpening |
| Reading session: `ReaderScreen`, `readerAssets`, `readingAccessMonitor`, `useContentLock` | the screen, the monitor's timer, the content session | open, lock, background, leave | a book whose access ended is shut; a book that is left is forgotten | ReaderSession |
| Place in the book: web view bridge, `ReaderRouteScreen`, `progressStore` | `initialTargetRef`, `lastPositionRef`, the throttle, the row | open, turn, seek, save, ask, resume | the saved place is the reader's and the last one | ReadingPlace |
| PDF pages: `pdf.entry.ts` | wrappers, canvases, tokens, the sheet of the paged view | build, render, dispose, turn, change of mode, resize, zoom | the page in view is drawn with its own surface, few pages are resident | PdfScroll |
| EPUB page: `epub.entry.ts` | epub.js's store of marks, the layers wanted, its displays, the frame asked for, `renditionTransitionGeneration` | paint highlights, match, sentence, word; rebuild, reanchor, resize, scroll | what is painted over the chapters on screen is what is wanted, once each | EpubPage |
| Audio: queue store, coordinator, player, resolver, reclaimer, player screen | queue, player, scratch files, saved positions | skip, edit, finish, mount, lock, sweep | heard is the queue's item, its position is its own, a locked book is silent | AudioQueue |
| Text to speech: `useTtsSession`, the text provider, `audioTtsCoordinator` | session, engine, prefetch | speak, pause, stop, turn, audio player | the voice is the session's | SpeechSession |
| Sleep timer: engine, store, notification, coordinator | phase, timer, scheduled id | start, cancel, expire, switch speech | a timer acts on its own notification and pause | SleepTimer |
| Offers: `offerPolling`, `offerStore`, `offerLapse`, `queueRequest`, `libraryStore`, the item page | the cursor, the slot, the library | request, accept, refuse, lapse, poll | a promoted offer is looked up; it is shown or found another live one in the slot; it stays until it lapses, is answered, or another answer clears it (the last is a finding) | Offers |
| Catalogue search, voice search, search in a book | reducers and the requests they issued | type, filter, page, retry; speak; find | late answers of an older request change nothing; the microphone follows the session; hits are the occurrences | CatalogueSearch, VoiceSearch, BookSearch |
| Event bus | handlers | on, emit | a synchronous loop: part of the step of whoever emits | - |
| Catalogue adapters, access decision table, screens | view state | requests and rendering | no order of events changes what they return | - |
| Backend | documents, tokens, licences | HTTP | external | in its clients' modules |

How they interact: a local write saves a row and an outbox operation in one transaction and arms
the debounce timer; the timer calls `run`; `run` pushes and pulls; every request of the sync client
asks `ensureFreshToken` for a token first and clears the session on a 401; a pulled download
record whose `isValid` changed emits a lock signal, on which the content store revokes the key, the
reader closes the book and the audio player drops it; a download fetches through
`chunkedAssetFetcher`, calls `contentStore.store` and then writes a download row; the reader opens
through `openBook` and saves places through the outbox; an audiobook and a voice stop each other.

The hazards, each at its line, are in `PROJECT.json`. They are of six sorts: a read before an
`await` and a write after it (`applyServerRecord`, `adoptPushResult`, `rename`, `savePrefs`, the BEK
that a decryption saves late); a lost reply and the retry of what the server has already done (a
CREATE, a refresh); single-flight mechanisms on which everything else relies (`inFlight`,
`inFlightRefresh`, and `pending` of a session); the process dying between two writes that belong
together (row and operation, files and key, content and row, session and refresh token); answers and
events that come after what they are about is over (searches, recogniser, speech engine, monitor,
renders); and long legal sequences (rotation, revocation, renewal, deletion) that meet in one item.

## 2. Modules and the code

Every definition's source lines are listed under `map` in `PROJECT.json`. One action is one stretch
of code between two awaits (or one callback), with everything it changes. Names that start with
`Max` are bounds, which occur in guards only. `Absence` holds the one constant `None` (`null`) of
the modules that are checked together.

A state machine of each module (`PdfNext`, `SpeechNext`, ...) has variables of its own. MC modules
put several into one run: their variable `machine` is chosen initially and says which of them the
behaviour is of, and the others keep their initial state. A state of such a run is thus a state of
one machine, and the run's state count is the sum, not the product, of theirs. Beside this choice they hold
symmetry sets, conjunctions of type invariants, constants too long for a configuration, and bounds: state
constraints, or bounds on a step that are conjuncts of it (`OnePoll`, `OneTitle`, `FewDisturbances`,
`FewPdfSteps`), all named in [Runs](#3-runs).

Several properties have exceptions, which the modules call slips, overlaps or clashes: a history
variable that records one of a few named sequences of events after which the code really goes wrong.
The property says that nothing else does. Where a comment of the repository promises that the sequence
itself does no harm, that is stated as a property of its own, refuted, and among the
[findings](#6-findings). Nothing in the repository speaks of the others, and what they cost is told here:

* TokenSession, `lost`: the reply to a refresh, or the write of its token, was lost. The server has
  burned the old token and the next refresh is refused.
* TokenSession, `mixed`: a refresh overlapped a sign-in to another account, and one's token is
  stored under the other's name.
* ContentStore, reopened: a session opened between the halves of a deletion outlives its package.
* Downloads, `orphan` by a death, by another device's deletion or by `clearAllDownloads()` beside a
  download: content that no row counts, until the book is downloaded or deleted again.
* Downloads, `doubled`: two rows of one book, this device's and one that was pulled, until a push unifies them.
* ChunkedFetch, `two fetches` and `replaced`: bytes of two versions in one file, which decryption refuses.
* AudioQueue, `failed`: a move that fails leaves the queue at a track that is not heard. `adrift`, where
  the screen leaves before its player is there, leaves the earlier track playing.
* ReadingPlace: more resizes than resends while a place is being verified let the front page be saved.

### SyncScheduler

`chain[c].stage` is the next continuation of one promise that `run()` returned: `listing`,
`draining` and `pulling` are inside `execute()`; `ranFinally`, `counting`, `joined` and `emitting`
are the `.finally` and `.then` handlers after it, in their order. `inFlight`, `queuedRun` and
`timer` are the variables of the same names. `hookOnline` is what `useConnectivity` last reported,
which may lag `deviceOnline`. One outbox operation is an element of `Edits` that is sent or not:
how, is the matter of SyncEngine. The number of chains not yet settled is bounded by `Chains`.
`SaveLocal` arms the timer, `TimerFires`, `SyncPressed`, `ConnectivityReported` and
`AppStateChanged` are the four ways to ask for a run, `Restart` loses all but the outbox.

What the callers of `run()` are promised is the abstract specification SingleFlight: one caller does
the work, those who come meanwhile wait for its flight, nobody sets out before it has landed.
`SharesOneRun` says that SyncScheduler implements it, with `inFlight` as the flight and a role read
off each chain's stage.

### SyncEngine

One (user, book) collection: reading progress (one derived id), bookmarks (random ids of one
locator), or downloads (random ids of one scope). `row`, `doc` and `outbox` are functions of the
record id; a content is the number of the edit it reflects, and a stamp is a number, given by the
device's clock (`Skew` off) or the server's. A local write is three actions (the store's own read,
the read under the write lock, the transaction), `applyServerRecord` and `adoptPushResult` are two
(SELECT, upsert), and each request is one. `run.at` names the `await` at which the run under way
stands, `run.todo` is the batch it listed, and `run.then` what follows a judgement. All the catch
branches of `push` are there: conflict, LocatorCollision, the two restore collisions, refusals that
park an operation, failures that end the run. `book` is `pullBook`, which shares nothing with the
run but the tables. `NetworkFails` is a request that fails before or after the server acted, which
is the lost reply.

The server is external. What the clients' code assumes of it: stamps strictly increase; a PUT or
GET of a deleted document is a 404; a POST is a 409 when the id or the scope is taken, also by a
deleted document; lists include deleted documents; restoring undoes the deletion.

### Preferences

The one record of preferences that several devices change. One device is told in full: `savePrefs`
reads (`PrefReads`), computes the difference (`PrefDiffs`), and waits for the write lock
(`PrefLocks`) before row and operation are committed (`PrefCommits`); a run pushes (`SyncStarts` to
`SyncStores`) with the probe for divergence, the merge that `push` writes to the row, the rebuilt
payload and the adoption of the answer, and pulls (`SyncLists` to `SyncEnqueues`). The other device
is told by the records it sends, which may be late (`TheyChoose`, `TheySend`). A choice is known by
the time at which it was made, so `mine.of[f].choice >= hist.seen[f]` says that a setting does not
go back. Slips: `overtaken` (a commit between a read and its write), `unsent` (a merge whose rebuilt
payload was not sent before the run broke off), `first save` (a record that stamps its defaults).

### TokenSession

`call[c]` is one caller of `ensureFreshToken`, at the `await` where it stands, with the refresh token it read and
the pair the server answered with. A pair of tokens is one element of `Pairs`. `inFlight` is the
caller whose promise the others share, `signIn` a sign-in by SAML (which sets the session and then
stores the refresh token) or by password (the other way round), `signOut` the wait for the deletion
of the stored token. `owner`, `live` and `expired` are the server's knowledge: a refresh burns the
token it is given and answers with another, or the answer is lost. Every await of secure storage may also
reject (`ReadFails`, `SaveFails`, `DeleteFails`), and what the caller then leaves undone is in the action. The
history variables `lost`, `mixed`, `out` and `bootFailed` record what the properties make exceptions for: a
lost reply or write, an overlap of sign-in and refresh, what went with a sign-out, and a boot check whose
read was rejected. `SharesOneRefresh` says that
`ensureFreshToken` implements SingleFlight too.

### ContentStore

One book. A package is an element of `Packages`, and is at the same time the book key its
`wrappedBek` unwraps to, so that a renewed package is a new key; decryption with another key fails,
as AES-GCM does. `run[r]` is a decryption, at the `await` it stands at, with the package object it
began with; `ties` says whether its session is still the open one and its package still the cached
one, which in the code are object identities. `op[w]` is a call of `store`, `destroy` or
`invalidateLicence` that awaits `deleteBek`. `disk` is the three files; `TornFiles` leaves any
prefix of `store`'s writes.

`broken` records that the reader of an open session was shown a damaged book while the package's
bytes were whole, and `slips` the overlaps and crashes after which the code can do that:

| slip | what happened | line of contentStore.ts |
|---|---|---|
| late key | a decryption saves the key it unwrapped after `store`, `destroy` or a revocation dealt with the keychain | 512 |
| under a reader | `store` replaces the package that a decryption is at work on or whose raw key the session holds | 370 |
| overtaken | `store` completes between the two halves of a destroy or a revocation | 842 |
| reopened | a session was opened between the two halves | 822 |
| orphan key | files deleted and key kept, because the process died or the keychain refused | 344 |

The properties hold of every behaviour without a slip, so the run is constrained to those states
(`NoSlipYet`; the state in which a slip happens is still generated and checked as a step). Each slip
is needed: with any one of them left out of the model a property of the run fails.

### Downloads and ChunkedFetch

`copy`, `row` and `shelf` are the three places in which a device knows of a book: files, the synced
table, and the store of the shelf. `call[c]` is a `downloadBook()` from the licence check to the
rollback; `queue` is `withWriteLock`, held over the lookup and the restore, which are requests.
A listing, lookup or write that fails under the lock is
`FailsLocked`; it is rolled back (`RollsBack`, `Undone`) where the code does so, and a rollback whose own deletion
fails leaves the content. `removal` is a deletion from the shelf or an expiry sweep, which may fail too, `clear` is `clearAllDownloads()`. `Push`,
`Pull` and `OtherDevice` are the sync engine in one step each. `orphan`, `hollow` and `doubled` name
the books for which another step has broken the agreement of content and rows.

In ChunkedFetch a file is the sequence of the chunks in it, each known by the version of the asset it
is from, and `manifest` is the JSON file that says how much of it can be trusted. A death may come
between the write of a chunk and the write of the manifest. `Headers` has the three
answers to a range: a 206 with the asset's length, a 200 with the whole of it, and a 206 that names no length,
which is taken for a 200. `overlaps` names the ways to something that is not the asset: two fetches of one book
at a time, an asset that the server replaces, and the last of these answers. A discard or a write that fails
leaves any prefix of what it does.

### BookOpening, ReaderSession

`opening[a]` is a call of `openBook`: `asking` the server, `deciding`, `invalidating` a stale copy,
`fetching`, `decrypting`. `meta`, `cache` and `session` are what ContentStore models in detail, here
of one book and reduced to whether there is a licence, whether it was revoked, the day it was
validated and the edition of file and key. `heard` is the last day on which the server allowed it.

In ReaderSession, `screen[s].open` is the await of `handleReady()` at which a mount of the
reader stands, `marks` its refs, `monitor[s]` the handle of its `readingAccessMonitor` with an answer
that may be under way, `text` the content session in memory. `leaks` names screens that were left
while their open ran.

### ReadingPlace, PdfScroll

ReadingPlace has the web view (`web`: what it shows, commands to it and its `relocated` messages),
the screen's `initialTargetRef` and its verification with resends, the route's throttle and its
question about another device's place, the saves that wait for the write lock, and the row. PdfScroll
has both views of the PDF: the lists of page wrappers of the scroll and the one sheet of the paged view
(`Paged`), builds and renders under way in either, the tokens that make a render stale, canvases and
the text surfaces that the views share. `LeaveScroll` asks the paged view for the current page, and a
paged render does not look at the mode when it goes on. A render may fail, or find nothing to draw on
(`GotNothing`). `clashes` names what the tokens and claims do not answer for, in the scroll only:

| clash | what happened | line of pdf.entry.ts | refuted |
|---|---|---|---|
| builds | a list is finished while another one is shown | 408 | OneListOfPages |
| unclaimed | a failure takes the claim of a page that is drawn or is another render's | 507 | ResidentIsClaimed |
| blank | a render returns without a word and keeps its claim | 473, 485 | NoPageStaysBlank |
| reborn | a render of an old list has a token that was given out again | 421 | SupersededStops |
| paged | a paged render ends over the scroll | 848 | StalePagedStops |

A resize over a render is none of these by itself: the properties hold through it unless a token is in
fact given out again. The paged view has no exception.

### EpubPage

Four layers (the reader's highlights, the search match, the spoken sentence and word) paint into one
store of epub.js, which knows a mark by its range: `paint.filed` is its map, `listed` what it attaches
when a chapter's view renders, `marks` what is attached, in the order of drawing, and `held` whether the
view can still detach it. The rest of `paint` is what the shell remembers of each layer. `shows` is
epub.js's queue of displays, the one under way, what awaits their ends (`due`, and `late` for those
that a destroyed rendition had queued) and whether a `relocated` is to be reported. `Rebuild` is a change
of flow, `GeometryFrame` the frame after a resize or a font, `Continue` the `.then` of a display. The
commands of the host are `PaintHighlights`, `PaintSearchMatch`, `SetSpokenRange`,
`SetSpokenWordRange`, `GoTo` and `ApplyAppearance`. epub.js itself is external, modelled from the
calls and the comments of the shell.

Abstracted: whether what is spoken is in view, and the pause after a follow, are a choice
(`MayFollow`); a range is a chapter and the places of its words; touches, boxes and colours are left out.
`clashes` names what the layers cannot tell apart: `shared` (two owners ask for one range), `early` (paint
on a rendition whose own rebuild has yet to paint it) and `unviewed` (a removal while nothing is on
screen).

### AudioQueue, SpeechSession, SleepTimer

AudioQueue has the queue, `isTransitioning` with the await at which it stands, `acquireAudioAsset`
of each track, plaintext files, the player and the screen; a position is known by the track whose
audio it was read from. `slips` are `crossed` (the queue moved during a transition), `failed`,
`adrift` (nobody followed the queue) and `acquired` (a lock came during a decryption).

SpeechSession has the session's refs (`liveStatus`, `awaitingUtterance`, the held sentence and the
prefetched one), the native engine with its reports as a queue of events, and the audio player with
its own. A fetch of an earlier `generation` is dropped where the generation is bumped. SleepTimer has
the timer, the scheduling of its notification in two awaits, and the pauses that text to speech makes.

### Offers

The server's holds and offers, the feed's cursor (`since`), the polls under way, the one slot of
`offerStore`, the library as last told, and an answer from the card and one from an item page, which
may be to different offers. `covered` counts the promotions that a delivered library has shown the
phone, `passed` has the offers that found the slot taken by a live one, `dismissed` the live ones that
the answer to another cleared, and `ghosts` those that were answered and may still be shown, since the reply
was lost or a poll had read the library before. The last three are findings.

### CatalogueSearch, VoiceSearch, BookSearch

CatalogueSearch is the reducer with its `requestId`, the effect that issues requests and the answers
in flight, each page known by query, filters and number. VoiceSearch is the reducer, the hook's
`activeRef` and the recogniser, whose events trail an abort. BookSearch builds the index of a text,
answers a phrase query, and compares with the definition of an occurrence, for all texts of two units
of up to three words; the hook's overlapping submissions run on top of it.

## 3. Runs

| run | instance | shows |
|---|---|---|
| scheduler | 2 edits, 3 chains, 1 restart | no circular wait; `run()` implements SingleFlight; a queued edit is attempted (liveness) |
| engine_progress | progress: 1 id, 2 own and 2 other edits, a pullBook, a fault, a crash, device clock ahead. Preferences: 2 fields, 2 overlapping saves, a choice elsewhere, 2 runs, a failure or death | no shown edit is lost; a quiet run leaves device and server equal, or a row held back; a preference does not go back and is queued until the server has it. The state constraint `TwoMeet` leaves out behaviours of all three of pullBook, fault and crash, and of a failure beside two saves |
| engine_collections | bookmarks: 3 ids of one locator, 2 store calls at a time, a fault. Downloads: 2 ids of one scope, device clock behind, fault and crash | the first again, and several ids for one thing become one |
| token_safety | 2 users, 3 pairs, 3 callers, 1 restart | types, no needless refusal, whose session it is, SingleFlight |
| content_safety | 2 packages that persist, 1 streamed, 2 decryptions, 2 writing calls, 1 restart | types, reads break only after a slip, one decryption, nothing of a streamed book persists, reading is reversible and deletion terminal |
| reading | opening: 2 calls, 1 day of grace in 3 days, 2 editions. Session: 2 mounts, 2 changes of foreground and connection, a ruling. Place: 3 places, 2 visits. PDF: 2 pages, a buffer of none, 2 lists, 2 scrolls or turns, a failure, at most 4 of these and 3 renders at a time (`FewPdfSteps`) | what is opened offline may be; locked books stay shut; the monitor runs while a book is on screen; the saved place; the drawn page |
| listening | 3 tracks, 2 skips, an edit or lock; 3 sentences, 3 buttons, a page turn, 2 uses of the player; 2 timers; a page of 2 chapters, 2 highlights, a match, a sentence and 2 words, 3 asks of the host or the system | heard, painted and paused is what should be |
| borrowing | 6 searches of 2 queries, 2 filters, 3 pages; 4 voice sessions; all books of 2 units of 3 words; offers twice: 2 titles and offers on card and page, one poll at a time, nothing lost (`OnePoll`); and a title on the card, two polls, a failure (with one grant) and a restart (`OneTitle`); 2 books, limit 1, 3 row ids, 2 downloads at a time, 3 in all, the third with a single deletion, restart or other device (`FewDisturbances`); 3 versions, 2 fetches, a replacement, a death | one property of each machine |
| live | smaller instances of TokenSession, Offers (2 titles, 2 offers, the card, a failure; the library, which only pages read, stays as it is), Downloads, ReaderSession | four liveness properties |
| engine_own_conflict, token_sign_out, offers_passed_over | small | three findings |

Why the bounds are enough. The hazards of the scheduler are between a run, the rerun chained to it
and one more that joins them: three chains. Those of the engine are between one edit in
flight, one made meanwhile and one of somebody else: two or three own edits, one or two others, and one
fault, since after a lost reply the operation is sent again from the start. A field merge needs two
fields (one changed here, one there), a second save that overtakes the first, and a second run that
meets what the first left. Two tokens are needed for a refresh and
a third for its successor or for a sign-in; two users to mix. Two packages and two keys make a
rotation, and a second reader and a second writer make every pair of calls overlap. A limit of one
book is passed by two downloads as five is by six. Two calls of `openBook` overlap, a grace of one day lapses
on the second. Two mounts are the one that is left and the one that "Resume from there" makes. A page out
of the buffer and back needs two pages and a buffer of none (PdfScroll was checked with a buffer of one too); two lists are the
one that is shown and its rebuild. Two titles and two offers are an offer that comes while another
is live, and an answer on a page while another's card is shown. Two chapters make a range of another chapter, and three asks put a change
of flow or a resize between two commands; the page's properties hold of four asks as well. Three tracks make a current one, the
one moved to and the one skipped to. A late event needs two sessions; four let one be
abandoned at each stage. A transfer of three chunks has a first, a middle and a last.

Symmetry is used over ids, pairs, packages, fields, savers, titles, screens and the like, in runs
without liveness properties only. Deadlock is checked where the system never has to stop. It is
switched off in reading, listening, borrowing, live, engine_progress and offers_passed_over, where
it can: the bounds of a machine run out (days, searches, rounds of a finite transfer, runs of a sync).

Fairness. `FairSpec` of SyncScheduler is weakly fair to timers, to NetInfo's reports and to each
chain's continuations, because a JavaScript engine runs what is ready and each request ends after
`REQUEST_TIMEOUT_MS`. In `live`, each call's steps are weakly fair (TokenSession) for the
same reason, and because secure storage answers or rejects; polls are (Offers), because `setInterval` and a return to the foreground start them;
in Downloads the steps made under the write lock are, because the two requests among them are aborted
after the timeout and SQLite answers; in ReaderSession the monitor's interval and its answers, and the
awaits of an open. Two requests are
less sure of their end than the others: `syncApi.ts:116` clears its timer when the headers are there,
before it reads the body, and the token it asks for first (`:101`) is outside the abort. Should a body
never end, the promise of a run or of a lock stays open, and these properties say nothing.
Readers, the network, transfers and the operating system owe nothing, and lost
requests are bounded where a promise depends on one getting through (OfferIsShown).

Every property of a passing run has a mutant in `PROJECT.json`: a change of a mapped definition, of
the sort a slip in the code would be, under which TLC finds the property violated. The mutated
definitions stand in the modules, each before the definition it stands for.

## 4. Proofs

The theorems hold for all values of the constants under the modules' named assumptions: the null
value is not one of the others (`NoneAssumption`, `NoRecordAssumption`, `NoTrackAssumption` and the
like), the bounds are natural numbers, the ids of the engine are finitely many, a book has a sentence
to speak and a list of pages a page, and (ContentStore) streamed and indexed packages are packages.
Bounds appear in guards only, so a proof for every bound is a proof for the program without it.

* `SyncSchedulerProofs`. `OneExecutionAtATime` from `InFlightExecutes`:
  `inFlight` names the executing chain for exactly as long as it executes, which is not visible in
  OneExecution itself, since two chains can only be told apart through `inFlight`. `PromisesSettle`
  (NoCircularWait): a chain joins only one that has just started or is executing, so in any set of
  chains that wait for each other the last to join waits outside the set; `Invariance` is the
  conjunction that is inductive. `RunsShareOneFlight` (SharesOneRun): the initial state maps to
  SingleFlight's, and every action to one of its steps or a stutter.
* `SyncProofs`, SyncEngine: `ShownEditsAreSafe` (ShownEditIsSafe) and `SyncTypesHold` from `SyncInv`,
  for every table, number of ids, records, retries, edits, faults and crashes. The property says that an edit this device
  shows is queued, in a store call, with the server, or known to be lost; what breaks it is a run that takes
  an operation out of the outbox. So `MayDrop` says what such a run knows at that point: the server
  has had the operation, or the row does not show it any more. That depends on numbers: `TasksOK` and
  `DataOK` give every edit its own, `KnownEdits` are those a server can send, and a record that came
  from there (`RunOK`, `BookOK`, through every await of a run, a pull and a pullBook) shows one of
  them and so never one that is still this device's secret.
* `SyncProofs`, SyncEngine: `QuietRunsSettle` (QuietRunSettles), `QuietRunsUnify` (QuietRunUnifies), and
  `UnifyingIsSafe` (UnifiesSafely, all that engine_collections checks of its two collections), from `SyncInv`
  and `SettleInv`. A quiet run is
  alone (`Alone`), so what is due is in its hands (`InHands`, from the fact that the list it started
  with is of all that was due) and what the server has is still in the page it lists, or met
  (`Meeting`, `Met`). Every other step must leave a state from which such a run can do so: a synced row is what
  a document was (`Behind`, with `InStep`: each write of a document is later than all there are, so an
  equal stamp means an equal content), and a row that is not synced is of the operation in the queue,
  or the server has a document of it (`Unsynced`), which `Kinds` and `Working` carry through a push.
  The proof found what TLC had not been asked: with a clock ahead of the server's, a death between
  `remove` and `adoptPushResult` leaves a row that a pull will not replace (`HeldBack`), so the property
  excepts it, engine_progress has its clock ahead, and what it costs is a finding (SkewHidesNothing).
  QuietRunsUnify adds `OneOfEach`, that the server keeps one document of a scope.
* `SyncProofs`, Preferences: `OwnChoiceStaysQueued` (OwnChoiceIsQueued, the half of PreferenceIsKept about
  the queue) from `PrefInv`: `Dated` says that no choice is of a time to come and that ours are nobody
  else's, `Known` that documents on their way carry of our choices only what the server has had, `Carried` that a
  push that may retire the queued operation takes with it what the row has of it, and `Placed` what
  each place of a save and a run has in hand.
* `SyncProofs`, Preferences: `PreferencesAreKept` (PreferenceIsKept, both halves, for any number of fields,
  saves, runs, failures and choices of the other device), from `PrefInv` and `ShownInv`. A row only goes
  forward by the stamps of its fields (`Follows`, `Ahead`), but a merge compares stamps and the
  property compares choices: a document with the later stamp of a field might carry the earlier choice, a default
  that a rewrite stamped. `NotBehind` says that it does not, and `DocsFollow` says it of the document
  of the server against the row, and of what a run has fetched against both. The rest is about
  values read before an await: what a run or a save read is the row still, or the row has gone on and
  the write is one of the slips (`RunFollows`, `SavesFollow`); fields outside a save's patch are
  between what it read and the row. `OpsFollow` closes the circle: the queued operation becomes the
  document, so it must be of the row as it was at its time, and equal to it if their times are equal,
  but while a run is between its write and its enqueue. `Marks` and `LocksHold` hold without the proviso
  about slips: a stamp is never before its choice, and a save's own stamps are after all it read.
* `TokenSessionProofs`. `SingleRefresh` (OneRefresh) from `Flight`, the same idea for
  `inFlightRefresh`, and `RefreshIsOneFlight` (SharesOneRefresh) from it;
  `RefreshTokenStaysGood` (NoNeedlessRefusal) from `Held`, which
  follows a good refresh token through every place where it is held, from the server's answer to
  secure storage, also where storage rejects it (`lost` then), and says a sign-in's pair is nobody else's; `SessionStaysTheirs`
  (SessionIsTheReaders) from `Identity`, whose parts say who owns what a refresh and a sign-in have in
  hand, and `SignedOut`, which says what a sign-out that nothing overlapped, and whose deletion of the token went
  through, leaves to be stored.
* `ContentStoreProofs`. `SharedDecryption` (OneDecryption) and `NothingOfElitePersists`
  (EliteInMemoryOnly) from `Inv`: `Linked` relates a decryption to the session and package it is
  tied to, `Streamed` says that no key of a streamed package is on its way to the keychain and no
  `store` of one on its way to the files. Lemma `Keeping` does the work once: a step that lets every
  decryption go on or end, and cuts ties where it replaces what they are tied to, keeps `Linked` and OneDecryption.
  `ReadsKeepWorking` (ReadsOnlyBreakAfterASlip) from `Sound`: until one of the named slips no read
  has failed and everything fits. `Fitting` must say so of more than the reads:
  `KeyIsTheFiles` of keychain and meta.json, but for a key that a deletion is about to drop,
  `CachedIsStored` of the package in memory, `CallsRely` of what a `store` past its check of the key
  and a deletion count on, and `ReadsRely` of decryptions whose session may be closed by now.
  `ReadableUntilItIsDestroyed` (ReadableUntilDestroyed) takes both its halves from there: `CachedIsStored` says what is
  in the files when `close()` drops the package, `CallsRely` what is left when `destroy()` returns.
* `DownloadsProofs`, Downloads: `ContentAndRowsAgree` (ContentMatchesRows) and `NoDownloadOverTheLimit`
  from `DownloadInv`, for every limit and any number of calls. The limit cannot be counted in rows, since a pull
  brings rows of other devices that no check saw: `Counted` are the active rows
  without those that another device's row of a book held here brought in, and `CountKept` bounds them. A call that has the write
  lock then knows the row of its book and has room for it (`HolderIsRight`), which needs that an id
  stands for one book wherever it occurs (`OneBookPerId`; a fresh id is nobody's, Downloads' `Unused`) and
  that of two rows of a book one is the server's (`OwnRows`). `ContentIsThere` covers a row and what
  will be one; content without either is in `orphan`, by one of the named ways, failures under the lock and of a
  rollback among them.
* `DownloadsProofs`, ChunkedFetch: `FetchedIsWhole` (WholeUnlessSlip) from `FetchInv`: as long as no
  two fetches met, the asset was not replaced and no 206 came without a length, part file and manifest that can be trusted are a first part of the asset
  (`FetchSound`), and what a fetch has in hand between two awaits is the next part (`FetchInHand`).
* `AccessProofs`, Offers: `OffersKept` (OffersAreKept): `Numbered` bounds cursors and ids by the promotions
  made, `LookedUp` says that a poll whose cursor passes a promotion has asked the library for it. An offer
  leaves the slot by its own taken answer or is in `dismissed`, and what was answered and is shown is a ghost. It
  holds for any number of overlapping polls, titles and answers (the run has two of each).
* `AccessProofs`, BookOpening: `OpenedOfflineIsAllowed` (OfflineIsAllowed): `Fresh` relates the day written in
  `meta.json` to the last day the server allowed the book, `StillBarred` says what a revocation leaves
  on the device while a call that began after it goes on.
* `AccessProofs`, ReaderSession: `LockedBookStaysShut` and `BookIsFollowed` (LockedStaysShut,
  MonitorFollowsBook): `ToldOnce` about the lock's two sources, `Watched` about the monitor's life,
  `Quiet` about what stays in memory behind screens that are gone.
* `ReadingProofs`, ReadingPlace: `KeepsTheReadersPlace` (PlaceIsTheReaders) from `PlaceInv`. `Stages` says what a screen
  has at each stage of opening, `WrittenLast` that the place the reader left at is the last of the
  writes under way, `Theirs` that whatever is saved or navigated to is the reader's. That the front of
  the book is not taken for it rests on `FrontComesFirst`: the reports of the front come before all others in the
  web view's mail, and there are no more of them than resends, one for the opening and one for each
  resize. The constants leave resizes free; the part holds while there were at most `MaxResends`.
* `ReadingProofs`, PdfScroll: `DrawsTheWindow` (ScrollDrawsItsPages) from `PdfInv`. `ListsKept` says, whatever
  clashed, which lists are built, shown and drawn in, and that outside of the scroll nothing of a list
  is claimed or drawn. `SheetComes` is the paged view, without a proviso either: a render with the current
  token is of the current page, and the last one asked for failed, is on its way, or is on the sheet
  with its surface; the proof needs that the failure of a render which is no longer the current one is
  not taken for a refusal. Until a clash, `InView` says that one list is shown and that a render which may
  still write is the only one of its page, and `Seen` that a claimed page is on its way to its canvas,
  or drawn with the surface of its last render.
* `ReadingProofs`, AudioQueue: `PlayerKeepsToTheQueue` (PlayerFollowsQueue) from `AudioInv`: `Stays`
  says what the player, the move and the screen have in hand, `Together` that these and the saved
  positions are about one book, `AtCurrent` that it is the queue's current item, and `Shut` that
  nothing is left of a locked book which the player could be given. Each holds until one of the slips named
  in `slips` happened, and the part says which.
* `ReadingProofs`, SpeechSession: `VoiceKeepsToTheSession` (VoiceFollowsSession) from `SpeechInv`.
  While no utterance overlapped another, what the engine was given is the one sentence the session
  waits for, and the events under way are about it (`InHand`, `Spoken`); of a page that was left
  nothing is held, asked for or under way (`LeftBehind`); the player reports each change once and in
  order (`Alternating`), which is why of two sources that are heard one is about to be stopped (`OneOfBoth`).
* `ReadingProofs`, SleepTimer: `TimerKeepsToItsOwn` (TimerActsForItsOwn) from `OnTime` (only the timer started
  last has a notification), `NothingComes` (nothing that would be heard is on its way after it fired)
  and `OwnPause` (the mark of a pause goes with a player that is silent for that reason).
* `ScreenProofs`. `ListStaysOfTheSearch` (ListIsOfTheSearch) from `Asked`: an answer in flight that
  carries the current requestId is the page that is waited for. `MicrophoneFollows`
  (MicFollowsSession) from `Prompted`, `Told` and `Heard`, which follow a session from its permission
  to the last event of its recogniser.
  `HitsAreWhereTheTermStands` (HitsAreTheOccurrences) for every book and every term: lemmas about
  `Matching` relate the index's intersection of postings to an occurrence, word by word, those about
  `InReadingOrder` say that a finite set of entries is listed once each and in order, by its count of
  the entries before one, and `BookSearchInv` says that the hits on the screen answer the term they were submitted for.
* `ScreenProofs`, EpubPage: `PageShowsItsLayers` (LayersAreShown, all five parts) from `PageInv`, for any chapters,
  ranges, layers and number of asks. `Sound` is about epub.js's store: what is listed for a chapter is
  filed, each once, and a mark on the page is of a listed range and can be taken off. What the property
  needs between a display and its end is said by `PaintedFor`: the store holds the layers (`Complete`),
  or, while a rebuild has yet to paint them again, none but the match (`Bare`). `OnTop` orders the word and
  its sentence in the lists too, since it is from there that a view is drawn. `Truthful` relates the match,
  the one that is pending and what the host was told. Displays are awaited in the order they were asked
  for, under numbers no later than `transition` (`InOrder`, which gives TransitionIsGuarded), and there
  are at most two transitions for each thing asked (`Afforded`), which bounds what `PageIsWellTyped`
  says of them. What the store must hold, and in which order, is said until a clash; the rest always. The lemmas go from
  sequences without repetition (`Once`) to the store's operations (add, remove, attach), from these to
  the layers' (`Keeps`, `Above`), and so to the commands and callbacks. None is assumed to be no chapter, range or
  owner (`AbsenceAssumption`).

Each invariance proof has a step for every action of the next-state relation.

## 5. What is only checked, and what is not modelled

Only model-checked: liveness (EditIsAttempted and the four of `live`), which needs fairness and
ENABLED, out of the prover's reach; and the type invariants of the modules that run side by side, conjoined
in the MC modules (each that a theorem needs is proved in its own).

Not modelled, within the modelled components:

* SyncEngine: the generic 409 branch with the server's document in its body, payloads that do not
  parse, replies of 204, `local_path`, the pull checkpoint and the scoping of a pull to several books.
* Preferences: a skew between the clocks of the devices, subscribers, the migration of old values.
  The record's accessibility half runs the same code, and `resetPrefs()` is a save of every field.
* TokenSession: clearing of the selected institution and the device id.
* ReadingPlace: `PullPlace` is one step, though `applyServerRecord` reads, awaits and upserts (SyncEngine has
  the two halves, and LaterStampWins is what can come between them), and a `savePosition()` that fails, which
  the route ignores, so that the place saved before stays.
* ContentStore: open-access packages, the RAM budget and length checks, zeroing of buffers. The
  licence window is in BookOpening.
* Downloads: the storage check before a download and its progress. BookOpening: the index that is
  fetched beside the book, and formats.
* Reader: colours and type, touches and selection, the boxes of highlights, links, gestures, tables of
  contents, the EPUB page's layout. Audio and speech: seeking, rates, voices, the lock screen.

Hazards known and without a property: a DELETE that is answered 404 is adopted as a bare id
(`syncEngine.ts:662`); a 401 to a request of an older session clears the one that replaced it
(`syncApi.ts:126`); any reply that is not ok counts as a refusal, also a 503
(`ApiAuthClient.ts:223`); two taps add two bookmarks of one locator, which a later run unifies
(`bookmarkStore.ts:73`).

Most of the repository is not state that events race for: screens, styles, generated page bundles,
adapters that map one JSON shape to another, and the layout code of the two web views. It is
covered by unit tests and has no behaviour that a temporal model would add to. The components
without a module are listed with their reasons in `PROJECT.json`.

## 6. Findings

Three runs expect a violation of a statement that a comment makes:

1. `engine_own_conflict`: after a lost reply, the device's own earlier write is taken for a
   concurrent one and the newer own edit is dropped (`syncEngine.ts:723`, serverHasDiverged).
2. `token_sign_out`: a refresh in flight at sign-out stores its rotated token after the deletion.
3. `offers_passed_over`: an offer that comes while another is live is never put before the reader.

The others were met while modelling. Where a property is named, the module states it as the repository
does, a comment before it quotes the statement, and TLC finds it violated with
the bounds of that module's run and no state constraint (DownloadIsKept: those of engine_collections,
with Kind "downloads").

| code | what happens | property |
|---|---|---|
| `syncableTable.ts:379` | `applyServerRecord` overwrites an edit that commits between its SELECT and its upsert | SyncEngine!LaterStampWins |
| `syncableTable.ts:372` | a row whose push was carried out before a death keeps the stamp of a clock that is ahead, and pulls pass over what another device wrote since, which `syncEngine.ts:676` says that comparing base versions avoids | SyncEngine!SkewHidesNothing |
| `syncEngine.ts:274` | after a lost reply to a download's CREATE, the device restores its own document and deletes its own row | SyncEngine!DownloadIsKept |
| `syncEngine.ts:210` | a merge whose send fails is undone by the payload that is still queued | Preferences!MergeOutlivesAFailedSend |
| `prefsStore.ts:117` | a save writes back what a save or a pull changed while it awaited | Preferences!SaveMovesItsOwn |
| `syncableTable.ts:472` | a row of before field stamps is measured by the time of the last sync | Preferences!LatestIsShown |
| `contentStore.ts:344` | a key that outlives `meta.json` makes the next download unreadable | ContentStore!CutShortDeletionIsHarmless |
| `contentStore.ts:512` | a decryption saves, or a session goes on with, the key of a package that was replaced | ContentStore!RotationReachesReaders |
| `contentStore.ts:821` | a book that is borrowed again before its deletion ends is read with the old key | ContentStore!FreshBorrowIsReadable |
| `ProfileScreen.tsx:198` | a deletion of the token that secure storage rejects leaves it for the next cold start | TokenSession!FailedSignOutSticks |
| `tokenRefresh.ts:57` | a read that secure storage rejects keeps `_authReady` from being raised | TokenSession!BootIsReady |
| `LibraryScreen.tsx:637` | a deletion from the shelf leaves the `downloads` row and its slot | Downloads!HeldIsHeld |
| `downloadManager.ts:409` | a listing or write that fails under the lock, or a rollback that does, leaves content without a row | Downloads!FailureLeavesNothing |
| `chunkedAssetFetcher.ts:196` | one range is returned as the whole asset when a 206 names no length | ChunkedFetch!OnlyTheCompleteIsReturned |
| `ItemDetailScreen.tsx:1046` | the answer to one offer dismisses another that is live | Offers!OnlyItsAnswerDismisses |
| `offerPolling.ts:46` | a library that was read before an answer brings the offer back | Offers!NoConsumedOfferIsShown |
| `openBook.ts:226` | an online open of a revoked copy does not re-attach its rights | - |
| `audioAssetResolver.ts:242` | a book locked while it is decrypted for the player is played | AudioQueue!LockedIsNeverHeard |
| `audioAssetResolver.ts:262` | the file of the track that still plays is deleted | AudioQueue!PlayedFileIsThere |
| `audioQueueCoordinator.ts:30` | a skip or removal during a move changes the queue and not what is heard | AudioQueue!MovedToIsHeard |
| `audioQueueCoordinator.ts:195` | the move under way starts its track after the queue was cleared | AudioQueue!StartsWhatIsQueued |
| `sleepTimerNotifications.ts:63` | a notification is posted for a timer that was cancelled meanwhile | SleepTimer!ClearsItsNotification |
| `audioTtsCoordinator.ts:171` | switching speech off resumes a pause the listener made | SleepTimer!ResumesOnlyItsOwnPause |
| `useTtsSession.ts:472` | a second press or a late event leaves a voice beside an idle session | SpeechSession!NeverBothHeard |
| `ReaderScreen.tsx:1471` | a screen left while it opens a book leaves session and monitor behind | ReaderSession!LeftIsForgotten |
| `ReaderRouteScreen.tsx:333` | the reader is asked about "another device" for an own page turn | ReadingPlace!AskedOfAnotherDevice |
| `ReaderScreen.tsx:1558` | the message says that the access check has no timeout; it has one | - |
| `pdf.entry.ts:408` | two builds that overlap leave two lists of pages | PdfScroll!OneListOfPages |
| `pdf.entry.ts:507` | a canvas whose claim was given up outlives the window | PdfScroll!ResidentIsClaimed |
| `pdf.entry.ts:473` | a page that had nothing to be drawn on keeps its claim and stays blank | PdfScroll!NoPageStaysBlank |
| `pdf.entry.ts:421` | a rebuild gives tokens out again, and a superseded render goes on with one | PdfScroll!SupersededStops |
| `pdf.entry.ts:848` | a paged render that outlives its mode takes the surfaces of the scroll | PdfScroll!StalePagedStops |
| `searchState.ts:121` | the answer to a query that was blanked is shown | CatalogueSearch!BlankInvitesAQuery |
| `useVoiceSearch.ts:225` | a trailing event is taken for one of the next session | VoiceSearch!TrailingEventsAreDropped |
| `epub.entry.ts:761` | a selection is taken for a highlight of another chapter, which is then deleted | EpubPage!SelectionNamesItsOwn |
| `epub.entry.ts:1776` | what is asked for while a rendition is rebuilt is painted twice | EpubPage!RebuildPaintsOnce |
| `epub.entry.ts:1890` | a frame that runs with nothing on screen lists every mark twice | EpubPage!ResizePaintsOnce |
| `epub.entry.ts:2392` | a sentence and another layer share a key, and one takes the other's mark | EpubPage!LayersKeepApart |
| `epub.entry.ts:1878` | a resize before the first location leaves a display with nothing to display | EpubPage!DisplayIsOnScreen |
| `epub.entry.ts:1187` | a highlight goes back under the spoken word | EpubPage!HighlightOverWord |
| `epub.entry.ts:1962` | a search match is refused while its chapter is on its way | EpubPage!RefusedWhereItIs |
| `queryIndex.ts:143` | the query matches a phrase, the panel says that it does not | BookSearch!EveryUnitWithAllTheWords |
| `buildIndex.ts:36` | the word "constructor" breaks the index, a plain object | - |

## 7. What is left

In order of importance: an abstract specification of a content store (a book is absent, readable or
revoked) that ContentStore implements and Downloads and BookOpening rest on; several books in one
pull, with its checkpoint.
