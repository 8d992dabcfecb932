----------------------------- MODULE AudioQueue -----------------------------
(***************************************************************************)
(* Listening: the queue of audiobooks (audioQueueStore.ts), the transition  *)
(* from one to the next (audioQueueCoordinator.ts), the one native player   *)
(* of the process (audioPlayerInstance.ts), the decrypted scratch files it  *)
(* reads (audioAssetResolver.ts, audioScratchReclaimer.ts) and the player   *)
(* screen, which follows the queue and saves the position it shows.         *)
(*                                                                          *)
(* A position is identified by the book whose audio it was read from.       *)
(***************************************************************************)
EXTENDS Naturals, Sequences, FiniteSets, SequencesExt, Absence

CONSTANTS
  Tracks,      \* audiobooks
  MaxSkips,    \* changes of track asked for (bound)
  MaxEvents,   \* edits of the queue, content locks, changes of app state (bound)
  MaxVisits    \* times the player screen is opened (bound)

ASSUME AudioBoundsAssumption == {MaxSkips, MaxEvents, MaxVisits} \subseteq Nat
ASSUME NoTrackAssumption == None \notin Tracks

VARIABLES
  items,     \* AudioQueueState.items
  index,     \* currentIndex, from 1; 0 is -1
  repeat,    \* repeatMode
  player,    \* the current player: its book, what it was given, its state
  moving,    \* the playQueueItem() under way: isTransitioning
  acquire,   \* track -> the acquireAudioAsset() under way
  scratch,   \* tracks with a plaintext file
  view,      \* the player screen
  saved,     \* track -> the track its saved position was read from
  locked,    \* tracks whose licence was revoked
  counts,    \* how often each bounded thing happened
  slips      \* history: what the coordinator drops or does not look at again

audioVars == <<items, index, repeat, player, moving, acquire, scratch, view, saved,
               locked, counts, slips>>
queueVars == <<items, index, repeat>>

MaybeTrack == Tracks \union {None}
Player == [book : MaybeTrack, track : MaybeTrack, loaded : BOOLEAN, playing : BOOLEAN]
NoPlayer == [book |-> None, track |-> None, loaded |-> FALSE, playing |-> FALSE]

(* `mine`: the screen's player object is still the current one.  `fresh`:   *)
(* isNew, and its uri has not been handed over yet.                         *)
View == [at : {"off", "syncing", "on"}, book : MaybeTrack, mine : BOOLEAN, fresh : BOOLEAN]
NoView == [at |-> "off", book |-> None, mine |-> FALSE, fresh |-> FALSE]

Moving == [item : MaybeTrack, at : {"idle", "mode", "asset", "place"}]
NotMoving == [item |-> None, at |-> "idle"]

AudioTypeOK ==
  /\ items \in Seq(Tracks) /\ IsInjective(items)
  /\ index \in 0..Len(items) /\ (items # <<>> => index > 0)
  /\ repeat \in {"off", "all", "one"}
  /\ player \in Player /\ view \in View /\ moving \in Moving
  /\ acquire \in [Tracks -> {"idle", "asking", "decrypting", "closing"}]
  /\ {scratch, locked} \subseteq SUBSET Tracks
  /\ saved \in [Tracks -> Tracks]
  /\ counts \in [skips : 0..MaxSkips, events : 0..MaxEvents, visits : 0..MaxVisits]
  /\ slips \subseteq {"crossed", "failed", "adrift", "acquired"}

AudioInit ==
  /\ items = <<>> /\ index = 0 /\ repeat = "off"
  /\ player = NoPlayer /\ moving = NotMoving /\ view = NoView
  /\ acquire = [t \in Tracks |-> "idle"]
  /\ scratch = {} /\ locked = {} /\ slips = {}
  /\ saved = [t \in Tracks |-> t]
  /\ counts = [skips |-> 0, events |-> 0, visits |-> 0]

CurrentItem == IF index = 0 THEN None ELSE items[index]
Audible == player.loaded /\ player.playing
Counts(what, most) == counts[what] < most /\ counts' = [counts EXCEPT ![what] = @ + 1]

-----------------------------------------------------------------------------
(* The player *)

(* commitCurrentPlayerPosition(): nothing while nothing is loaded.          *)
Committed == IF player.loaded THEN [saved EXCEPT ![player.book] = player.track] ELSE saved

(* A position saved by the screen, for the book it was opened with.         *)
Shown == IF view.at = "on" /\ view.mine /\ player.loaded
         THEN [saved EXCEPT ![view.book] = player.track] ELSE saved

(* player.replace(): the file is opened if it is there.                     *)
Given(p, t) == [p EXCEPT !.track = IF t \in scratch THEN t ELSE None, !.loaded = FALSE]

(* getAudioPlayerFor(): the player of this book, or a new one.              *)
PlayerFor(t) == IF player.book = t THEN player ELSE [NoPlayer EXCEPT !.book = t]

(* switchActiveAudioTrack(): the player that is there plays on with the     *)
(* next track; one that already has it is only started.                     *)
Switched(t) ==
  IF player.book = t /\ player.loaded THEN [player EXCEPT !.playing = TRUE]
  ELSE [Given([player EXCEPT !.book = t], t) EXCEPT !.playing = TRUE]

(* pause(), of a player that reports it is playing.                         *)
Silenced == IF Audible THEN [player EXCEPT !.playing = FALSE] ELSE player

(* The source has loaded.                                                   *)
Loads ==
  /\ player.track # None /\ ~player.loaded
  /\ player' = [player EXCEPT !.loaded = TRUE]
  /\ UNCHANGED <<queueVars, moving, acquire, scratch, view, saved, locked, counts, slips>>

-----------------------------------------------------------------------------
(* Moving to a track *)

(* The route follows the queue: another current item unmounts the screen,   *)
(* which saves the position it shows, and mounts one for that item.         *)
Follows(item) == view.at # "off" /\ item # None /\ item # view.book

ViewFollows(item) ==
  view' = IF Follows(item) THEN [NoView EXCEPT !.at = "syncing", !.book = item] ELSE view
SavedFollows(item) == IF Follows(item) THEN Shown ELSE saved

(* The queue is at another item than the one that is being moved to.        *)
Crosses(item) == {s \in {"crossed"} : moving.at # "idle" /\ item # moving.item}

(* playQueueItem(): refused while another is under way.                     *)
Plays(t) ==
  /\ moving' = IF moving.at = "idle" THEN [item |-> t, at |-> "mode"] ELSE moving
  /\ slips' = slips \union Crosses(t)

(* skipToNext(), skipToPrevious(), skipToIndex(), and playQueueItem() of    *)
(* the item the queue is at then.                                           *)
SkipTo(i) ==
  /\ index' = i
  /\ Plays(items[i])
  /\ ViewFollows(items[i]) /\ saved' = SavedFollows(items[i])

NextIndex ==
  IF repeat = "one" THEN index
  ELSE IF index < Len(items) THEN index + 1
  ELSE IF repeat = "all" THEN 1 ELSE 0
PreviousIndex ==
  IF repeat = "one" THEN index
  ELSE IF index > 1 THEN index - 1
  ELSE IF repeat = "all" THEN Len(items) ELSE 0

Skip ==
  /\ Counts("skips", MaxSkips)
  /\ items # <<>>
  /\ \E i \in {NextIndex, PreviousIndex} \union DOMAIN items : i # 0 /\ SkipTo(i)
  /\ UNCHANGED <<items, repeat, player, acquire, scratch, locked>>

(* handleTrackFinished(): the same track from the top, the next, or silence. *)
Finishes ==
  /\ Audible
  /\ \/ repeat = "one" /\ UNCHANGED <<index, player, moving, view, saved, counts, slips>>
     \/ /\ repeat # "one" /\ index # 0 /\ NextIndex # 0
        /\ Counts("skips", MaxSkips)
        /\ player' = [player EXCEPT !.playing = FALSE]
        /\ SkipTo(NextIndex)
     \/ /\ repeat # "one" /\ (index = 0 \/ NextIndex = 0)
        /\ player' = [player EXCEPT !.playing = FALSE]
        /\ UNCHANGED <<index, moving, view, saved, counts, slips>>
  /\ UNCHANGED <<items, repeat, acquire, scratch, locked>>

(* resolveAudioAssetUri(): an acquire under way is shared.                  *)
Resolving(t) == [acquire EXCEPT ![t] = IF @ = "idle" THEN "asking" ELSE @]

(* ensureAudioModeConfigured() is done, or rejects.                         *)
ModeSet ==
  /\ moving.at = "mode"
  /\ \/ /\ moving' = [moving EXCEPT !.at = "asset"]
        /\ acquire' = Resolving(moving.item) /\ slips' = slips
     \/ moving' = NotMoving /\ acquire' = acquire /\ slips' = slips \union {"failed"}
  /\ UNCHANGED <<queueVars, player, scratch, view, saved, locked, counts>>

(* openBook(): the licence is checked, and the book decrypted.  What waits  *)
(* for it fails with it.                                                    *)
MayAsk(t) == t \notin locked
AcquireFails(t) ==
  /\ acquire[t] \in {"asking", "decrypting"}
  /\ acquire' = [acquire EXCEPT ![t] = "idle"]
  /\ moving' = IF moving.at = "asset" /\ moving.item = t THEN NotMoving ELSE moving
  /\ slips' = slips \union {"failed"}
  /\ UNCHANGED <<queueVars, player, scratch, view, saved, locked, counts>>

Licensed(t) ==
  /\ acquire[t] = "asking" /\ MayAsk(t)
  /\ acquire' = [acquire EXCEPT ![t] = "decrypting"]
  /\ UNCHANGED <<queueVars, player, moving, scratch, view, saved, locked, counts, slips>>

(* The plaintext is written, every other scratch file deleted.              *)
Written(t) ==
  /\ acquire[t] = "decrypting"
  /\ acquire' = [acquire EXCEPT ![t] = "closing"]
  /\ scratch' = {t}
  /\ UNCHANGED <<queueVars, player, moving, view, saved, locked, counts, slips>>

(* closeBook() is done: the uri goes to the transition, and to a screen     *)
(* whose player is new.                                                     *)
Resolved(t) ==
  /\ acquire[t] = "closing"
  /\ acquire' = [acquire EXCEPT ![t] = "idle"]
  /\ moving' = IF moving.at = "asset" /\ moving.item = t
               THEN [moving EXCEPT !.at = "place"] ELSE moving
  /\ IF view.at = "on" /\ view.book = t /\ view.fresh
     THEN /\ player' = IF view.mine THEN Given(player, t) ELSE player
          /\ view' = [view EXCEPT !.fresh = FALSE]
     ELSE UNCHANGED <<player, view>>
  /\ UNCHANGED <<queueVars, scratch, saved, locked, counts, slips>>

(* The saved position was read: the track is switched.                      *)
Placed ==
  /\ moving.at = "place"
  /\ moving' = NotMoving
  /\ saved' = IF player.book = moving.item THEN saved ELSE Committed
  /\ player' = Switched(moving.item)
  /\ UNCHANGED <<queueVars, acquire, scratch, view, locked, counts, slips>>

(* toggleAudioPlayback(), beginPlayback(), and the lock screen's buttons.   *)
Toggle ==
  /\ Counts("skips", MaxSkips)
  /\ \/ /\ player.loaded
        /\ player' = [player EXCEPT !.playing = ~@]
        /\ saved' = IF player.playing THEN Committed ELSE saved
        /\ UNCHANGED <<moving, slips>>
     \/ /\ ~player.loaded /\ CurrentItem # None
        /\ Plays(CurrentItem)
        /\ UNCHANGED <<player, saved>>
  /\ UNCHANGED <<queueVars, acquire, scratch, view, locked>>

-----------------------------------------------------------------------------
(* The queue *)

(* enqueue() and playNext(): a book that is there already stays where it is. *)
Add ==
  /\ Counts("events", MaxEvents)
  /\ \E t \in Tracks \ Range(items), i \in {Len(items) + 1, index + 1} :
       /\ items' = InsertAt(items, i, t)
       /\ index' = IF index = 0 THEN 1 ELSE index
       /\ ViewFollows(items'[index']) /\ saved' = SavedFollows(items'[index'])
       /\ slips' = slips \union Crosses(items'[index'])
  /\ UNCHANGED <<repeat, player, moving, acquire, scratch, locked>>

IndexWithout(i) ==
  IF i < index THEN index - 1
  ELSE IF i = index /\ index = Len(items) THEN index - 1 ELSE index

(* removeQueueItem(): of the current track, which is then the next one,     *)
(* played at once; or nothing, and the player is paused.                    *)
RemoveTrack ==
  /\ Counts("events", MaxEvents)
  /\ \E i \in DOMAIN items :
       LET item == IF Len(items) = 1 THEN None ELSE RemoveAt(items, i)[IndexWithout(i)] IN
       /\ items' = RemoveAt(items, i)
       /\ index' = IndexWithout(i)
       /\ ViewFollows(item)
       /\ IF i = index /\ item # None
          THEN Plays(item) /\ player' = player /\ saved' = SavedFollows(item)
          ELSE /\ moving' = moving
               /\ slips' = slips \union {s \in {"adrift"} : item = None}
               /\ player' = IF item = None THEN Silenced ELSE player
               /\ saved' = IF item = None /\ Audible THEN Committed ELSE SavedFollows(item)
  /\ UNCHANGED <<repeat, acquire, scratch, locked>>

(* Mutant: the index stays where it was.                                    *)
SameIndex(new) == index

(* reorder(): the index goes with its item.                                 *)
IndexIn(new) == CHOOSE n \in DOMAIN new : new[n] = items[index]
Reorder ==
  /\ Counts("events", MaxEvents)
  /\ \E i, j \in DOMAIN items :
       /\ i # j
       /\ items' = InsertAt(RemoveAt(items, i), j, items[i])
       /\ index' = IndexIn(items')
  /\ UNCHANGED <<repeat, player, moving, acquire, scratch, view, saved, locked, slips>>

RepeatModes ==
  /\ Counts("events", MaxEvents)
  /\ \E m \in {"off", "all", "one"} \ {repeat} : repeat' = m
  /\ UNCHANGED <<items, index, player, moving, acquire, scratch, view, saved, locked, slips>>

(* Mutant: the index is not reset.                                          *)
ClearedItems == items' = <<>> /\ index' = index

(* clearAudioQueue(): what is being acquired is not called off.             *)
Cleared == items' = <<>> /\ index' = 0
ClearQueue ==
  /\ Counts("events", MaxEvents)
  /\ Cleared
  /\ player' = Silenced
  /\ saved' = IF Audible THEN Committed ELSE saved
  /\ slips' = slips \union {"adrift"}
  /\ UNCHANGED <<repeat, moving, acquire, scratch, view, locked>>

(* selectAndPlayAudiobook(): put into the queue if need be, and played.      *)
Select ==
  /\ Counts("skips", MaxSkips)
  /\ \E t \in Tracks :
       LET new == IF t \in Range(items) THEN items ELSE Append(items, t) IN
       /\ items' = new
       /\ index' = CHOOSE n \in DOMAIN new : new[n] = t
       /\ Plays(t)
       /\ ViewFollows(t) /\ saved' = SavedFollows(t)
  /\ UNCHANGED <<repeat, player, acquire, scratch, locked>>

-----------------------------------------------------------------------------
(* The player screen *)

(* AudioPlayerRouteScreen: the queue is moved to the book, without playing, *)
(* and a sync precedes the screen.                                          *)
OpenPlayer ==
  /\ view.at = "off"
  /\ Counts("visits", MaxVisits)
  /\ \E t \in Tracks :
       LET new == IF t \in Range(items) THEN items ELSE Append(items, t) IN
       /\ items' = new
       /\ index' = CHOOSE n \in DOMAIN new : new[n] = t
       /\ view' = [NoView EXCEPT !.at = "syncing", !.book = t]
       /\ slips' = slips \union Crosses(t)
  /\ UNCHANGED <<repeat, player, moving, acquire, scratch, saved, locked>>

(* AudioPlayerScreen mounts: the player of its book, and the load effect.   *)
MountPlayer ==
  /\ view.at = "syncing"
  /\ view' = [view EXCEPT !.at = "on", !.mine = TRUE, !.fresh = player.book # view.book]
  /\ player' = PlayerFor(view.book)
  /\ saved' = IF player.book = view.book THEN saved ELSE Committed
  /\ acquire' = Resolving(view.book)
  /\ UNCHANGED <<queueVars, moving, scratch, locked, counts, slips>>

(* A status event while the screen is on: onPositionChange().               *)
ShowPosition ==
  /\ view.at = "on" /\ view.mine /\ player.loaded
  /\ saved' = Shown
  /\ UNCHANGED <<queueVars, player, moving, acquire, scratch, view, locked, counts, slips>>

LeavePlayer ==
  /\ view.at # "off"
  /\ saved' = Shown
  /\ view' = NoView
  /\ slips' = slips \union {s \in {"adrift"} : view.at = "syncing"}
  /\ UNCHANGED <<queueVars, player, moving, acquire, scratch, locked, counts>>

-----------------------------------------------------------------------------
(* Plaintext that has to go *)

(* releaseCurrentAudioPlayer() of the book the lock is about.               *)
Releases(t) ==
  IF player.book = t
  THEN player' = NoPlayer /\ saved' = Committed /\ view' = [view EXCEPT !.mine = FALSE]
  ELSE UNCHANGED <<player, saved, view>>

(* content.lock: an acquire that is past its licence check is not told.     *)
AudioLock ==
  /\ Counts("events", MaxEvents)
  /\ \E t \in Tracks \ locked :
       /\ locked' = locked \union {t}
       /\ Releases(t)
       /\ scratch' = scratch \ {t}
       /\ slips' = slips \union {s \in {"acquired"} : acquire[t] = "decrypting"}
  /\ UNCHANGED <<queueVars, moving, acquire>>

(* The app leaves the foreground or comes back: the position is committed,  *)
(* and only the file being played is kept.                                  *)
AppStateSweep ==
  /\ Counts("events", MaxEvents)
  /\ saved' \in {saved, Committed}
  /\ scratch' = IF Audible THEN scratch \intersect {player.book} ELSE {}
  /\ UNCHANGED <<queueVars, player, moving, acquire, view, locked, slips>>

AudioNext ==
  \/ Skip \/ Toggle \/ Select \/ Finishes \/ Loads \/ ModeSet \/ Placed
  \/ \E t \in Tracks : AcquireFails(t) \/ Licensed(t) \/ Written(t) \/ Resolved(t)
  \/ Add \/ RemoveTrack \/ Reorder \/ RepeatModes \/ ClearQueue
  \/ OpenPlayer \/ MountPlayer \/ ShowPosition \/ LeavePlayer
  \/ AudioLock \/ AppStateSweep

AudioSpec == AudioInit /\ [][AudioNext]_audioVars

-----------------------------------------------------------------------------
(* Properties *)

(* The position saved for a book was read from its own audio, whatever was  *)
(* skipped to, edited, mounted and left while a track was being acquired;   *)
(* unless the queue moved on while the player was being moved to a track.   *)
SavedIsOwn == "crossed" \notin slips => \A t \in Tracks : saved[t] = t

(* What is heard is the current item of the queue, once nothing is under    *)
(* way; unless the queue moved on meanwhile, a move failed, the queue was   *)
(* emptied, or the screen left before it took the player over.              *)
HeardIsCurrent ==
  Audible /\ moving.at = "idle" /\ view.at # "syncing"
    /\ (\A t \in Tracks : acquire[t] = "idle")
    /\ slips \intersect {"crossed", "failed", "adrift"} = {}
  => player.track = CurrentItem

(* A book whose licence was revoked is neither heard nor on disk, unless it *)
(* was being decrypted when the lock came.                                  *)
LockedIsSilent ==
  slips \intersect {"crossed", "acquired"} = {} =>
    \A t \in locked : t \notin scratch /\ ~(Audible /\ player.track = t)

(* What is heard is the queue's own item and may be heard, and what is      *)
(* saved of it is its own (audioQueueCoordinator, audioAssetResolver).      *)
PlayerFollowsQueue == SavedIsOwn /\ HeardIsCurrent /\ LockedIsSilent

(* audioScratchReclaimer.ts:60: "Releasing the player is what actually cuts *)
(* the user off."                                                           *)
LockedIsNeverHeard == \A t \in locked : ~(Audible /\ player.track = t)

(* audioScratchReclaimer.ts:70: "so there is never a moment where a live    *)
(* player is reading a file that has been removed from the filesystem".     *)
PlayedFileIsThere == Audible => player.track \in scratch

(* removeQueueItem() "switches playback to the new current track": not      *)
(* while another move is under way, nor does a skip; the queue shows the    *)
(* one and the other is heard.                                              *)
MovedToIsHeard ==
  Audible /\ moving.at = "idle" /\ view.at # "syncing"
    /\ (\A t \in Tracks : acquire[t] = "idle") /\ slips \subseteq {"crossed", "acquired"}
  => player.track = CurrentItem

(* clearAudioQueue() "Clears the entire audio queue and pauses any active   *)
(* playback": the move that is under way starts its track afterwards.       *)
StartsWhatIsQueued == [][Placed => items # <<>>]_audioVars
=============================================================================
