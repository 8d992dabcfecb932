--------------------------- MODULE SpeechSession ---------------------------
(***************************************************************************)
(* Reading aloud (useTtsSession.ts) over the sentences the web view serves  *)
(* (realReaderTextProvider.ts), next to the audiobook player, of which only *)
(* one may be heard (audioTtsCoordinator.ts).                               *)
(*                                                                          *)
(* Calls of the native engines take effect at once; what they report comes  *)
(* back later, in order.  `generation` is not a variable: a fetch of an     *)
(* earlier one is dropped when it is answered, so it is dropped here when   *)
(* the generation is bumped.                                                *)
(***************************************************************************)
EXTENDS Naturals, Sequences, SequencesExt

CONSTANTS
  LastSentence, \* sentences of the book (bound)
  MaxPresses,   \* buttons of the session pressed (bound)
  MaxTurns,     \* pages turned, faults of the web view and the engine (bound)
  MaxAudio      \* buttons of the audio player pressed (bound)

ASSUME SpeechAssumption ==
  {LastSentence, MaxPresses, MaxTurns, MaxAudio} \subseteq Nat /\ LastSentence # 0

VARIABLES
  ios,        \* PAUSE_RESUME_SUPPORTED
  speech,     \* liveStatus, awaitingUtterance, and the sentences the session holds
  fetches,    \* fetches of this generation whose answer the session applies
  engine,     \* the speech engine: what it has been given, begun and suspended
  events,     \* tts-* events under way
  audio,      \* the audiobook player: starting, playing, and wasPlaying
  reports,    \* its playbackStatusUpdate events under way
  pageInView, \* the sentence at the top of the page
  wash,       \* the sentence painted; 0 is none
  reading,    \* the provider exists
  used,       \* how often each bounded thing happened
  overlapped, \* history: an utterance was given while an earlier one was not reported
  left        \* history: the page was turned while all was paused, and not read since

speechVars == <<ios, speech, fetches, engine, events, audio, reports, pageInView, wash, reading, used,
                overlapped, left>>

Sentences == 1..LastSentence
(* `next` is pendingNext: none, still asked for, or there; of `after` + 1.   *)
Session == [status : {"idle", "speaking", "paused", "error"}, awaiting : BOOLEAN,
            now : 0..LastSentence, held : 0..LastSentence, moved : BOOLEAN,
            next : {"none", "asked", "there"}]
Idle == [status |-> "idle", awaiting |-> FALSE, now |-> 0, held |-> 0, moved |-> FALSE,
         next |-> "none"]
(* A fetch of the sentence after this one; 0 is of the page that is shown.  *)
Fetch == 0..LastSentence
Silence == [queue |-> <<>>, begun |-> FALSE, suspended |-> FALSE]
Event == {"start", "finish", "cancel", "pause", "resume", "error"}

SpeechTypeOK ==
  /\ speech \in Session /\ fetches \in Seq(Fetch)
  /\ engine \in [queue : Seq(Sentences), begun : BOOLEAN, suspended : BOOLEAN]
  /\ events \in Seq(Event)
  /\ audio \in [starting : BOOLEAN, on : BOOLEAN, told : BOOLEAN]
  /\ reports \in Seq(BOOLEAN)
  /\ pageInView \in Sentences /\ wash \in 0..LastSentence
  /\ {ios, reading, overlapped, left} \subseteq BOOLEAN
  /\ used \in [presses : 0..MaxPresses, turns : 0..MaxTurns, audio : 0..MaxAudio]

SpeechInit ==
  /\ ios \in BOOLEAN
  /\ speech = Idle /\ fetches = <<>> /\ engine = Silence /\ events = <<>>
  /\ audio = [starting |-> FALSE, on |-> FALSE, told |-> FALSE] /\ reports = <<>>
  /\ pageInView = 1 /\ wash = 0
  /\ reading = TRUE /\ overlapped = FALSE /\ left = FALSE
  /\ used = [presses |-> 0, turns |-> 0, audio |-> 0]

Uses(what, most) == used[what] < most /\ used' = [used EXCEPT ![what] = @ + 1]
Voice == engine.begun /\ ~engine.suspended
AllPaused ==
  /\ speech.status = "paused" /\ events = <<>>
  /\ engine.suspended \/ engine.queue = <<>>

-----------------------------------------------------------------------------
(* The speech engine                                                        *)

Reported == IF engine.begun THEN Append(events, "cancel") ELSE events

Begins ==
  /\ engine.queue # <<>> /\ ~engine.begun
  /\ engine' = [engine EXCEPT !.begun = TRUE]
  /\ events' = Append(events, "start")
  /\ UNCHANGED <<speech, fetches, audio, reports, pageInView, wash, reading, used, overlapped, left>>

Ends ==
  /\ Voice
  /\ engine' = [engine EXCEPT !.queue = Tail(@), !.begun = FALSE]
  /\ \/ events' = Append(events, "finish") /\ used' = used
     \/ ~ios /\ Uses("turns", MaxTurns) /\ events' = Append(events, "error")
  /\ UNCHANGED <<speech, fetches, audio, reports, pageInView, wash, reading, overlapped, left>>

-----------------------------------------------------------------------------
(* The session                                                              *)

(* pauseActiveAudio(): the player reports that it stopped.                  *)
AudioPaused ==
  /\ audio' = [audio EXCEPT !.on = FALSE]
  /\ reports' = IF audio.on THEN Append(reports, FALSE) ELSE reports
AudioKept == UNCHANGED <<audio, reports>>

(* stopInternal().                                                          *)
StopsWith(status) ==
  /\ speech' = [Idle EXCEPT !.status = status]
  /\ fetches' = <<>>
  /\ wash' = 0
  /\ engine' = Silence
  /\ events' = Reported

(* speakSentence(): the next sentence is asked for at once.                 *)
Speaks(s) ==
  /\ AudioPaused
  /\ speech' = [speech EXCEPT !.now = s, !.awaiting = TRUE, !.next = "asked", !.held = 0]
  /\ engine' = [engine EXCEPT !.queue = Append(@, s)]
  /\ overlapped' = (overlapped \/ engine.queue # <<>> \/ events # <<>>)
  /\ UNCHANGED <<events, wash>>

(* applyFetchResult(): the sentence, or the end of the book.                *)
Applied(s) ==
  \/ s \in Sentences /\ Speaks(s)
  \/ s \notin Sentences /\ StopsWith("idle") /\ AudioKept /\ overlapped' = overlapped

(* The answer to a fetch, which may fail; the page may be another by then.  *)
Answers(i) ==
  LET s == IF fetches[i] = 0 THEN pageInView ELSE fetches[i] + 1 IN
  /\ left' = (left /\ fetches[i] # 0)
  /\ \/ Applied(s) /\ used' = used
        /\ (s \in Sentences => fetches' = RemoveAt(fetches, i))
     \/ /\ Uses("turns", MaxTurns)
        /\ StopsWith("error") /\ AudioKept /\ overlapped' = overlapped
     \/ /\ Uses("turns", MaxTurns)      \* invalidAnchor
        /\ fetches' = [fetches EXCEPT ![i] = 0] /\ fetches[i] # 0
        /\ AudioKept /\ UNCHANGED <<speech, engine, events, wash, overlapped>>
  /\ UNCHANGED <<pageInView, reading>>

(* The prefetched sentence is there before its turn.                        *)
Prefetched ==
  /\ speech.next = "asked"
  /\ speech' = [speech EXCEPT !.next = "there"]
  /\ UNCHANGED <<fetches, engine, events, audio, reports, pageInView, wash, reading, used,
                 overlapped, left>>

(* 'navigated': what belongs to the place that was left is dropped.         *)
LeftPlace ==
  [speech EXCEPT !.next = "none", !.held = 0, !.moved = @ \/ speech.status = "paused"]

Turn ==
  /\ reading /\ Uses("turns", MaxTurns)
  /\ pageInView' \in Sentences
  /\ speech' = LeftPlace
  /\ fetches' = <<>>
  /\ wash' = 0
  /\ left' = (left \/ AllPaused)
  /\ UNCHANGED <<engine, events, audio, reports, reading, overlapped>>

(* play().                                                                  *)
Play ==
  /\ reading /\ speech.status # "speaking" /\ Uses("presses", MaxPresses)
  /\ \/ /\ speech.status = "paused" /\ ~speech.moved /\ ios         \* Tts.resume()
        /\ AudioPaused
        /\ IF engine.suspended
           THEN /\ engine' = [engine EXCEPT !.suspended = FALSE]
                /\ events' = Append(events, "resume")
           ELSE UNCHANGED <<engine, events>>
        /\ UNCHANGED <<speech, fetches, overlapped, wash>>
     \/ /\ speech.status = "paused" /\ ~speech.moved /\ ~ios /\ speech.held # 0
        /\ Speaks(speech.held) /\ fetches' = fetches
     \/ /\ ~(speech.status = "paused" /\ ~speech.moved /\ (ios \/ speech.held # 0))
        /\ AudioPaused
        /\ IF speech.status = "paused" /\ speech.moved
           THEN /\ speech' = [speech EXCEPT !.moved = FALSE, !.held = 0]
                /\ engine' = IF ios THEN Silence ELSE engine
                /\ events' = IF ios THEN Reported ELSE events
           ELSE UNCHANGED <<speech, engine, events>>
        /\ fetches' = Append(fetches, 0)
        /\ UNCHANGED <<overlapped, wash>>
  /\ UNCHANGED <<pageInView, reading, left>>

(* pause(): native on iOS; on Android a stop that remembers the sentence.   *)
Pause ==
  /\ reading /\ speech.status = "speaking" /\ speech.awaiting
  /\ Uses("presses", MaxPresses)
  /\ IF ios
     THEN /\ engine' = [engine EXCEPT !.suspended = engine.begun]
          /\ events' = IF Voice THEN Append(events, "pause") ELSE events
          /\ speech' = speech
     ELSE /\ speech' = [speech EXCEPT !.awaiting = FALSE, !.held = speech.now,
                                      !.status = "paused"]
          /\ engine' = Silence /\ events' = Reported
  /\ UNCHANGED <<fetches, audio, reports, pageInView, wash, reading, overlapped, left>>

(* The Stop button, off while the status is idle; the app in the background. *)
Stop ==
  /\ reading
  /\ \/ speech.status # "idle" /\ Uses("presses", MaxPresses)
     \/ Uses("turns", MaxTurns)
  /\ StopsWith("idle")
  /\ UNCHANGED <<audio, reports, pageInView, reading, overlapped, left>>

(* The book is closed, or reading aloud switched off.                       *)
CloseBook ==
  /\ reading /\ reading' = FALSE
  /\ StopsWith("idle")
  /\ UNCHANGED <<audio, reports, pageInView, used, overlapped, left>>

(* Mutant: the audiobook is left alone.                                     *)
HearsStartOver ==
  IF speech.awaiting
  THEN /\ AudioKept
       /\ speech' = [speech EXCEPT !.status = "speaking"]
       /\ wash' = speech.now
       /\ UNCHANGED <<fetches, engine, overlapped>>
  ELSE AudioKept /\ UNCHANGED <<speech, fetches, engine, wash, overlapped>>

(* A tts-* event; most count only while an utterance is awaited.            *)
HearsStart ==
  IF speech.awaiting
  THEN /\ AudioPaused
       /\ speech' = [speech EXCEPT !.status = "speaking"]
       /\ wash' = speech.now
       /\ UNCHANGED <<fetches, engine, overlapped>>
  ELSE AudioKept /\ UNCHANGED <<speech, fetches, engine, wash, overlapped>>

HearsFinish ==
  LET s == speech.now + 1
      done == [speech EXCEPT !.awaiting = FALSE, !.next = "none"]
  IN
  \/ /\ ~speech.awaiting
     /\ UNCHANGED <<speech, fetches, engine, wash, overlapped>> /\ AudioKept
  \/ /\ speech.awaiting        \* the last of its chapter, or the prefetch was dropped
     /\ speech' = Idle /\ fetches' = <<>> /\ wash' = 0 /\ engine' = Silence
     /\ AudioKept /\ overlapped' = overlapped
  \/ /\ speech.awaiting /\ speech.next = "asked"
     /\ speech' = done /\ fetches' = Append(fetches, speech.now)
     /\ AudioKept /\ UNCHANGED <<engine, wash, overlapped>>
  \/ /\ speech.awaiting /\ speech.next = "there"
     /\ IF s \in Sentences
        THEN /\ speech' = [done EXCEPT !.now = s, !.awaiting = TRUE, !.next = "asked"]
             /\ engine' = [engine EXCEPT !.queue = Append(@, s)]
             /\ overlapped' = (overlapped \/ engine.queue # <<>> \/ Len(events) > 1)
             /\ AudioPaused /\ UNCHANGED <<fetches, wash>>
        ELSE /\ speech' = Idle /\ fetches' = <<>> /\ wash' = 0 /\ engine' = Silence
             /\ AudioKept /\ overlapped' = overlapped

Hears ==
  /\ events # <<>> /\ reading
  /\ LET e == Head(events) IN
     \/ e = "start" /\ HearsStart
     \/ e = "finish" /\ HearsFinish
     \/ /\ e \in {"cancel", "pause", "resume"}
        /\ speech' = IF e = "cancel" THEN [speech EXCEPT !.awaiting = FALSE]
                     ELSE IF ~speech.awaiting THEN speech
                     ELSE [speech EXCEPT !.status = IF e = "pause" THEN "paused" ELSE "speaking"]
        /\ AudioKept /\ UNCHANGED <<fetches, engine, wash, overlapped>>
     \/ /\ e = "error"
        /\ IF speech.awaiting
           THEN /\ speech' = [Idle EXCEPT !.status = "error"]
                /\ fetches' = <<>> /\ wash' = 0 /\ engine' = Silence
           ELSE UNCHANGED <<speech, fetches, wash, engine>>
        /\ AudioKept /\ overlapped' = overlapped
  /\ events' = IF engine.begun /\ engine' = Silence THEN Append(Tail(events), "cancel")
               ELSE Tail(events)
  /\ UNCHANGED <<pageInView, reading, used, left>>

-----------------------------------------------------------------------------
(* The audiobook player                                                     *)

(* stopActiveTts(): of a session that is not idle.                          *)
ActiveSession == speech.status # "idle"
TtsStopped ==
  IF reading /\ ActiveSession THEN StopsWith("idle")
  ELSE UNCHANGED <<speech, fetches, wash, engine, events>>

(* beginPlayback(): the session is stopped, then the audio mode awaited.    *)
AudioPressed ==
  /\ ~audio.on /\ ~audio.starting /\ Uses("audio", MaxAudio)
  /\ TtsStopped
  /\ audio' = [audio EXCEPT !.starting = TRUE]
  /\ UNCHANGED <<reports, pageInView, reading, overlapped, left>>

(* Playing starts: after that, or from the lock screen.                     *)
AudioStarts ==
  /\ ~audio.on
  /\ \/ audio.starting /\ used' = used
     \/ Uses("audio", MaxAudio)
  /\ audio' = [audio EXCEPT !.on = TRUE, !.starting = FALSE]
  /\ reports' = Append(reports, TRUE)
  /\ UNCHANGED <<speech, fetches, engine, events, pageInView, wash, reading, overlapped, left>>

AudioStops ==
  /\ audio.on /\ AudioPaused
  /\ UNCHANGED <<speech, fetches, engine, events, pageInView, wash, reading, used, overlapped, left>>

(* playbackStatusUpdate: an edge to playing stops the session.              *)
AudioReports ==
  /\ reports # <<>> /\ reports' = Tail(reports)
  /\ audio' = [audio EXCEPT !.told = Head(reports)]
  /\ IF Head(reports) /\ ~audio.told THEN TtsStopped
     ELSE UNCHANGED <<speech, fetches, wash, engine, events>>
  /\ UNCHANGED <<pageInView, reading, used, overlapped, left>>

SpeechStep ==
  \/ Begins \/ Ends \/ Prefetched \/ Turn \/ Play \/ Pause \/ Stop \/ CloseBook \/ Hears
  \/ \E i \in DOMAIN fetches : Answers(i)
  \/ AudioPressed \/ AudioStarts \/ AudioStops \/ AudioReports

SpeechNext == SpeechStep /\ ios' = ios

SpeechSpec == SpeechInit /\ [][SpeechNext]_speechVars

-----------------------------------------------------------------------------
(* Properties *)

(* Speech and an audiobook are heard together only until a report under way *)
(* stops one of them, as long as no utterance overlapped another.           *)
OneSourceHeard ==
  ~overlapped /\ Voice /\ audio.on =>
    (speech.awaiting /\ Contains(events, "start")) \/ Contains(reports, TRUE)

(* What is painted is what is spoken, once the engine's reports are in.     *)
WashFollowsVoice ==
  ~overlapped /\ Voice /\ events = <<>> /\ wash # 0 => wash = Head(engine.queue)

(* The engine is silent once the session says that it is idle: its Stop     *)
(* button is off then.                                                      *)
IdleIsSilent ==
  ~overlapped /\ events = <<>> /\ speech.status \in {"idle", "error"} /\ ~speech.awaiting
    => engine.queue = <<>>

(* A reader who turned the page while paused is not read on from the page   *)
(* that was left.                                                           *)
LeftPageIsNotRead == ~overlapped /\ left /\ events = <<>> => ~Voice

(* The voice is the one the session speaks of: not heard over an audiobook, *)
(* nor behind a session that is idle, nor of another sentence than the one  *)
(* painted, nor of a page that was left (useTtsSession, audioTtsCoordinator). *)
VoiceFollowsSession ==
  OneSourceHeard /\ WashFollowsVoice /\ IdleIsSilent /\ LeftPageIsNotRead

(* audioTtsCoordinator.ts:7: "this coordinator guarantees that ONLY ONE     *)
(* audio source runs at a time".                                            *)
NeverBothHeard == ~(Voice /\ audio.on /\ events = <<>> /\ reports = <<>>)
=============================================================================
