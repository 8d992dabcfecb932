---------------------------- MODULE VoiceSearch ----------------------------
(***************************************************************************)
(* Searching by voice: the reducer (voiceState.ts), the hook that holds the *)
(* microphone (useVoiceSearch.ts), and the device's recogniser, one for the *)
(* whole process, whose events reach the hook in order but some time after  *)
(* what they tell of.                                                       *)
(***************************************************************************)
EXTENDS Naturals, Sequences, Absence

CONSTANTS
  Words,         \* what can be said
  MaxSessions,   \* sessionIds handed out (bound)
  MaxEvents,     \* events of the recogniser on their way (bound)
  MaxHeard       \* partial results of one session (bound)

ASSUME VoiceAssumption ==
  /\ {MaxSessions, MaxEvents, MaxHeard} \subseteq Nat
  /\ None \notin Words \union Nat

VARIABLES
  voice,      \* status, transcript, sessionId
  taken,      \* issued: the session the effect acted on last
  active,     \* activeRef: the session the events are taken to be of
  there,      \* live: the screen is there
  prompts,    \* sessions whose permission is being asked
  mic,        \* the session the recogniser runs for
  events,     \* its events on their way
  partials,   \* count of MaxHeard
  misread     \* history: an event of one session was taken for another's

voiceVars == <<voice, taken, active, there, prompts, mic, events, partials, misread>>

Sessions == 1..MaxSessions
OpenStatuses == {"listening", "processing"}
Kinds == {"start", "result", "speechend", "nomatch", "error", "end"}

VoiceTypeOK ==
  /\ voice \in [status : {"closed", "checkingPermission", "listening", "processing", "done",
                          "noSpeech", "permissionDenied", "failed"},
                transcript : Words \union {None}, sessionId : 0..MaxSessions]
  /\ taken \in 0..MaxSessions
  /\ {active, mic} \subseteq Sessions \union {None}
  /\ there \in BOOLEAN /\ prompts \subseteq Sessions
  /\ events \in Seq([kind : Kinds, session : Sessions, words : Words \union {None}])
  /\ partials \in 0..MaxHeard /\ misread \in BOOLEAN

VoiceInit ==
  /\ voice = [status |-> "closed", transcript |-> None, sessionId |-> 0]
  /\ taken = 0 /\ active = None /\ there = TRUE /\ prompts = {}
  /\ mic = None /\ events = <<>> /\ partials = 0 /\ misread = FALSE

Event(kind, s) == [kind |-> kind, session |-> s, words |-> None]

-----------------------------------------------------------------------------
(* The recogniser                                                           *)

Emits(tail) ==
  /\ Len(events) + Len(tail) <= MaxEvents
  /\ events' = events \o tail

(* abort(): the microphone is closed at once; its events may still trail.   *)
Aborts ==
  /\ mic' = None
  /\ \/ mic = None /\ UNCHANGED events
     \/ /\ mic # None
        /\ \E tail \in {<<>>, <<Event("end", mic)>>, <<Event("error", mic), Event("end", mic)>>} :
             Emits(tail)

(* activeRef.current = null; abort().                                       *)
Disowns == active' = None /\ Aborts

StopsRecognition ==
  \/ active = None /\ UNCHANGED <<active, mic, events>>
  \/ active # None /\ Disowns

Hears(words) ==
  /\ mic # None /\ partials < MaxHeard /\ partials' = partials + 1
  /\ Emits(<<[kind |-> "result", session |-> mic, words |-> words]>>)
  /\ UNCHANGED <<voice, taken, active, there, prompts, mic, misread>>

SpeechEnds ==
  /\ mic # None
  /\ \E tail \in {<<>>, <<Event("nomatch", mic)>>} :
       Emits(<<Event("speechend", mic)>> \o tail \o <<Event("end", mic)>>)
  /\ mic' = None
  /\ UNCHANGED <<voice, taken, active, there, prompts, partials, misread>>

RecogniserFails ==
  /\ mic # None /\ Emits(<<Event("error", mic), Event("end", mic)>>) /\ mic' = None
  /\ UNCHANGED <<voice, taken, active, there, prompts, partials, misread>>

-----------------------------------------------------------------------------
(* What the reader does                                                     *)

Advance(status) ==
  /\ voice.sessionId < MaxSessions
  /\ voice' = [status |-> status, transcript |-> None, sessionId |-> voice.sessionId + 1]

MicPress ==
  /\ there /\ voice.status = "closed" /\ Advance("checkingPermission")
  /\ UNCHANGED <<taken, active, there, prompts, mic, events, partials, misread>>

Cancel ==
  /\ there /\ voice.status # "closed" /\ Advance("closed") /\ StopsRecognition
  /\ UNCHANGED <<taken, there, prompts, partials, misread>>

ClearHeard ==
  /\ there /\ voice.status # "closed" /\ Advance("checkingPermission") /\ StopsRecognition
  /\ UNCHANGED <<taken, there, prompts, partials, misread>>

SubmitHeard ==
  /\ there /\ voice.status # "closed" /\ voice.transcript # None
  /\ Advance("closed") /\ StopsRecognition
  /\ UNCHANGED <<taken, there, prompts, partials, misread>>

(* The screen goes, and the microphone with it.                             *)
Unmount ==
  /\ there /\ there' = FALSE /\ StopsRecognition
  /\ UNCHANGED <<voice, taken, prompts, partials, misread>>

-----------------------------------------------------------------------------
(* The hook                                                                 *)

(* Mutant: the effect does not close the microphone of a session before.    *)
TakesOnly ==
  /\ taken' = voice.sessionId /\ UNCHANGED <<active, mic, events>>
  /\ prompts' = IF voice.status = "checkingPermission"
                THEN prompts \union {voice.sessionId} ELSE prompts

(* The effect, once for each session: no recogniser outlives the session it *)
(* was started for; a session that begins asks for the permission.          *)
Takes ==
  /\ taken' = voice.sessionId
  /\ \/ active \in {None, voice.sessionId} /\ UNCHANGED <<active, mic, events>>
     \/ active \notin {None, voice.sessionId} /\ Disowns
  /\ prompts' = IF voice.status = "checkingPermission"
                THEN prompts \union {voice.sessionId} ELSE prompts

ActOnSession ==
  /\ there /\ taken # voice.sessionId /\ Takes
  /\ UNCHANGED <<voice, there, partials, misread>>

Wanted(s) == there /\ taken = s
Reduces(s, from, to) ==
  voice' = IF voice.sessionId = s /\ voice.status \in from
           THEN [voice EXCEPT !.status = to] ELSE voice

(* The permission is answered, perhaps to a session that is over: before    *)
(* the effect has seen the next one the microphone is opened all the same.  *)
PermissionComes(s) ==
  /\ s \in prompts /\ prompts' = prompts \ {s}
  /\ \/ ~Wanted(s) /\ UNCHANGED <<voice, active, mic, events, partials>>
     \/ /\ Wanted(s) /\ Reduces(s, {"checkingPermission"}, "permissionDenied")
        /\ UNCHANGED <<active, mic, events, partials>>
     \/ /\ Wanted(s) /\ Reduces(s, {"checkingPermission"}, "listening")
        /\ active' = s /\ mic' = s /\ partials' = 0
        /\ Emits(<<Event("start", s)>>)
     \/ /\ Wanted(s)  \* the request or start() throws
        /\ voice' = IF voice.sessionId = s /\ voice.status # "closed"
                    THEN [voice EXCEPT !.status = "failed", !.transcript = None] ELSE voice
        /\ active' = None /\ UNCHANGED <<mic, events, partials>>
  /\ UNCHANGED <<taken, there, misread>>

Mine == voice.sessionId = active
Listening == Mine /\ voice.status \in OpenStatuses

(* What an event does to the state, taken as one of the active session.     *)
Reduced(e) ==
  CASE e.kind = "start" /\ Mine /\ voice.status \in {"checkingPermission", "listening"} ->
         [voice EXCEPT !.status = "listening"]
    [] e.kind = "result" /\ Listening -> [voice EXCEPT !.transcript = e.words]
    [] e.kind = "speechend" /\ Mine /\ voice.status = "listening" ->
         [voice EXCEPT !.status = "processing"]
    [] e.kind = "nomatch" /\ Listening -> [voice EXCEPT !.transcript = None]
    [] e.kind = "end" /\ Listening ->
         [voice EXCEPT !.status = IF voice.transcript = None THEN "noSpeech" ELSE "done"]
    [] e.kind = "error" /\ Mine /\ voice.status # "closed" ->
         [voice EXCEPT !.status = "failed", !.transcript = None]
    [] OTHER -> voice

(* An error or an end disowns the session before it is told.                *)
LetsGo(e) == active' = IF e.kind \in {"error", "end"} THEN None ELSE active

EventComes ==
  /\ there /\ events # <<>> /\ events' = Tail(events)
  /\ LET e == Head(events) IN
       \/ active = None /\ UNCHANGED <<voice, active, misread>>
       \/ /\ active # None /\ voice' = Reduced(e) /\ LetsGo(e)
          /\ misread' = (misread \/ e.session # active)
  /\ UNCHANGED <<taken, there, prompts, mic, partials>>

VoiceNext ==
  \/ MicPress \/ Cancel \/ ClearHeard \/ SubmitHeard \/ Unmount
  \/ ActOnSession \/ EventComes
  \/ \E s \in prompts : PermissionComes(s)
  \/ \E w \in Words : Hears(w)
  \/ SpeechEnds \/ RecogniserFails

VoiceSpec == VoiceInit /\ [][VoiceNext]_voiceVars

-----------------------------------------------------------------------------
(* Properties                                                               *)

(* The microphone runs for the session on the screen, or for nobody: once   *)
(* the effect has seen a cancel, a submission or a new session, and once    *)
(* the screen is gone, the recogniser of the session before is closed       *)
(* (useVoiceSearch.ts:262: a recogniser may not outlive the session that    *)
(* started it), unless an event was taken for another session's.            *)
MicFollowsSession ==
  mic # None /\ ~misread =>
    /\ there /\ active = mic
    /\ taken = voice.sessionId => mic = voice.sessionId /\ voice.status \in OpenStatuses

(* useVoiceSearch.ts:160-167 says of activeRef that events of an aborted    *)
(* session "are dropped at the boundary": none is taken for another's.      *)
TrailingEventsAreDropped == ~misread
=============================================================================
