----------------------------- MODULE SleepTimer -----------------------------
(***************************************************************************)
(* The sleep timer (sleepTimerEngine.ts, sleepTimerStore.ts), the local     *)
(* notification of its deadline (sleepTimerNotifications.ts), and what      *)
(* switching text to speech on and off does to the audiobook meanwhile      *)
(* (audioTtsCoordinator.ts).                                                *)
(***************************************************************************)
EXTENDS Naturals, FiniteSets

CONSTANTS
  MaxStarts,   \* timers started (bound)
  MaxPlays,    \* times playing is asked for (bound)
  MaxToggles   \* times text to speech is switched (bound)

ASSUME SleepAssumption == {MaxStarts, MaxPlays, MaxToggles} \subseteq Nat

VARIABLES
  timer,      \* phase, pausedForTts, and whether the deadline has passed
  armed,      \* the timer started last
  schedule,   \* timer -> its scheduleSleepTimerNotification()
  kept,       \* scheduledNotificationId; 0 is null
  posted,     \* notifications the system will show
  listening,  \* the audiobook: playing, about to play, and why it paused last
  resuming,   \* resumeAudioAfterTts() waits for the audio mode
  tts,        \* text to speech: off, its alert shown, on
  taken,      \* how often each bounded thing happened
  outrun,     \* history: a timer ended while its notification was being scheduled
  asked,      \* history: playing was asked for, and not fulfilled before the timer fired
  retaken     \* history: the listener played on after the pause for text to speech

sleepVars == <<timer, armed, schedule, kept, posted, listening, resuming, tts, taken,
               outrun, asked, retaken>>
notificationVars == <<schedule, kept, posted, outrun>>

Timers == 1..MaxStarts

SleepTypeOK ==
  /\ timer \in [phase : {"idle", "running", "fired"}, forTts : BOOLEAN, due : BOOLEAN]
  /\ {armed, kept} \subseteq 0..MaxStarts /\ posted \subseteq Timers
  /\ schedule \in [Timers -> {"none", "permission", "cancelled", "posting"}]
  /\ listening \in [on : BOOLEAN, loading : BOOLEAN, by : {"nobody", "user", "tts", "timer"}]
  /\ {resuming, outrun, asked, retaken} \subseteq BOOLEAN
  /\ tts \in {"off", "alert", "on"}
  /\ taken \in [plays : 0..MaxPlays, toggles : 0..MaxToggles]

NoTimer == [phase |-> "idle", forTts |-> FALSE, due |-> FALSE]

SleepInit ==
  /\ timer = NoTimer /\ armed = 0
  /\ schedule = [n \in Timers |-> "none"] /\ kept = 0 /\ posted = {}
  /\ listening = [on |-> FALSE, loading |-> FALSE, by |-> "nobody"]
  /\ resuming = FALSE /\ tts = "off"
  /\ taken = [plays |-> 0, toggles |-> 0]
  /\ outrun = FALSE /\ asked = FALSE /\ retaken = FALSE

Spends(what, most) == taken[what] < most /\ taken' = [taken EXCEPT ![what] = @ + 1]
PausedBy(who) == IF listening.on THEN [listening EXCEPT !.on = FALSE, !.by = who] ELSE listening

-----------------------------------------------------------------------------
(* The notification                                                         *)

(* cancelSleepTimerNotification(): of the one whose id is known.            *)
CalledOff == kept' = 0 /\ posted' = posted \ {kept}

(* scheduleSleepTimerNotification(): after the permission, what was         *)
(* scheduled before is called off; then the new one is posted, and its id   *)
(* is kept once that call returns.                                          *)
PermissionAnswered(n) ==
  /\ schedule[n] = "permission"
  /\ \/ schedule' = [schedule EXCEPT ![n] = "none"] /\ UNCHANGED <<kept, posted>>
     \/ schedule' = [schedule EXCEPT ![n] = "cancelled"] /\ CalledOff
  /\ UNCHANGED <<timer, armed, listening, resuming, tts, taken, outrun, asked, retaken>>

Posts(n) ==
  /\ schedule[n] = "cancelled"
  /\ schedule' = [schedule EXCEPT ![n] = "posting"]
  /\ posted' = posted \union {n}
  /\ UNCHANGED <<timer, armed, kept, listening, resuming, tts, taken, outrun, asked, retaken>>

Kept(n) ==
  /\ schedule[n] = "posting"
  /\ schedule' = [schedule EXCEPT ![n] = "none"] /\ kept' = n
  /\ UNCHANGED <<timer, armed, posted, listening, resuming, tts, taken, outrun, asked, retaken>>

(* The system shows it at the deadline it was given.                        *)
ShowsTimer(n) ==
  /\ n \in posted /\ (n = armed => timer.due)
  /\ posted' = posted \ {n}
  /\ UNCHANGED <<timer, armed, schedule, kept, listening, resuming, tts, taken, outrun, asked,
                 retaken>>

-----------------------------------------------------------------------------
(* The timer                                                                *)

(* cancelSleepTimer(), which startSleepTimer() begins with.                 *)
TimerEnds ==
  /\ CalledOff
  /\ outrun' = (outrun \/ \E n \in Timers : schedule[n] # "none")

StartTimer ==
  /\ tts # "alert" /\ timer.phase # "running" /\ armed < MaxStarts
  /\ TimerEnds
  /\ armed' = armed + 1
  /\ timer' = [NoTimer EXCEPT !.phase = "running"]
  /\ schedule' = [schedule EXCEPT ![armed + 1] = "permission"]
  /\ UNCHANGED <<listening, resuming, tts, taken, asked, retaken>>

ResetTimer ==
  /\ tts # "alert" /\ timer.phase # "idle"
  /\ TimerEnds
  /\ timer' = NoTimer
  /\ UNCHANGED <<armed, schedule, listening, resuming, tts, taken, asked, retaken>>

DeadlinePasses ==
  /\ timer.phase = "running" /\ ~timer.due
  /\ timer' = [timer EXCEPT !.due = TRUE]
  /\ UNCHANGED <<armed, notificationVars, listening, resuming, tts, taken, asked, retaken>>

(* fire(), by its timeout or the next change of the app's state.            *)
Hushed == PausedBy("timer")
Fire ==
  /\ timer.phase = "running" /\ timer.due
  /\ timer' = [timer EXCEPT !.phase = "fired", !.forTts = FALSE]
  /\ listening' = Hushed
  /\ asked' = (listening.loading \/ resuming)
  /\ UNCHANGED <<armed, notificationVars, resuming, tts, taken, retaken>>

-----------------------------------------------------------------------------
(* The audiobook and text to speech                                         *)

(* A play button: what it asks for comes after the audio mode, or after a   *)
(* whole transition.                                                        *)
AsksToPlay ==
  /\ ~listening.on /\ ~listening.loading /\ Spends("plays", MaxPlays)
  /\ listening' = [listening EXCEPT !.loading = TRUE]
  /\ asked' = TRUE
  /\ UNCHANGED <<timer, armed, notificationVars, resuming, tts, retaken>>

StartsToPlay ==
  /\ listening.loading
  /\ listening' = [listening EXCEPT !.loading = FALSE, !.on = TRUE]
  /\ retaken' = (retaken \/ timer.forTts \/ resuming)
  /\ UNCHANGED <<timer, armed, notificationVars, resuming, tts, taken, asked>>

UserPauses ==
  /\ listening.on
  /\ listening' = PausedBy("user")
  /\ UNCHANGED <<timer, armed, notificationVars, resuming, tts, taken, asked, retaken>>

(* guardTtsEnableForSleepTimer().                                           *)
SwitchTtsOn ==
  /\ tts = "off" /\ Spends("toggles", MaxToggles)
  /\ IF timer.phase = "running" /\ listening.on
     THEN /\ listening' = PausedBy("tts")
          /\ timer' = [timer EXCEPT !.forTts = TRUE]
          /\ tts' = "alert"
     ELSE UNCHANGED <<listening, timer>> /\ tts' = "on"
  /\ UNCHANGED <<armed, notificationVars, resuming, asked, retaken>>

AlertRead ==
  /\ tts = "alert" /\ tts' = "on"
  /\ UNCHANGED <<timer, armed, notificationVars, listening, resuming, taken, asked, retaken>>

(* Mutant: the mark of an earlier timer counts as well.                     *)
PausedAtAll == timer.phase = "running" /\ ~listening.on

(* resumeAudioIfPausedForSleepTimerTts().                                   *)
MayResume == timer.phase = "running" /\ timer.forTts
SwitchTtsOff ==
  /\ tts = "on" /\ tts' = "off"
  /\ timer' = IF MayResume THEN [timer EXCEPT !.forTts = FALSE] ELSE timer
  /\ resuming' = (resuming \/ MayResume)
  /\ UNCHANGED <<armed, notificationVars, listening, taken, asked, retaken>>

(* resumeCurrentAudioPlayer(), whatever happened while it waited.           *)
Resumes ==
  /\ resuming /\ resuming' = FALSE
  /\ listening' = [listening EXCEPT !.on = TRUE]
  /\ UNCHANGED <<timer, armed, notificationVars, tts, taken, asked, retaken>>

SleepNext ==
  \/ StartTimer \/ ResetTimer \/ DeadlinePasses \/ Fire
  \/ \E n \in Timers : PermissionAnswered(n) \/ Posts(n) \/ Kept(n) \/ ShowsTimer(n)
  \/ AsksToPlay \/ StartsToPlay \/ UserPauses
  \/ SwitchTtsOn \/ AlertRead \/ SwitchTtsOff \/ Resumes

SleepSpec == SleepInit /\ [][SleepNext]_sleepVars

-----------------------------------------------------------------------------
(* Properties *)

(* The system is about to say "Sleep timer is over" for no other timer than *)
(* the one that runs or has fired; unless a timer ended while its           *)
(* notification was still being scheduled.                                  *)
NotifiesForItsTimer ==
  ~outrun => posted \subseteq {armed} /\ (posted # {} => timer.phase # "idle")

(* Nothing is heard once the timer fired, except what was asked for later   *)
(* or was about to play when it fired.                                      *)
SilentOnceFired == timer.phase = "fired" /\ ~asked => ~listening.on

(* Switching text to speech off resumes what switching it on had paused,    *)
(* unless the listener played on in between.                                *)
ResumesThePauseItMade ==
  ~retaken /\ resuming /\ ~listening.on => listening.by \in {"tts", "timer"}

(* A timer and a switch of speech act on what is theirs: their own          *)
(* notification, their own silence, the pause they made.                    *)
TimerActsForItsOwn == NotifiesForItsTimer /\ SilentOnceFired /\ ResumesThePauseItMade

(* audioTtsCoordinator.ts:168: "nothing here ever resumes audio that paused *)
(* for any other reason".                                                   *)
ResumesOnlyItsOwnPause == resuming /\ ~listening.on => listening.by = "tts"

(* cancelSleepTimer(): "Stops the timer and clears everything", "the        *)
(* scheduled notification" among it: one that is still being scheduled is   *)
(* not known yet, and is posted for a timer that is over.                   *)
ClearsItsNotification == posted # {} => timer.phase # "idle"
=============================================================================
