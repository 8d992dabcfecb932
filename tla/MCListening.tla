---------------------------- MODULE MCListening ----------------------------
(* The audio queue, reading aloud, the sleep timer and the page that shows   *)
(* what is read in one model for TLC: `machine` says which of them a         *)
(* behaviour is of, and the others stay as they start.                      *)
EXTENDS AudioQueue, SpeechSession, SleepTimer, EpubPage, TLC

CONSTANTS t1, t2, t3

VARIABLE machine

vars == <<audioVars, speechVars, sleepVars, pageVars, machine>>

(* Two chapters: a sentence in the first and two words of it, of which one   *)
(* is also a highlight and a search match; a highlight in the second, at     *)
(* the place of one of the sentence's words.                                *)
HighlightPlaces ==
  "own" :> [chapter |-> 1, words |-> {2, 3}] @@ "other" :> [chapter |-> 2, words |-> {1}]
ReadSentences == {[chapter |-> 1, words |-> {1, 2, 3}]}
ReadWords == {[chapter |-> 1, words |-> {2}], [chapter |-> 1, words |-> {2, 3}]}
FoundMatches == {[chapter |-> 1, words |-> {2, 3}]}

Symmetry == Permutations({t1, t2, t3})

Init ==
  /\ machine \in {"audio", "speech", "sleep", "page"}
  /\ AudioInit /\ SpeechInit /\ SleepInit /\ PageInit
  /\ machine # "speech" => ios
  /\ machine # "page" => looks.wanted = "paginated"

Next ==
  /\ machine' = machine
  /\ \/ machine = "audio" /\ AudioNext /\ UNCHANGED <<speechVars, sleepVars, pageVars>>
     \/ machine = "speech" /\ SpeechNext /\ UNCHANGED <<audioVars, sleepVars, pageVars>>
     \/ machine = "sleep" /\ SleepNext /\ UNCHANGED <<audioVars, speechVars, pageVars>>
     \/ machine = "page" /\ PageNext /\ UNCHANGED <<audioVars, speechVars, sleepVars>>

Spec == Init /\ [][Next]_vars

TypeOK ==
  CASE machine = "audio"  -> AudioTypeOK
    [] machine = "speech" -> SpeechTypeOK
    [] machine = "sleep"  -> SleepTypeOK
    [] machine = "page"   -> PageTypeOK
=============================================================================
