---------------------------- MODULE MCBorrowing ----------------------------
(* A book on its way to its reader, for TLC: the three searches, the offers *)
(* of the queue, the downloads and their transfer.                          *)
(* They share no state; `machine` says which of them a behaviour is of, and *)
(* the others stay as they start.  The offers are checked twice: as "offers",*)
(* two titles, answered by the card and a page, one poll at a time, and      *)
(* nothing lost; as "polls", one title and the card, and polls that overlap,*)
(* die with the app and, while one offer was made, fail.                    *)
EXTENDS CatalogueSearch, VoiceSearch, BookSearch, Offers, Downloads, ChunkedFetch, TLC

CONSTANTS x1, x2, c1, c2

VARIABLE machine

(* x1 and x2: queries, words, titles and books.                             *)
Symmetry == Permutations({x1, x2}) \union Permutations({c1, c2})

Lengths == [v \in Versions |-> IF v = "short" THEN 2 ELSE IF v = "long" THEN 3 ELSE 4]

searching == <<searchVars, voiceVars, bookSearchVars>>
borrowing == <<offerVars, downloadVars, fetchVars>>

Init ==
  /\ machine \in {"catalogue", "voice", "book", "offers", "polls", "downloads", "fetch"}
  /\ SearchInit /\ VoiceInit /\ BookSearchInit
  /\ OffersInit /\ DownloadInit /\ FetchInit
  /\ machine # "book" => book = [text |-> [u \in 1..Units |-> <<>>], indexed |-> FALSE]
  /\ machine # "fetch" => served = "short"

(* Bounds on the steps of the offers, and of three downloads.                *)
OnePoll ==
  misses' = 0 /\ restarts' = 0 /\ Cardinality({t \in Ticks : tick'[t] # NoTick}) <= 1
OneTitle ==
  /\ Cardinality({b \in Titles : holding'[b] # "none" \/ offered'[b] # 0}) <= 1
  /\ reply'["page"] = NoReply
  /\ misses' > 0 => grants' <= 1
FewDisturbances ==
  spent'.starts > 2 => spent'.deletions + spent'.other + spent'.restarts <= 1

Next ==
  /\ machine' = machine
  /\ \/ machine = "catalogue" /\ SearchNext /\ UNCHANGED <<voiceVars, bookSearchVars, borrowing>>
     \/ machine = "voice" /\ VoiceNext /\ UNCHANGED <<searchVars, bookSearchVars, borrowing>>
     \/ machine = "book" /\ BookSearchNext /\ UNCHANGED <<searchVars, voiceVars, borrowing>>
     \/ machine = "offers" /\ OffersNext /\ OnePoll
          /\ UNCHANGED <<searching, downloadVars, fetchVars>>
     \/ machine = "polls" /\ OffersNext /\ OneTitle
          /\ UNCHANGED <<searching, downloadVars, fetchVars>>
     \/ machine = "downloads" /\ DownloadNext /\ FewDisturbances
          /\ UNCHANGED <<searching, offerVars, fetchVars>>
     \/ machine = "fetch" /\ FetchNext
          /\ UNCHANGED <<searching, offerVars, downloadVars>>

vars == <<searching, borrowing, machine>>

Spec == Init /\ [][Next]_vars

TypeOK ==
  CASE machine = "catalogue" -> SearchTypeOK
    [] machine = "voice"     -> VoiceTypeOK
    [] machine = "book"      -> BookSearchTypeOK
    [] machine \in {"offers", "polls"} -> OffersTypeOK
    [] machine = "downloads" -> DownloadTypeOK
    [] machine = "fetch"     -> FetchTypeOK
=============================================================================
