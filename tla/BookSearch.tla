----------------------------- MODULE BookSearch -----------------------------
(***************************************************************************)
(* Searching inside a book: the index that is built from its text           *)
(* (extractor.ts, buildIndex.ts), the query of one term (queryIndex.ts),    *)
(* and the panel's hook, which asks for it and may be asked again before    *)
(* the answer comes (useBookSearch.ts).  A book is a sequence of units      *)
(* (pages, or text nodes), each a sequence of words.                        *)
(***************************************************************************)
EXTENDS Naturals, FiniteSets, SequencesExt

CONSTANTS
  Vocabulary,   \* the words of a book, and of the terms
  Units,        \* units of a book (bound)
  UnitLength,   \* words of a unit, at most (bound)
  TermLength,   \* words of a term, at most (bound)
  MaxAsked      \* searches of one behaviour (bound)

ASSUME BookSearchAssumption == {Units, UnitLength, TermLength, MaxAsked} \subseteq Nat

Terms == BoundedSeq(Vocabulary, TermLength)
Texts == [1..Units -> BoundedSeq(Vocabulary, UnitLength)]

-----------------------------------------------------------------------------
(* The index and the query                                                  *)

(* Where words stand in a text, and which comes first.                      *)
WordPlaces(text) ==
  {p \in (1..Units) \X (1..UnitLength) : p[2] \in DOMAIN text[p[1]]}

WordsBefore(text, u) == Cardinality({p \in WordPlaces(text) : p[1] < u})

(* A posting: the unit and the place in it a word stands at, and the word's *)
(* ordinal in the whole book.                                               *)
Entries(text) ==
  {[word |-> text[p[1]][p[2]], unit |-> p[1], place |-> p[2],
    seq |-> WordsBefore(text, p[1]) + p[2]] : p \in WordPlaces(text)}

(* buildIndexFromEntries(): the postings of a word.                         *)
Postings(text, word) == {p \in Entries(text) : p.word = word}

(* readingOrder(), and the postings of a set sorted by it: as many stand    *)
(* before the k-th as its place in the sequence says.                       *)
Precedes(p, q) == p.unit < q.unit \/ (p.unit = q.unit /\ p.place < q.place)
Preceding(S, p) == {q \in S : Precedes(q, p)}
InReadingOrder(S) ==
  [k \in 1..Cardinality(S) |-> CHOOSE p \in S : Cardinality(Preceding(S, p)) = k - 1]

(* Mutant: a phrase may run on from one unit into the next.                 *)
FollowedAcross(text, p, word, i) ==
  \E q \in Entries(text) : q.word = word /\ q.seq = p.seq + i

(* Side by side: the words have consecutive ordinals in one unit.           *)
Followed(text, p, word, i) ==
  \E q \in Entries(text) : q.word = word /\ q.unit = p.unit /\ q.seq = p.seq + i

(* queryIndex(): the postings of the first word that every other word of    *)
(* the term follows; nothing for a term without words.                      *)
Matching(text, term) ==
  {p \in Postings(text, term[1]) : \A i \in 1..(Len(term) - 1) : Followed(text, p, term[i + 1], i)}

QueryIndex(text, term) ==
  IF term = <<>> THEN <<>> ELSE InReadingOrder(Matching(text, term))

-----------------------------------------------------------------------------
(* The panel                                                                *)

VARIABLES
  book,      \* its text, and whether the package in memory has an index of it
  panel,     \* the hook's state
  latest,    \* requestSeqRef
  asking,    \* submissions under way: number, term, and what each waits for
  onScreen   \* mountedRef

bookSearchVars == <<book, panel, latest, asking, onScreen>>

BookSearchTypeOK ==
  /\ book \in [text : Texts, indexed : BOOLEAN]
  /\ panel.status \in {"idle", "searching", "done", "failed"}
  /\ {panel.query, panel.submitted} \subseteq Terms
  /\ panel.active \in 0..Len(panel.hits) /\ panel.indexMissing \in BOOLEAN
  /\ latest \in Nat /\ onScreen \in BOOLEAN
  /\ asking \subseteq [number : Nat, term : Terms, waits : {"query", "presence"}]

Nothing == [query |-> <<>>, submitted |-> <<>>, hits |-> <<>>, active |-> 0,
            status |-> "idle", indexMissing |-> FALSE]

BookSearchInit ==
  /\ book \in [text : Texts, indexed : BOOLEAN]
  /\ panel = Nothing /\ latest = 0 /\ asking = {} /\ onScreen = TRUE

SetQuery(term) ==
  /\ onScreen /\ term # panel.query /\ panel' = [panel EXCEPT !.query = term]
  /\ latest < MaxAsked  \* bound: typed only while it can still be asked
  /\ UNCHANGED <<book, latest, asking, onScreen>>

(* submit() of a term that has words: it supersedes what is under way; the  *)
(* hits shown stay until the answer.                                        *)
SubmitTerm ==
  /\ onScreen /\ panel.query # <<>> /\ latest < MaxAsked
  /\ latest' = latest + 1
  /\ panel' = [panel EXCEPT !.status = "searching", !.submitted = panel.query]
  /\ asking' = asking \union {[number |-> latest', term |-> panel.query, waits |-> "query"]}
  /\ UNCHANGED <<book, onScreen>>

(* submit() of a blank, and clear().                                        *)
Resets(query) ==
  /\ onScreen /\ latest < MaxAsked
  /\ latest' = latest + 1 /\ panel' = [Nothing EXCEPT !.query = query]
  /\ UNCHANGED <<book, asking, onScreen>>

SubmitBlank == panel.query = <<>> /\ Resets(panel.query)
ClearPanel == panel # Nothing /\ Resets(<<>>)

SelectHit ==
  /\ onScreen /\ \E k \in DOMAIN panel.hits : panel' = [panel EXCEPT !.active = k]
  /\ UNCHANGED <<book, latest, asking, onScreen>>

LeaveBook ==
  /\ onScreen /\ onScreen' = FALSE
  /\ UNCHANGED <<book, panel, latest, asking>>

Current(a) == onScreen /\ a.number = latest

(* queryBookIndex() answers: nothing without an index.  An empty answer is  *)
(* followed by the question whether there is one.                           *)
Found(a) == IF book.indexed THEN QueryIndex(book.text, a.term) ELSE <<>>

(* Mutant: the match that is marked stays the one it was.                   *)
ShowsHitsKeepingPlace(hits) ==
  panel' = [panel EXCEPT !.hits = hits, !.status = "done",
                         !.indexMissing = IF hits = <<>> THEN @ ELSE FALSE]

ShowsHits(hits) ==
  panel' = [panel EXCEPT !.hits = hits, !.active = 0, !.status = "done",
                         !.indexMissing = IF hits = <<>> THEN @ ELSE FALSE]

QueryAnswers(a) ==
  /\ a \in asking /\ a.waits = "query"
  /\ \/ /\ ~Current(a) /\ asking' = asking \ {a} /\ UNCHANGED panel
     \/ /\ Current(a)
        /\ ShowsHits(Found(a))
        /\ asking' = (asking \ {a}) \union
             {[b EXCEPT !.waits = "presence"] : b \in {c \in {a} : Found(c) = <<>>}}
  /\ UNCHANGED <<book, latest, onScreen>>

(* bookHasIndex(): true when it cannot be told.                             *)
PresenceAnswers(a) ==
  /\ a \in asking /\ a.waits = "presence" /\ asking' = asking \ {a}
  /\ panel' = IF Current(a) THEN [panel EXCEPT !.indexMissing = ~book.indexed] ELSE panel
  /\ UNCHANGED <<book, latest, onScreen>>

SearchBreaks(a) ==
  /\ a \in asking /\ asking' = asking \ {a}
  /\ panel' = IF ~Current(a) THEN panel
              ELSE IF a.waits = "presence" THEN [panel EXCEPT !.indexMissing = FALSE]
              ELSE [panel EXCEPT !.hits = <<>>, !.active = 0, !.status = "failed",
                                 !.indexMissing = FALSE]
  /\ UNCHANGED <<book, latest, onScreen>>

BookSearchNext ==
  \/ \E term \in Terms : SetQuery(term)
  \/ SubmitTerm \/ SubmitBlank \/ ClearPanel \/ SelectHit \/ LeaveBook
  \/ \E a \in asking : QueryAnswers(a) \/ PresenceAnswers(a) \/ SearchBreaks(a)

BookSearchSpec == BookSearchInit /\ [][BookSearchNext]_bookSearchVars

-----------------------------------------------------------------------------
(* Properties                                                               *)

(* Where a term stands in a text, word for word, said without an index.     *)
Occurs(text, term, u, k) ==
  /\ k + Len(term) - 1 <= Len(text[u])
  /\ \A i \in 1..Len(term) : text[u][k + i - 1] = term[i]

Occurrences(text, term) ==
  {p \in (1..Units) \X (1..UnitLength) : term # <<>> /\ Occurs(text, term, p[1], p[2])}

(* The hits of a search that is done are the places where the term it was   *)
(* submitted for stands in the book, each once and in the order of reading, *)
(* whichever searches were under way at once (useBookSearch.ts: an answer   *)
(* that lost the race is dropped; queryIndex.ts: a phrase is a sequence of  *)
(* words of one unit).                                                      *)
HitsAreTheOccurrences ==
  panel.status = "done" =>
    /\ {<<panel.hits[k].unit, panel.hits[k].place>> : k \in DOMAIN panel.hits}
         = IF book.indexed THEN Occurrences(book.text, panel.submitted) ELSE {}
    /\ \A k \in DOMAIN panel.hits : k > 1 =>
         panel.hits[k - 1].seq < panel.hits[k].seq

(* useBookSearch.ts:46 says of indexMissing "Only ever true alongside       *)
(* status === 'done' and no hits", and that it is not about the word.       *)
MissingOnlyWhenDone == panel.indexMissing => panel.status = "done" /\ panel.hits = <<>>

(* SearchPanel.tsx:198 tells the reader of a search for several words that  *)
(* it "lists every occurrence ... in chapters that contain all of them":    *)
(* a unit that has every word of the term is among the hits.                *)
EveryUnitWithAllTheWords ==
  panel.status = "done" /\ book.indexed =>
    \A u \in 1..Units :
      (panel.submitted # <<>> /\ Range(panel.submitted) \subseteq Range(book.text[u])) =>
        \E k \in DOMAIN panel.hits : panel.hits[k].unit = u
=============================================================================
