------------------------------ MODULE EpubPage ------------------------------
(***************************************************************************)
(* The page of the EPUB shell, epub.entry.ts: what is painted over the text  *)
(* of the chapters on screen.  Four layers paint (the reader's highlights,   *)
(* the search match, the sentence and the word read aloud) into one store    *)
(* of epub.js, which knows a mark by its range alone.  The store belongs to  *)
(* a rendition, and a rendition is destroyed, displayed, cleared and         *)
(* reanchored asynchronously, while the host goes on asking for paint.       *)
(*                                                                           *)
(* A range is a chapter and the places of its words.                         *)
(***************************************************************************)
EXTENDS Naturals, Sequences, FiniteSets, SequencesExt, Absence

CONSTANTS
  Chapters,         \* chapters of the book
  Highlights,       \* ids of the reader's highlights
  RangeOf,          \* the range of each highlight
  SpokenSentences,  \* ranges read aloud
  SpokenWords,      \* ranges of their words
  Matches,          \* ranges a search leads to
  MaxAsks           \* what the host and the system ask for (bound)

RangesOf(S) == \A r \in S : DOMAIN r = {"chapter", "words"} /\ r.chapter \in Chapters

ASSUME PageAssumption ==
  /\ 1 \in Chapters /\ IsFiniteSet(Highlights)
  /\ DOMAIN RangeOf = Highlights
  /\ RangesOf({RangeOf[h] : h \in Highlights} \union SpokenSentences \union SpokenWords \union Matches)
ASSUME PageBoundAssumption == MaxAsks \in Nat

Ranges == {RangeOf[h] : h \in Highlights} \union SpokenSentences \union SpokenWords \union Matches
Owners == {"user", "search", "sentence", "word"}
Flows == {"paginated", "scrolled"}
Awaited == {"open", "rebuild", "reanchor"}

VARIABLES
  paint,       \* the rendition's store and marks, and what the shell wants painted
  looks,       \* [wanted, built]: currentFlow(), renditionFlow
  shows,       \* the rendition's displays, and what awaits them
  place,       \* lastCfi: its chapter
  geometry,    \* geometryRaf and geometryReanchor: the frame asked for
  transition,  \* renditionTransitionGeneration
  asks         \* how much was asked for (bound)

pageVars == <<paint, looks, shows, place, geometry, transition, asks>>

Mark == [range : Ranges, owner : Owners, held : BOOLEAN]
Display == [kind : Awaited \union {"move"}, chapter : Chapters, id : 0..(2 * MaxAsks)]

Paint ==
  [filed : [Ranges -> Owners \union {None}], listed : [Chapters -> Seq(Ranges)], marks : Seq(Mark),
   views : SUBSET Chapters, loaded : SUBSET Chapters,
   painted : SUBSET Highlights, last : SUBSET Highlights,
   match : Matches \union {None}, pending : Matches \union {None},
   reported : BOOLEAN \union {None}, landing : BOOLEAN,
   spoken : SpokenSentences \union {None}, word : SpokenWords \union {None},
   clashes : SUBSET {"shared", "early", "unviewed"}]

Shows ==
  [opening : BOOLEAN, queue : Seq(Display), current : Display \union {None},
   due : Seq(Display), late : Seq(Display), located : BOOLEAN, report : BOOLEAN]

PageTypeOK ==
  /\ paint \in Paint /\ paint.loaded \subseteq paint.views /\ paint.painted \subseteq paint.last
  /\ looks \in [wanted : Flows, built : Flows] /\ shows \in Shows
  /\ place \in Chapters \union {None}
  /\ geometry \in {"none", "plain", "reanchor"}
  /\ transition \in 0..(2 * MaxAsks) /\ asks \in 0..MaxAsks

ASSUME AbsenceAssumption ==
  /\ None \notin Chapters /\ None \notin Ranges /\ None \notin Owners
  /\ None \notin Display /\ None \notin BOOLEAN

(* A rendition without a view and without a mark.                            *)
Unpainted(p) ==
  [p EXCEPT !.filed = [r \in Ranges |-> None], !.listed = [c \in Chapters |-> <<>>],
            !.marks = <<>>, !.views = {}, !.loaded = {}]

(* openEpub(): the rendition is made, and its first display asked for.       *)
PageInit ==
  /\ paint = [filed |-> [r \in Ranges |-> None], listed |-> [c \in Chapters |-> <<>>],
              marks |-> <<>>, views |-> {}, loaded |-> {},
              painted |-> {}, last |-> {}, match |-> None, pending |-> None, reported |-> None,
              landing |-> FALSE, spoken |-> None, word |-> None, clashes |-> {}]
  /\ \E f \in Flows : looks = [wanted |-> f, built |-> f]
  /\ shows = [opening |-> TRUE, queue |-> <<[kind |-> "open", chapter |-> 1, id |-> 0]>>,
              current |-> None, due |-> <<>>, late |-> <<>>, located |-> FALSE, report |-> FALSE]
  /\ place = None /\ geometry = "none" /\ transition = 0 /\ asks = 0

-----------------------------------------------------------------------------
(* The store of epub.js.  `filed` is its map, keyed by range; `listed` what  *)
(* it will attach when a chapter's view renders; a view holds one mark per   *)
(* range, the last attached, and can detach no other.                        *)

(* The k-th of a set of places in a sequence, and what stands at them.       *)
Nth(I, k) == CHOOSE i \in I : Cardinality({j \in I : j <= i}) = k
At(s, I) == [k \in 1..Cardinality(I) |-> s[Nth(I, k)]]

(* The marks of ranges, attached one after the other.                        *)
Attached(marks, rs, filed) ==
  [i \in DOMAIN marks |->
     IF marks[i].range \in Range(rs) THEN [marks[i] EXCEPT !.held = FALSE] ELSE marks[i]]
  \o [i \in DOMAIN rs |->
       [range |-> rs[i], owner |-> filed[rs[i]], held |-> \A j \in DOMAIN rs : rs[j] = rs[i] => j <= i]]

Slips(p, rs, owner) ==
  {c \in {"unviewed"} : rs # {} /\ p.views = {}} \union
  {c \in {"shared"} : \E r \in rs : p.filed[r] \notin {owner, None}}

(* highlightAdd(): annotations.add(), for each of a set of ranges.           *)
Added(p, rs, owner) ==
  LET filed == [r \in Ranges |-> IF r \in rs THEN owner ELSE p.filed[r]] IN
  [p EXCEPT !.filed = filed,
            !.listed = [c \in Chapters |-> p.listed[c] \o SetToSeq({r \in rs : r.chapter = c})],
            !.marks = Attached(@, SetToSeq({r \in rs : r.chapter \in p.loaded}), filed),
            !.clashes = @ \union Slips(p, rs, owner)]

(* highlightRemove(): annotations.remove(), which takes the range off the    *)
(* list once per view, and so not at all without one.                        *)
Removed(p, rs, owner) ==
  LET gone == {r \in rs : p.filed[r] # None} IN
  [p EXCEPT !.filed = [r \in Ranges |-> IF r \in gone THEN None ELSE p.filed[r]],
            !.listed = IF p.views = {} THEN @
                       ELSE [c \in Chapters |->
                               At(p.listed[c], {i \in DOMAIN p.listed[c] : p.listed[c][i] \notin gone})],
            !.marks = At(@, {i \in DOMAIN @ : ~(@[i].range \in gone /\ @[i].held)}),
            !.clashes = @ \union Slips(p, gone, owner)]

Renewed(p, rs, owner) == Added(Removed(p, rs, owner), rs, owner)

(* annotations.inject(), when the view of `c` renders: a listed range that   *)
(* is not filed throws, and the rest of the list is not attached.            *)
Injected(p, c) ==
  LET sound == {i \in DOMAIN p.listed[c] : \A j \in 1..i : p.filed[p.listed[c][j]] # None}
  IN [p EXCEPT !.marks = Attached(@, SubSeq(p.listed[c], 1, Cardinality(sound)), p.filed)]

-----------------------------------------------------------------------------
(* The search match                                                          *)

(* reportSearchPaint().                                                      *)
Reports(p, painted) == [p EXCEPT !.reported = painted]

Unmatched(p) ==
  IF p.match = None THEN p
  ELSE [Removed(p, {p.match}, "search") EXCEPT !.match = None]

(* applySearchMatch(), and the report of what came of it.                    *)
SearchApplied(p, m) ==
  LET q == [Unmatched(p) EXCEPT !.pending = m] IN
  IF m = None THEN q
  ELSE IF m.chapter \notin q.loaded THEN q
  ELSE IF m.words = {} \/ \E h \in q.painted : RangeOf[h] = m THEN Reports(q, FALSE)
  ELSE Reports([Added(q, {m}, "search") EXCEPT !.match = m], TRUE)

(* retrySearchMatch().                                                       *)
Retried(p) ==
  IF p.pending = None \/ p.match # None THEN p ELSE SearchApplied(p, p.pending)

(* liftSearchMatch().                                                        *)
MatchLifted(p) == IF p.match = None THEN p ELSE Renewed(p, {p.match}, "search")

-----------------------------------------------------------------------------
(* The reader's highlights                                                   *)

RangesOfAll(H) == {RangeOf[h] : h \in H}

(* applyUserHighlights(), the ones to add: they take their ranges from the   *)
(* search match, and of those that have one range only one is painted.       *)
HighlightsAdded(p, H) ==
  LET q == IF p.match \in RangesOfAll(H) THEN Reports(Unmatched(p), FALSE) ELSE p
      free == RangesOfAll(H) \ RangesOfAll(q.painted)
  IN [Added(q, free, "user") EXCEPT
        !.painted = @ \union {CHOOSE h \in H : RangeOf[h] = r : r \in free}]

HighlightsRemoved(p, H) ==
  [Removed(p, RangesOfAll(H), "user") EXCEPT !.painted = @ \ H]

HighlightsApplied(p) ==
  HighlightsAdded(HighlightsRemoved(p, p.painted \ p.last), p.last \ p.painted)

(* userHighlightIdsOverlapping(): a range of another chapter is resolved in  *)
(* this one, by the places of its words.                                     *)
Overlapping(p, r) == {h \in p.painted : RangeOf[h].words \intersect r.words # {}}

(* contentsForCfi() and liftOverlappingUserHighlights().                     *)
LiftedOver(p, r) ==
  IF r = None THEN p
  ELSE IF r.chapter \notin p.loaded THEN p
  ELSE Renewed(p, RangesOfAll(Overlapping(p, r)), "user")

-----------------------------------------------------------------------------
(* The sentence and the word read aloud                                      *)

(* spokenWordCollides().                                                     *)
WordCollides(p, r) == r \in {p.spoken, p.match} \union RangesOfAll(p.painted)

(* clearSpokenWord(): a word whose range is another layer's by now is left.  *)
WordCleared(p) ==
  IF p.word = None THEN p
  ELSE [IF WordCollides(p, p.word) THEN p ELSE Removed(p, {p.word}, "word") EXCEPT !.word = None]

(* Mutant: the word's mark is never taken off before it is painted again.    *)
WordPaintedOver(p, live) == IF p.word = None THEN p ELSE Added(p, {p.word}, "word")

(* repaintSpokenWord().                                                      *)
WordRepainted(p, live) ==
  IF p.word = None THEN p
  ELSE IF live THEN Renewed(p, {p.word}, "word") ELSE Added(p, {p.word}, "word")

SentenceRenewed(p) == IF p.spoken = None THEN p ELSE Renewed(p, {p.spoken}, "sentence")

(* liftSpokenLayers().                                                       *)
SpokenLifted(p) == WordRepainted(SentenceRenewed(p), TRUE)

(* What followSpokenRange() is asked to follow.                              *)
SpokenTarget(p) == IF p.word = None THEN p.spoken ELSE p.word

-----------------------------------------------------------------------------
(* All layers                                                                *)

(* repaintLiveAnnotations().                                                 *)
Repainted(p) ==
  LET cleared == HighlightsRemoved(p, p.painted)
  IN LiftedOver(SpokenLifted(MatchLifted(HighlightsApplied(cleared))), p.spoken)

(* The continuation of a rebuild's display: what was on the rendition before *)
(* is gone with it, so the highlights and the spoken layers are bare adds.   *)
Rebuilt(p) ==
  LET sentence == IF p.spoken = None THEN p ELSE Added(p, {p.spoken}, "sentence")
      users == HighlightsApplied([WordRepainted(sentence, FALSE) EXCEPT !.painted = {}])
  IN LiftedOver(SpokenLifted(MatchLifted(users)), p.spoken)

-----------------------------------------------------------------------------
(* The displays of epub.js: one at a time, from a queue                      *)

Settled(w) ==
  [w EXCEPT !.due = IF w.current = None \/ w.current.kind = "move" THEN @ ELSE Append(@, w.current),
            !.current = None]

(* rendition.display(): the display under way is taken for settled there and *)
(* then, whatever it has loaded; what awaited it is due after this call.     *)
Displayed(w, kind, c, id) ==
  [Settled(w) EXCEPT !.queue = Append(@, [kind |-> kind, chapter |-> c, id |-> id])]

Rebuilding(w) ==
  \E d \in Range(w.queue) \union ({w.current} \ {None}) : d.kind = "rebuild"

(* What a step paints; painted on a rendition that its own rebuild has yet   *)
(* to paint, it is early.                                                    *)
Paints(w, p) ==
  paint' = IF Rebuilding(w) /\ <<p.filed, p.listed>> # <<paint.filed, paint.listed>>
           THEN [p EXCEPT !.clashes = @ \union {"early"}] ELSE p

(* endRenditionTransition().                                                 *)
AfterTransition(id) == IF transition = id THEN 0 ELSE transition

(* followSpokenRange(): nothing while a transition runs, nor while what is   *)
(* spoken is in view or was just followed.                                   *)
MayFollow(w, r, during) ==
  {w} \union (IF r = None \/ during # 0 THEN {} ELSE {Displayed(w, "move", r.chapter, 0)})

(* scheduleGeometryRefresh().                                                *)
AskFrame(reanchor) ==
  geometry' = IF reanchor THEN "reanchor" ELSE IF geometry = "none" THEN "plain" ELSE geometry

(* rebuildForFlowIfNeeded(): what the old rendition had queued resolves all  *)
(* the same, and what it had under way never does.                           *)
Rebuild(w, flow) ==
  /\ looks' = [wanted |-> flow, built |-> flow]
  /\ transition' = transition + 1
  /\ paint' = Unpainted(paint)
  /\ shows' = [w EXCEPT
       !.queue = <<[kind |-> "rebuild", chapter |-> IF place = None THEN 1 ELSE place,
                    id |-> transition + 1]>>,
       !.late = @ \o At(w.queue, {i \in DOMAIN w.queue : w.queue[i].kind # "move"}),
       !.current = None, !.located = FALSE, !.report = FALSE]

(* openEpub(), once the book is displayed: a change of flow waited for it.   *)
Opens(d, w) ==
  LET opened == [w EXCEPT !.opening = FALSE] IN
  /\ d.kind = "open"
  /\ IF looks.built # looks.wanted
     THEN Rebuild(opened, looks.wanted)
     ELSE shows' = opened /\ UNCHANGED <<paint, looks, transition>>
  /\ UNCHANGED <<place, geometry, asks>>

(* The continuations of a rebuild's display and of a reanchor's.             *)
Repaints(d, w) ==
  /\ d.kind # "open"
  /\ Paints(w, IF d.kind = "rebuild" THEN Rebuilt(paint) ELSE Repainted(paint))
  /\ transition' = AfterTransition(d.id)
  /\ shows' \in MayFollow(w, SpokenTarget(paint), transition')
  /\ UNCHANGED <<looks, place, geometry, asks>>

(* What is due runs before anything else.                                    *)
Continue ==
  /\ shows.due # <<>>
  /\ LET d == Head(shows.due)
         w == [shows EXCEPT !.due = Tail(@)]
     IN Opens(d, w) \/ Repaints(d, w)

NothingDue == shows.due = <<>>

(* A display that a destroyed rendition had queued.                          *)
SettleLate ==
  /\ NothingDue /\ shows.late # <<>>
  /\ shows' = [shows EXCEPT !.due = <<Head(shows.late)>>, !.late = Tail(@)]
  /\ UNCHANGED <<paint, looks, place, geometry, transition, asks>>

(* The next display: to move within a chapter on screen, or to take down     *)
(* what is on screen and load another.                                       *)
StartDisplay ==
  /\ NothingDue /\ shows.late = <<>> /\ shows.queue # <<>> /\ shows.current = None
  /\ LET d == Head(shows.queue)
         w == [shows EXCEPT !.queue = Tail(@), !.current = d]
     IN IF d.chapter \in paint.loaded
        THEN /\ shows' = [Settled(w) EXCEPT !.report = TRUE]
             /\ paint' = paint
        ELSE /\ shows' = w
             /\ paint' = [paint EXCEPT !.views = {d.chapter}, !.loaded = {}, !.marks = <<>>]
  /\ UNCHANGED <<looks, place, geometry, transition, asks>>

(* A view renders: the store's marks are attached, and a match that waits    *)
(* for its chapter is tried.  With pages that is the end of the display.     *)
LoadView(c) ==
  /\ NothingDue /\ c \in paint.views \ paint.loaded
  /\ paint' = Retried(Injected([paint EXCEPT !.loaded = @ \union {c}], c))
  /\ shows' = [IF looks.built = "paginated" THEN Settled(shows) ELSE shows EXCEPT !.report = TRUE]
  /\ UNCHANGED <<looks, place, geometry, transition, asks>>

(* With a scroll, the display ends when the screen is filled.                *)
SettleFilled ==
  /\ NothingDue /\ looks.built = "scrolled" /\ shows.current # None
  /\ paint.views # {} /\ paint.views = paint.loaded
  /\ shows' = [Settled(shows) EXCEPT !.report = TRUE]
  /\ UNCHANGED <<paint, looks, place, geometry, transition, asks>>

(* The scroll brings a chapter in, or leaves one behind.                     *)
ScrollIn(c) ==
  /\ NothingDue /\ looks.built = "scrolled" /\ paint.loaded # {} /\ paint.loaded = paint.views
  /\ c \notin paint.views
  /\ paint' = [paint EXCEPT !.views = @ \union {c}]
  /\ UNCHANGED <<looks, shows, place, geometry, transition, asks>>

ScrollOut(c) ==
  /\ NothingDue /\ looks.built = "scrolled" /\ shows.current = None
  /\ paint.views = paint.loaded /\ c \in paint.loaded /\ paint.loaded # {c}
  /\ paint' = [paint EXCEPT !.views = @ \ {c}, !.loaded = @ \ {c},
                            !.marks = At(@, {i \in DOMAIN @ : @[i].range.chapter # c})]
  /\ UNCHANGED <<looks, shows, place, geometry, transition, asks>>

(* 'relocated': a match whose chapter was reached and that is not painted    *)
(* there is refused.  With nothing on screen there is no location to report. *)
Landed(p) ==
  [IF p.landing /\ p.match = None /\ p.pending # None THEN Reports(p, FALSE) ELSE p
     EXCEPT !.landing = FALSE]

Relocated ==
  /\ NothingDue /\ shows.report
  /\ shows' = [shows EXCEPT !.report = FALSE, !.located = @ \/ paint.loaded # {}]
  /\ IF paint.loaded = {} THEN UNCHANGED <<paint, place>>
     ELSE place' \in paint.loaded /\ paint' = Landed(Retried(paint))
  /\ UNCHANGED <<looks, geometry, transition, asks>>

(* The frame of scheduleGeometryRefresh().                                   *)
GeometryFrame ==
  /\ NothingDue /\ geometry # "none"
  /\ geometry' = "none"
  /\ IF geometry = "reanchor" /\ place # None /\ ~shows.opening
     THEN /\ transition' = transition + 1
          /\ shows' = Displayed(shows, "reanchor", place, transition + 1)
          /\ paint' = paint
     ELSE /\ Paints(shows, Repainted(paint))
          /\ shows' \in MayFollow(shows, SpokenTarget(paint), transition)
          /\ transition' = transition
  /\ UNCHANGED <<looks, place, asks>>

-----------------------------------------------------------------------------
(* What the system and the host ask for                                      *)

Change == NothingDue /\ asks < MaxAsks /\ asks' = asks + 1

(* A font or an image comes in, and the chapter's height changes.            *)
ResizeContents ==
  /\ Change /\ paint.loaded # {}
  /\ AskFrame(FALSE)
  /\ UNCHANGED <<paint, looks, shows, place, transition>>

(* The window is resized: epub.js takes down what is on screen, the shell    *)
(* asks for a frame, and where there is a location it is displayed again.    *)
ResizeWindow ==
  /\ Change /\ paint.views # {}
  /\ paint' = [paint EXCEPT !.views = {}, !.loaded = {}, !.marks = <<>>]
  /\ AskFrame(FALSE)
  /\ shows' = IF shows.located THEN Displayed(shows, "move", place, 0) ELSE shows
  /\ UNCHANGED <<looks, place, transition>>

(* applyAppearance(): another flow, another layout, or other colours.        *)
ApplyAppearance ==
  /\ Change
  /\ \E flow \in Flows, relaid \in BOOLEAN :
       LET moves == relaid \/ flow # looks.wanted IN
       IF flow # looks.built /\ ~shows.opening
       THEN Rebuild(shows, flow) /\ geometry' = geometry
       ELSE /\ looks' = [looks EXCEPT !.wanted = flow]
            /\ AskFrame(moves)
            /\ UNCHANGED <<paint, shows, transition>>
  /\ UNCHANGED place

(* The host's commands wait until the book is displayed.                     *)
Command == Change /\ ~shows.opening

PaintHighlights ==
  /\ Command
  /\ \E S \in SUBSET Highlights :
       LET q == HighlightsApplied([paint EXCEPT !.last = S])
       IN Paints(shows, IF S \subseteq paint.painted THEN q ELSE SpokenLifted(MatchLifted(q)))
  /\ UNCHANGED <<looks, shows, place, geometry, transition>>

PaintSearchMatch ==
  /\ Command
  /\ \E m \in Matches \union {None} :
       Paints(shows, SearchApplied([paint EXCEPT !.reported = None, !.landing = m # None], m))
  /\ UNCHANGED <<looks, shows, place, geometry, transition>>

(* setSpokenRange().                                                         *)
SentenceSpoken(p, r) ==
  LET unspoken == IF p.spoken = None THEN p ELSE Removed(p, {p.spoken}, "sentence")
      named == [unspoken EXCEPT !.spoken = r]
  IN IF r = None THEN named ELSE LiftedOver(Added(named, {r}, "sentence"), r)

SetSpokenRange ==
  /\ Command
  /\ \E r \in SpokenSentences \union {None} :
       /\ Paints(shows, SentenceSpoken(WordCleared(paint), r))
       /\ shows' \in MayFollow(shows, r, transition)
  /\ UNCHANGED <<looks, place, geometry, transition>>

(* setSpokenWordRange(): only a word of a chapter on screen has a range.     *)
WordSpoken(p, r) ==
  IF WordCollides(p, r) THEN LiftedOver(p, r)
  ELSE LiftedOver(WordRepainted([p EXCEPT !.word = r], FALSE), r)

SetSpokenWordRange ==
  /\ Command
  /\ \E r \in SpokenWords \union {None} :
       /\ Paints(shows, IF r = None THEN WordCleared(paint)
                        ELSE IF r.chapter \in paint.loaded THEN WordSpoken(WordCleared(paint), r)
                        ELSE WordCleared(paint))
       /\ shows' \in IF r = None THEN {shows}
                     ELSE IF r.chapter \in paint.loaded THEN MayFollow(shows, r, transition)
                     ELSE {shows}
  /\ UNCHANGED <<looks, place, geometry, transition>>

GoTo ==
  /\ Command
  /\ \E c \in Chapters : shows' = Displayed(shows, "move", c, 0)
  /\ UNCHANGED <<paint, looks, place, geometry, transition>>

PageNext ==
  \/ Continue \/ SettleLate \/ StartDisplay \/ SettleFilled \/ Relocated \/ GeometryFrame
  \/ \E c \in Chapters : LoadView(c) \/ ScrollIn(c) \/ ScrollOut(c)
  \/ ResizeContents \/ ResizeWindow \/ ApplyAppearance
  \/ PaintHighlights \/ PaintSearchMatch \/ SetSpokenRange \/ SetSpokenWordRange \/ GoTo

PageSpec == PageInit /\ [][PageNext]_pageVars

-----------------------------------------------------------------------------
(* Properties                                                                *)

Layers(p) ==
  {[range |-> RangeOf[h], owner |-> "user"] : h \in p.painted} \union
  {[range |-> r, owner |-> "search"] : r \in {p.match} \ {None}} \union
  {[range |-> r, owner |-> "sentence"] : r \in {p.spoken} \ {None}} \union
  {[range |-> r, owner |-> "word"] : r \in {p.word} \ {None}}

IsOf(mark, layer) == mark.range = layer.range /\ mark.owner = layer.owner

(* Every layer of a chapter on screen has its mark, and has it once; no mark *)
(* is of anything else, and each can be taken off again.                     *)
MarksAre(p) ==
  /\ \A l \in Layers(p) : l.range.chapter \in p.loaded =>
       Cardinality({i \in DOMAIN p.marks : IsOf(p.marks[i], l)}) = 1
  /\ \A m \in Range(p.marks) : m.held /\ \E l \in Layers(p) : IsOf(m, l)

Steady == shows.due = <<>> /\ ~Rebuilding(shows)

(* epub.entry.ts:1145-1150: what is painted over the chapters on screen are  *)
(* the layers, whatever was painted, cleared, redisplayed or rebuilt.        *)
MarksAreTheLayers == paint.clashes = {} /\ Steady => MarksAre(paint)

(* The word is drawn over its sentence.                                      *)
WordIsOnTop ==
  paint.clashes = {} =>
    \A i, j \in DOMAIN paint.marks :
      paint.marks[i].owner = "word" /\ paint.marks[j].owner = "sentence"
        /\ paint.marks[i].range.chapter = paint.marks[j].range.chapter => i > j

(* What the host was told of the match it asked for is so.                   *)
SearchReportIsTrue ==
  Steady => /\ paint.reported = TRUE => paint.match # None
            /\ paint.reported = FALSE => paint.match = None

(* A match that was asked for is answered when its place was reached.        *)
SearchIsAnswered ==
  paint.pending # None /\ ~paint.landing => paint.reported # None

(* epub.entry.ts:160-190: while the page is rebuilt or reanchored, the voice *)
(* does not turn it.                                                         *)
TransitionIsGuarded ==
  transition = 0 =>
    \A d \in Range(shows.queue) \union Range(shows.due) \union ({shows.current} \ {None}) :
      d.kind \notin {"rebuild", "reanchor"}

LayersAreShown ==
  MarksAreTheLayers /\ WordIsOnTop /\ SearchReportIsTrue /\ SearchIsAnswered /\ TransitionIsGuarded

-----------------------------------------------------------------------------
(* What the comments of the code say, and TLC refutes                        *)

(* highlightIdForRange(): the highlights a selection may be taken for.       *)
NamedBy(words) == {h \in paint.painted : RangeOf[h].words \intersect words # {}}

(* HIGHLIGHT_LAYERS.md:264-270: a highlight of another chapter is not taken  *)
(* for the one that was touched, and deleted in its place.                   *)
SelectionNamesItsOwn ==
  \A c \in paint.loaded, r \in Ranges :
    r.chapter = c => \A h \in NamedBy(r.words) : RangeOf[h].chapter = c

(* epub.entry.ts:1318: the layers are added bare "ONLY FOR A RENDITION THAT  *)
(* WAS JUST REBUILT", so nothing is painted twice.                           *)
RebuildPaintsOnce == paint.clashes \subseteq {"early"} /\ Steady => MarksAre(paint)

(* epub.entry.ts:1145-1150: what is removed before it is added is painted    *)
(* once.                                                                     *)
ResizePaintsOnce == paint.clashes \subseteq {"unviewed"} /\ Steady => MarksAre(paint)

(* epub.entry.ts:1054: "NO TWO LIVE KEYS ARE EVER EQUAL".                    *)
LayersKeepApart == "shared" \notin paint.clashes

(* epub.entry.ts:1884-1888: after a resize epub.js displays the page again;  *)
(* a display under way has something to display.                             *)
DisplayIsOnScreen == shows.current # None => paint.views # {}

(* HIGHLIGHT_LAYERS.md section 4: a highlight that a spoken word overlaps is *)
(* drawn over it.                                                            *)
HighlightOverWord ==
  paint.clashes = {} /\ Steady =>
    \A i, j \in DOMAIN paint.marks :
      LET user == paint.marks[i]
          word == paint.marks[j]
      IN user.owner = "user" /\ word.owner = "word" /\ user.range.chapter = word.range.chapter
           /\ user.range.words \intersect word.range.words # {} => i > j

(* epub.entry.ts:331-332: when a match is refused for want of its chapter,   *)
(* the page has settled there.                                               *)
RefusedWhereItIs ==
  [][ paint.pending # None /\ paint'.pending = paint.pending
        /\ paint.reported = None /\ paint'.reported = FALSE
        /\ paint.pending.chapter \notin paint.loaded
        /\ (\A h \in paint.painted : RangeOf[h] # paint.pending)
      => \A d \in Range(shows.queue) \union ({shows.current} \ {None}) :
           d.chapter # paint.pending.chapter ]_pageVars
=============================================================================
