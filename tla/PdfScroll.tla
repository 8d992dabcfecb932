----------------------------- MODULE PdfScroll -----------------------------
(***************************************************************************)
(* The pages of the PDF shell, pdf.entry.ts.  In the paged view one canvas  *)
(* shows the current page (two beside each other count as one here); in the *)
(* continuous scroll there is one wrapper per page, of which those around   *)
(* the visible one hold a canvas.  Laying out the wrappers and rendering a  *)
(* page are asynchronous, and a resize, a zoom, a scroll, a page turned or  *)
(* a change of mode may come between any two of their steps.                *)
(*                                                                          *)
(* A list of wrappers is known by the build that made it; the paged view is *)
(* the list 0.  A render is known by its page, its list and its token, and  *)
(* a page's surface by the list and the token of the render that laid it.   *)
(***************************************************************************)
EXTENDS Naturals, FiniteSets, Absence

CONSTANTS
  PageCount,   \* pages of the document
  Buffer,      \* SCROLL_BUFFER_PAGES
  MaxBuilds,   \* lists built (bound)
  MaxScrolls,  \* pages scrolled or turned to, and other paged renders (bound)
  MaxFailures  \* renders that fail or find nothing to draw on (bound)

ASSUME PdfAssumption == PageCount \in Nat \ {0} /\ Buffer \in Nat
ASSUME PdfBoundsAssumption == {MaxBuilds, MaxScrolls, MaxFailures} \subseteq Nat

VARIABLES
  scrolling,  \* scrollMode
  lists,      \* [shown, mine, made]: lists in the document, pageWrappers'
  building,   \* builds under way
  page,       \* currentPage
  claimed,    \* renderedPages
  tokens,     \* [render, surface, paged]: pageRenderTokens, surfaceRenderTokens,
              \* renderToken
  renders,    \* renderScrollPage() and renderCurrent() calls under way
  canvases,   \* <<list, page>> whose wrapper holds a canvas
  sheet,      \* the page on the canvas of the paged view, 0 when it is blank
  surfaces,   \* pageSurfaces: page -> <<list, token>> of the render it is of
  refused,    \* history: the last paged render that failed as the current one
  spent,      \* [scrolls, failures] (bound)
  clashes     \* history: steps the tokens and claims do not answer for

pdfVars == <<scrolling, lists, building, page, claimed, tokens, renders, canvases,
             sheet, surfaces, refused, spent, clashes>>

Pages == 1..PageCount
Lists == 1..MaxBuilds
Paged == 0
Views == 0..MaxBuilds
Tokens == 0..(4 * MaxScrolls + 4 * MaxBuilds + 4)

ASSUME NoListAssumption == None \notin Views

(* `token` and `pass` are what the call took from the two token maps.       *)
Render == [page : Pages, list : Views, token : Tokens, pass : Tokens,
           at : {"page", "raster", "text"}]
NoTokens == [p \in Pages |-> 0]

PdfTypeOK ==
  /\ scrolling \in BOOLEAN
  /\ lists \in [shown : SUBSET Lists, mine : Lists \union {None}, made : 0..MaxBuilds]
  /\ building \subseteq Lists
  /\ page \in Pages
  /\ claimed \subseteq Pages
  /\ tokens \in [render : [Pages -> Tokens], surface : [Pages -> Tokens], paged : Tokens]
  /\ renders \subseteq Render
  /\ canvases \subseteq Lists \X Pages
  /\ sheet \in Pages \union {0}
  /\ surfaces \in [Pages -> (Views \X Tokens) \union {None}]
  /\ refused \in Tokens
  /\ spent \in [scrolls : 0..MaxScrolls, failures : 0..MaxFailures]
  /\ clashes \subseteq {"builds", "reborn", "unclaimed", "blank", "paged"}

AsksPaged(p, token) ==
  [page |-> p, list |-> Paged, token |-> token, pass |-> 0, at |-> "page"]

(* openPdf() has the document and begins with its first page.               *)
PdfInit ==
  /\ scrolling = FALSE
  /\ lists = [shown |-> {}, mine |-> None, made |-> 0]
  /\ building = {} /\ page = 1 /\ claimed = {}
  /\ tokens = [render |-> NoTokens, surface |-> NoTokens, paged |-> 1]
  /\ renders = {AsksPaged(1, 1)}
  /\ canvases = {} /\ sheet = 0 /\ refused = 0
  /\ surfaces = [p \in Pages |-> None]
  /\ spent = [scrolls |-> 0, failures |-> 0]
  /\ clashes = {}

Window(p) == {q \in Pages : p <= q + Buffer /\ q <= p + Buffer}

-----------------------------------------------------------------------------
(* The window of pages that hold a canvas *)

(* virtualize(), on a list `l` and what a build may just have emptied: the  *)
(* pages in the window that are not claimed are rendered, the claimed ones  *)
(* outside of it disposed of.  Without wrappers nothing is rendered.        *)
NewPages(l, p, held) == IF l = None THEN {} ELSE Window(p) \ held
OldPages(p, held) == held \ Window(p)

Outdates(l, p, held, toks) ==
  [q \in Pages |-> IF q \in NewPages(l, p, held) \union OldPages(p, held)
                   THEN toks[q] + 1 ELSE toks[q]]

Virtualize(l, p, held, drawn, under, toks) ==
  /\ page' = p
  /\ claimed' = (held \union NewPages(l, p, held)) \ OldPages(p, held)
  /\ tokens' = [toks EXCEPT !.render = Outdates(l, p, held, toks.render)]
  /\ renders' = renders \union
       {[page |-> q, list |-> l, token |-> Outdates(l, p, held, toks.render)[q],
         pass |-> 0, at |-> "page"] : q \in NewPages(l, p, held)}
  /\ canvases' = {c \in drawn : ~(c[1] = l /\ c[2] \in OldPages(p, held))}
  /\ surfaces' = [q \in Pages |-> IF q \in OldPages(p, held) THEN None ELSE under[q]]

(* A scroll, or a page turned to in scroll mode.                            *)
Scroll ==
  /\ scrolling /\ lists.mine # None
  /\ spent.scrolls < MaxScrolls
  /\ spent' = [spent EXCEPT !.scrolls = @ + 1]
  /\ \E p \in Pages \ {page} :
       Virtualize(lists.mine, p, claimed, canvases, surfaces, tokens)
  /\ UNCHANGED <<scrolling, lists, building, sheet, refused, clashes>>

(* renderCurrent(), for a page turned to in the paged view, a resize, a zoom *)
(* or a spread: the page is current at once.                                 *)
TurnSheet ==
  /\ ~scrolling
  /\ spent.scrolls < MaxScrolls
  /\ spent' = [spent EXCEPT !.scrolls = @ + 1]
  /\ \E p \in Pages :
       /\ page' = p
       /\ renders' = renders \union {AsksPaged(p, tokens.paged + 1)}
  /\ tokens' = [tokens EXCEPT !.paged = @ + 1]
  /\ UNCHANGED <<scrolling, lists, building, claimed, canvases, sheet, surfaces, refused,
                 clashes>>

-----------------------------------------------------------------------------
(* The list of wrappers *)

(* buildScrollList() up to its await: the old list leaves the document, and *)
(* every claim and token of a page is forgotten.  A render under way holds  *)
(* a token that the next render of its page may be given again.             *)
StartBuild ==
  /\ lists.made < MaxBuilds
  /\ lists' = [shown |-> {}, mine |-> None, made |-> lists.made + 1]
  /\ building' = building \union {lists.made + 1}
  /\ claimed' = {}
  /\ tokens' = [tokens EXCEPT !.render = NoTokens, !.surface = NoTokens]
  /\ canvases' = {}
  /\ UNCHANGED <<page, renders, sheet, surfaces, refused, spent, clashes>>

(* applyAppearance() with flow scrolled-doc, or the open that deferred it.  *)
EnterScroll ==
  /\ ~scrolling
  /\ scrolling' = TRUE
  /\ StartBuild

(* A resize of the window, or a zoom.                                       *)
Resize ==
  /\ scrolling
  /\ scrolling' = scrolling
  /\ StartBuild

(* Mutant: the pages in view are left to the next scroll.                   *)
ShowsNothing(l) == UNCHANGED <<page, claimed, tokens, renders, canvases, surfaces>>

(* The rest of enterScrollMode() and resizeScrollList(): virtualize() does  *)
(* nothing once scroll mode was left.                                       *)
Shows(l) ==
  IF scrolling THEN Virtualize(l, page, claimed, canvases, surfaces, tokens)
  ELSE UNCHANGED <<page, claimed, tokens, renders, canvases, surfaces>>

(* The pages' sizes are there: the wrappers are appended, and pageWrappers  *)
(* are these.  Two builds that overlap append both of their lists.          *)
FinishBuild(b) ==
  /\ b \in building
  /\ building' = building \ {b}
  /\ lists' = [lists EXCEPT !.shown = @ \union {b}, !.mine = b]
  /\ Shows(b)
  /\ clashes' = clashes \union {c \in {"builds"} : scrolling /\ lists.shown # {}}
  /\ UNCHANGED <<scrolling, sheet, refused, spent>>

(* leaveScrollMode(): every page is disposed of, the list removed, and the  *)
(* current page rendered in the paged view.                                 *)
LeaveScroll ==
  /\ scrolling
  /\ scrolling' = FALSE
  /\ lists' = [lists EXCEPT !.shown = {}, !.mine = None]
  /\ claimed' = {} /\ canvases' = {}
  /\ tokens' = [tokens EXCEPT !.paged = @ + 1, !.render =
                  [p \in Pages |-> IF p \in claimed THEN @[p] + 1 ELSE @[p]]]
  /\ renders' = renders \union {AsksPaged(page, tokens.paged + 1)}
  /\ surfaces' = [p \in Pages |-> None]
  /\ UNCHANGED <<building, page, sheet, refused, spent, clashes>>

-----------------------------------------------------------------------------
(* Rendering a page *)

(* The check after each await.  The paged view compares its token only, and *)
(* does not ask which mode it is.                                           *)
Current(r) ==
  IF r.list = Paged THEN tokens.paged = r.token
  ELSE tokens.render[r.page] = r.token /\ scrolling

(* The render is of the list in pageWrappers.                               *)
Own(r) == r.list = lists.mine

Fails ==
  /\ spent.failures < MaxFailures
  /\ spent' = [spent EXCEPT !.failures = @ + 1]

(* pdf.js has the page.  The paged view empties its canvas at once.         *)
GotPage(r) ==
  /\ r \in renders /\ r.at = "page"
  /\ IF Current(r)
     THEN /\ renders' = (renders \ {r}) \union {[r EXCEPT !.at = "raster"]}
          /\ sheet' = IF r.list = Paged THEN 0 ELSE sheet
     ELSE renders' = renders \ {r} /\ UNCHANGED sheet
  /\ UNCHANGED <<scrolling, lists, building, page, claimed, tokens, canvases, surfaces,
                 refused, spent, clashes>>

(* There is no room or no context to draw in: the paged view reports it,    *)
(* the scroll returns without a word and keeps its claim.                   *)
GotNothing(r) ==
  /\ r \in renders /\ r.at = "page" /\ Current(r)
  /\ Fails
  /\ renders' = renders \ {r}
  /\ refused' = IF r.list = Paged THEN r.token ELSE refused
  /\ clashes' = clashes \union {c \in {"blank"} : r.list # Paged}
  /\ UNCHANGED <<scrolling, lists, building, page, claimed, tokens, canvases, sheet, surfaces>>

(* The text pass claims its page's surface; the paged view forgets those of *)
(* all other pages.                                                         *)
SurfacesWith(r) ==
  [q \in Pages |-> IF q = r.page THEN <<r.list, r.token>>
                   ELSE IF r.list = Paged THEN None ELSE surfaces[q]]

(* The canvas goes into the wrapper the call began with, or is that of the  *)
(* paged view, and the text pass begins.                                    *)
Rastered(r) ==
  /\ r \in renders /\ r.at = "raster"
  /\ IF Current(r)
     THEN LET pass == tokens.surface[r.page] + 1 IN
          /\ renders' = (renders \ {r}) \union {[r EXCEPT !.at = "text", !.pass = pass]}
          /\ tokens' = [tokens EXCEPT !.surface[r.page] = pass]
          /\ surfaces' = SurfacesWith(r)
          /\ canvases' = IF r.list \in lists.shown
                         THEN canvases \union {<<r.list, r.page>>} ELSE canvases
          /\ sheet' = IF r.list = Paged THEN r.page ELSE sheet
          /\ clashes' = clashes
               \union {c \in {"paged"} : r.list = Paged /\ canvases # {}}
               \union {c \in {"reborn"} : r.list # Paged /\ ~Own(r)}
     ELSE /\ renders' = renders \ {r}
          /\ UNCHANGED <<tokens, surfaces, canvases, sheet, clashes>>
  /\ UNCHANGED <<scrolling, lists, building, page, claimed, refused, spent>>

(* The text layer is laid out.  A superseded pass stops; one whose render   *)
(* was outdated meanwhile takes back the surface, if it is still its own.   *)
TextLaidOut(r) ==
  /\ r \in renders /\ r.at = "text"
  /\ renders' = renders \ {r}
  /\ surfaces' = IF tokens.surface[r.page] = r.pass /\ ~Current(r)
                    /\ surfaces[r.page] = <<r.list, r.token>>
                 THEN [surfaces EXCEPT ![r.page] = None] ELSE surfaces
  /\ UNCHANGED <<scrolling, lists, building, page, claimed, tokens, canvases, sheet, refused,
                 spent, clashes>>

(* pdf.js fails.  The paged view reports it, unless only the text was to    *)
(* come; the scroll gives up the page's claim, whoever has it by then, and  *)
(* leaves a canvas that is already there.                                   *)
RenderFails(r) ==
  /\ r \in renders
  /\ Fails
  /\ renders' = renders \ {r}
  /\ claimed' = IF r.list = Paged THEN claimed ELSE claimed \ {r.page}
  /\ refused' = IF r.list = Paged /\ r.at # "text" /\ Current(r) THEN r.token ELSE refused
  /\ clashes' = clashes \union
       {c \in {"unclaimed"} : /\ r.list # Paged /\ r.page \in claimed
                             /\ (r.at = "text" \/ ~Own(r) \/ ~Current(r))}
  /\ UNCHANGED <<scrolling, lists, building, page, tokens, canvases, sheet, surfaces>>

PdfNext ==
  \/ Scroll \/ TurnSheet \/ EnterScroll \/ Resize \/ LeaveScroll
  \/ \E b \in building : FinishBuild(b)
  \/ \E r \in renders :
       GotPage(r) \/ GotNothing(r) \/ Rastered(r) \/ TextLaidOut(r) \/ RenderFails(r)

PdfSpec == PdfInit /\ [][PdfNext]_pdfVars

-----------------------------------------------------------------------------
(* Properties *)

(* Nothing of the view is under way.                                        *)
Settled == building = {} /\ renders = {}

(* pdf.entry.ts: "at most 2 * SCROLL_BUFFER_PAGES + 1 pages resident at     *)
(* once", whatever was rendered, disposed of, resized or failed in between. *)
ResidentPagesBounded ==
  clashes = {} => Cardinality(canvases) <= 2 * Buffer + 1

(* When nothing is under way the page in view is drawn, in the list that is *)
(* in the document, and its highlights can be hit and painted there; unless *)
(* its render failed, and then the next scroll tries again (renderedPages). *)
SettledPageIsDrawn ==
  scrolling /\ Settled /\ clashes = {} =>
    /\ lists.shown = {lists.mine}
    /\ page \notin claimed => spent.failures > 0
    /\ page \in claimed => /\ <<lists.mine, page>> \in canvases
                           /\ surfaces[page] = <<lists.mine, tokens.render[page]>>

(* In the paged view it is the current page, with its own surface, after    *)
(* whatever turns, resizes and changes of mode; unless its failure was       *)
(* reported (renderToken).                                                   *)
SettledSheetIsDrawn ==
  ~scrolling /\ Settled /\ refused # tokens.paged =>
    sheet = page /\ surfaces[page] = <<Paged, tokens.paged>>

(* What is drawn is the page in view, and little else.                      *)
ScrollDrawsItsPages == ResidentPagesBounded /\ SettledPageIsDrawn /\ SettledSheetIsDrawn

-----------------------------------------------------------------------------
(* What comments of the source say, and the clashes contradict *)

(* "Build one empty, correctly-HEIGHTED wrapper per page": two builds that  *)
(* overlap leave two lists.                                                 *)
OneListOfPages == Cardinality(lists.shown) <= 1

(* renderedPages are the "Pages with a rasterised canvas resident right     *)
(* now": a failed text pass, or a failed render that was superseded, gives  *)
(* up a claim beside the canvas, which nothing disposes of any more.        *)
ResidentIsClaimed == \A c \in canvases : c[2] \in claimed

(* A claim is cleared "instead of silently leaving it blank forever".       *)
NoPageStaysBlank ==
  scrolling /\ Settled /\ page \in claimed => \E l \in lists.shown : <<l, page>> \in canvases

(* "A token claimed here is what makes a superseded pass stop before it     *)
(* writes anything": a rebuild gives the tokens out again.                  *)
SupersededStops ==
  scrolling /\ Settled /\ surfaces[page] # None =>
    surfaces[page][1] = Paged \/ surfaces[page][1] \in lists.shown

(* "a newer navigation must not have its text layer overwritten by a stale  *)
(* one finishing late": a paged render that outlives its mode does.         *)
StalePagedStops ==
  scrolling /\ Settled /\ canvases # {} /\ surfaces[page] # None =>
    surfaces[page][1] # Paged
=============================================================================
