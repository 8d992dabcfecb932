----------------------------- MODULE MCReading -----------------------------
(* Opening a book and reading it, for TLC: the calls of openBook, the       *)
(* session on screen, the place in the book and the scroll of its pages.    *)
(* They share no state here; `machine` says which of them a behaviour is    *)
(* of, and the others stay as they start.                                   *)
EXTENDS BookOpening, ReaderSession, ReadingPlace, PdfScroll, TLC

CONSTANTS x1, x2

VARIABLE machine

vars == <<openVars, readerVars, placeVars, pdfVars, machine>>

(* Bounds of the scroll's runs: the renders that overlap, and the scrolls,   *)
(* failures and builds of one behaviour together.                           *)
MaxRenders == 3
MaxTrouble == 4
FewPdfSteps ==
  /\ Cardinality(renders') <= MaxRenders
  /\ spent'.scrolls + spent'.failures + lists'.made <= MaxTrouble

(* Attempts to open the book, screens that show it, places in it.           *)
Symmetry == Permutations({x1, x2})

Init ==
  /\ machine \in {"opening", "session", "place", "scroll"}
  /\ BookInit /\ ReaderInit /\ PlaceInit /\ PdfInit
  /\ machine # "opening" => ~openAccess
  /\ machine # "place" => row = None

Next ==
  /\ machine' = machine
  /\ \/ machine = "opening" /\ BookNext /\ UNCHANGED <<readerVars, placeVars, pdfVars>>
     \/ machine = "session" /\ ReaderNext /\ UNCHANGED <<openVars, placeVars, pdfVars>>
     \/ machine = "place" /\ PlaceNext /\ UNCHANGED <<openVars, readerVars, pdfVars>>
     \/ /\ machine = "scroll" /\ PdfNext /\ FewPdfSteps
        /\ UNCHANGED <<openVars, readerVars, placeVars>>

Spec == Init /\ [][Next]_vars

TypeOK ==
  CASE machine = "opening" -> BookTypeOK
    [] machine = "session" -> ReaderTypeOK
    [] machine = "place"   -> PlaceTypeOK
    [] machine = "scroll"  -> PdfTypeOK
=============================================================================
