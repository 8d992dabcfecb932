-------------------------- MODULE CatalogueSearch --------------------------
(***************************************************************************)
(* Searching the catalogue: the reducer (searchState.ts), the effect that   *)
(* sends a request for each requestId and hands its answer back             *)
(* (useCatalogueSearch.ts), and the ways SearchScreen drives them.  A page  *)
(* of results is named by what was asked and its number in the result set.  *)
(***************************************************************************)
EXTENDS Naturals, Sequences, Absence

CONSTANTS
  Queries,      \* what can be searched for
  Types,        \* content types to filter by
  Tiers,        \* access tiers to filter by
  Pages,        \* pages of a result set, at most (bound)
  MaxRequests,  \* requestIds handed out (bound)
  MaxTyped      \* times the field is typed in (bound)

ASSUME SearchAssumption ==
  /\ Pages \in Nat \ {0} /\ {MaxRequests, MaxTyped} \subseteq Nat
  /\ None \notin Queries \union Types \union Tiers

VARIABLES
  field,     \* draft
  search,    \* query, filters, status, requestId
  shown,     \* publications, page by page
  cursor,    \* next
  issued,    \* the request sent last
  flying,    \* requests under way: requestId and the page it asks for
  mounted,   \* live: the screen is there
  typed      \* count of MaxTyped

searchVars == <<field, search, shown, cursor, issued, flying, mounted, typed>>

Filters == [type : Types \union {None}, tier : Tiers \union {None}]
PageOf == [query : Queries \union {None}, filters : Filters, number : 1..Pages]
Requests == [id : 1..MaxRequests, page : PageOf]
Waiting == {"loading", "paging"}

SearchTypeOK ==
  /\ field \in Queries \union {None}
  /\ search \in [query : Queries \union {None}, filters : Filters,
                 status : {"idle", "loading", "paging", "results", "empty", "error"},
                 requestId : 0..MaxRequests]
  /\ shown \in Seq(PageOf) /\ cursor \in PageOf \union {None}
  /\ issued \in 0..MaxRequests /\ flying \subseteq Requests
  /\ mounted \in BOOLEAN /\ typed \in 0..MaxTyped

NoFilters == [type |-> None, tier |-> None]

SearchInit ==
  /\ field = None /\ shown = <<>> /\ cursor = None
  /\ search = [query |-> None, filters |-> NoFilters, status |-> "idle", requestId |-> 0]
  /\ issued = 0 /\ flying = {} /\ mounted = TRUE /\ typed = 0

First(of) == [query |-> of.query, filters |-> of.filters, number |-> 1]
Following(p) == [p EXCEPT !.number = @ + 1]

-----------------------------------------------------------------------------
(* What the reader does                                                     *)

Empties == shown' = <<>> /\ cursor' = None

(* beginSearch(): everything shown goes; nothing to search for is idle, and *)
(* starts no request.                                                       *)
Begins(query, filters) ==
  /\ Empties
  /\ \/ /\ query = None
        /\ search' = [search EXCEPT !.query = None, !.filters = filters, !.status = "idle"]
     \/ /\ query # None /\ search.requestId < MaxRequests
        /\ search' = [query |-> query, filters |-> filters, status |-> "loading",
                      requestId |-> search.requestId + 1]

Typed(q) == typed < MaxTyped /\ typed' = typed + 1 /\ field' = q

Type(q) ==
  /\ mounted /\ q # field /\ Typed(q)
  /\ UNCHANGED <<search, shown, cursor, issued, flying, mounted>>

Submit ==
  /\ mounted /\ Begins(field, search.filters)
  /\ UNCHANGED <<field, issued, flying, mounted, typed>>

(* A recent query is chosen, or what was said to the microphone submitted.  *)
SearchFor(q) ==
  /\ mounted /\ q # None /\ Typed(q) /\ Begins(q, search.filters)
  /\ UNCHANGED <<issued, flying, mounted>>

ClearQuery ==
  /\ mounted /\ search.requestId < MaxRequests
  /\ field' = None /\ Empties
  /\ search' = [search EXCEPT !.query = None, !.status = "idle", !.requestId = @ + 1]
  /\ UNCHANGED <<issued, flying, mounted, typed>>

(* The filter sheet sets the one filter and then the other, each beginning  *)
(* a search: two requestIds, and the effect sees the second.                *)
ApplyFilters(f) ==
  /\ mounted /\ typed < MaxTyped /\ typed' = typed + 1
  /\ f # search.filters /\ Empties
  /\ search' = [search EXCEPT !.filters = f,
                              !.status = IF search.query = None THEN "idle" ELSE "loading",
                              !.requestId = IF search.query = None THEN @ ELSE @ + 2]
  /\ search'.requestId <= MaxRequests
  /\ UNCHANGED <<field, issued, flying, mounted>>

LoadMore ==
  /\ mounted /\ search.status = "results" /\ cursor # None
  /\ search.requestId < MaxRequests
  /\ search' = [search EXCEPT !.status = "paging", !.requestId = @ + 1]
  /\ UNCHANGED <<field, shown, cursor, issued, flying, mounted, typed>>

(* Which request to retry follows from what is still shown.                 *)
Retry ==
  /\ mounted /\ search.status = "error" /\ search.requestId < MaxRequests
  /\ search' = [search EXCEPT
       !.status = IF cursor # None /\ shown # <<>> THEN "paging" ELSE "loading",
       !.requestId = @ + 1]
  /\ UNCHANGED <<field, shown, cursor, issued, flying, mounted, typed>>

Leave ==
  /\ mounted /\ mounted' = FALSE
  /\ UNCHANGED <<field, search, shown, cursor, issued, flying, typed>>

-----------------------------------------------------------------------------
(* The requests                                                             *)

(* The effect after a render: one request for each requestId, of the page   *)
(* after the cursor when paging and of the first page otherwise.            *)
SendRequest ==
  /\ mounted /\ search.status \in Waiting /\ issued # search.requestId
  /\ issued' = search.requestId
  /\ flying' = flying \union
       {[id |-> search.requestId,
         page |-> IF search.status = "paging" /\ cursor # None THEN cursor ELSE First(search)]}
  /\ UNCHANGED <<field, search, shown, cursor, mounted, typed>>

(* Mutant: whatever arrives is shown.                                       *)
AnswersAll(r) == mounted

Answers(r) == mounted /\ r.id = search.requestId

(* A page arrives: appended when paging, shown alone otherwise.  It may be  *)
(* empty, and may say that there is another.                                *)
PageArrives(r) ==
  /\ r \in flying /\ flying' = flying \ {r}
  /\ \/ ~Answers(r) /\ UNCHANGED <<search, shown, cursor>>
     \/ /\ Answers(r)
        /\ \E page \in {<<>>, <<r.page>>} :
             /\ shown' = IF search.status = "paging" THEN shown \o page ELSE page
             /\ \/ cursor' = None
                \/ page # <<>> /\ r.page.number < Pages /\ cursor' = Following(r.page)
        /\ search' = [search EXCEPT !.status = IF shown' = <<>> THEN "empty" ELSE "results"]
  /\ UNCHANGED <<field, issued, mounted, typed>>

RequestFails(r) ==
  /\ r \in flying /\ flying' = flying \ {r}
  /\ \/ ~Answers(r) /\ UNCHANGED search
     \/ Answers(r) /\ search' = [search EXCEPT !.status = "error"]
  /\ UNCHANGED <<field, shown, cursor, issued, mounted, typed>>

SearchNext ==
  \/ \E q \in Queries \union {None} : Type(q)
  \/ \E q \in Queries : SearchFor(q)
  \/ Submit \/ ClearQuery \/ LoadMore \/ Retry \/ Leave \/ SendRequest
  \/ \E f \in Filters : ApplyFilters(f)
  \/ \E r \in flying : PageArrives(r) \/ RequestFails(r)

SearchSpec == SearchInit /\ [][SearchNext]_searchVars

-----------------------------------------------------------------------------
(* Properties                                                               *)

OneList(of) ==
  /\ \A k \in DOMAIN shown : shown[k] = [First(of) EXCEPT !.number = k]
  /\ cursor # None => cursor = [First(of) EXCEPT !.number = Len(shown) + 1]

(* Under a query, what is shown is the first pages of the results for that  *)
(* query and those filters, in order, without a gap or a repetition, and    *)
(* the next page to load is the one that follows them (searchState.ts: a    *)
(* superseded response is harmless; fetching a page and narrowing it is     *)
(* unrepresentable).                                                        *)
ListIsOfTheSearch == search.query # None => OneList(search)

(* searchState.ts:53 and 121 say of an answer that it would be "results for *)
(* a request nobody is waiting for" and of a blank query that it goes to    *)
(* idle and starts no request: with no query there is never a result, a     *)
(* failure or a request.                                                    *)
BlankInvitesAQuery == search.query = None => search.status = "idle"
=============================================================================
