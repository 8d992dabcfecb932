------------------------------ MODULE ScreenProofs ------------------------------
(* Proofs about CatalogueSearch, VoiceSearch, BookSearch and EpubPage: what   *)
(* is shown is the results of the search on the screen, the microphone runs   *)
(* for the session on the screen, the hits in a book are the places where the *)
(* term stands, and the page of a book carries the marks it was asked for,    *)
(* for any number of requests, sessions, results, words, marks and displays.  *)
EXTENDS CatalogueSearch, VoiceSearch, BookSearch, EpubPage,
        FiniteSetTheorems, SequenceTheorems, TLAPS

-----------------------------------------------------------------------------
(* The catalogue's results.                                                   *)

(* The page a request for the search as it stands would ask for.              *)
Wants == IF search.status = "paging" THEN cursor ELSE First(search)

(* Requests are no newer than the search; the one that answers it asks for    *)
(* the page that follows what is shown.                                       *)
Asked ==
  /\ issued <= search.requestId
  /\ \A r \in flying : r.id <= issued
  /\ search.status = "paging" => cursor # None
  /\ search.query # None =>
       \A r \in flying : r.id = search.requestId => search.status \in Waiting /\ r.page = Wants

SearchInv == SearchTypeOK /\ Asked /\ ListIsOfTheSearch

Search == [query : Queries \union {None}, filters : Filters,
           status : {"idle", "loading", "paging", "results", "empty", "error"},
           requestId : 0..MaxRequests]

LEMMA SearchBegins == SearchInit => SearchInv
<1> SUFFICES ASSUME SearchInit PROVE SearchInv
  OBVIOUS
<1>1. NoFilters \in Filters
  BY DEF NoFilters, Filters
<1>2. SearchTypeOK
  BY <1>1, SearchAssumption DEF SearchInit, SearchTypeOK
<1>3. Asked /\ ListIsOfTheSearch
  BY DEF SearchInit, Asked, ListIsOfTheSearch
<1> QED BY <1>2, <1>3 DEF SearchInv

LEMMA FirstTyped ==
  ASSUME NEW s \in Search
  PROVE  /\ First(s) \in PageOf /\ First(s).number = 1
         /\ First(s).query = s.query /\ First(s).filters = s.filters
<1>1. 1 \in 1 .. Pages
  BY SearchAssumption
<1> QED BY <1>1 DEF First, PageOf, Search

(* A new search, or none, with nothing shown.                                 *)
LEMMA Restarts ==
  ASSUME SearchInv, search' \in Search, search.requestId <= search'.requestId,
         search'.status # "paging",
         search'.query # None => search.requestId < search'.requestId,
         shown' = <<>>, cursor' = None, UNCHANGED <<issued, flying>>
  PROVE  Asked' /\ ListIsOfTheSearch'
<1>1. \A r \in flying : r.id \in Nat /\ search.requestId \in Nat /\ issued \in Nat
  BY DEF SearchInv, SearchTypeOK, Requests
<1>2. search.requestId \in Nat /\ issued \in Nat /\ search'.requestId \in Nat
  BY DEF SearchInv, SearchTypeOK, Search
<1>3. Asked'
  BY <1>1, <1>2 DEF SearchInv, Asked
<1>4. ListIsOfTheSearch'
  BY DEF ListIsOfTheSearch, OneList
<1> QED BY <1>3, <1>4

(* The same search, asked again under a new number.                           *)
LEMMA AsksAgain ==
  ASSUME SearchInv, NEW status \in {"loading", "paging"},
         search.requestId < MaxRequests,
         status = "paging" => cursor # None,
         search' = [search EXCEPT !.status = status, !.requestId = search.requestId + 1],
         UNCHANGED <<shown, cursor, issued, flying>>
  PROVE  search' \in Search /\ Asked' /\ ListIsOfTheSearch'
<1>1. search \in Search
  BY DEF SearchInv, SearchTypeOK, Search
<1>2. search.requestId + 1 \in 0 .. MaxRequests
  BY <1>1, SearchAssumption DEF Search
<1>3. /\ search' \in Search /\ search'.status = status
      /\ search'.requestId = search.requestId + 1
      /\ search'.query = search.query /\ search'.filters = search.filters
  BY <1>1, <1>2 DEF Search
<1>4. \A r \in flying : r.id \in Nat
  BY DEF SearchInv, SearchTypeOK, Requests
<1>5. issued \in Nat /\ search.requestId \in Nat
  BY <1>1 DEF SearchInv, SearchTypeOK, Search
<1>6. Asked'
  BY <1>3, <1>4, <1>5 DEF SearchInv, Asked
<1>7. ListIsOfTheSearch'
  BY <1>3 DEF SearchInv, ListIsOfTheSearch, OneList, First
<1> QED BY <1>3, <1>6, <1>7

(* A page at the end of one list makes one list.                              *)
LEMMA PageAdded ==
  ASSUME NEW list \in Seq(PageOf), NEW p \in PageOf, NEW s \in Search,
         \A k \in DOMAIN list : list[k] = [First(s) EXCEPT !.number = k],
         p = [First(s) EXCEPT !.number = Len(list) + 1]
  PROVE  /\ list \o <<p>> \in Seq(PageOf) /\ Len(list \o <<p>>) = Len(list) + 1
         /\ \A k \in DOMAIN (list \o <<p>>) :
              (list \o <<p>>)[k] = [First(s) EXCEPT !.number = k]
<1>1. list \o <<p>> \in Seq(PageOf) /\ Len(list \o <<p>>) = Len(list) + 1
  OBVIOUS
<1>2. ASSUME NEW k \in DOMAIN (list \o <<p>>)
      PROVE  (list \o <<p>>)[k] = [First(s) EXCEPT !.number = k]
  <2>1. k \in 1 .. Len(list) + 1 /\ Len(list) \in Nat
    BY <1>1, <1>2
  <2>2. CASE k \in 1 .. Len(list)
    <3>1. (list \o <<p>>)[k] = list[k]
      BY <2>2
    <3> QED BY <2>2, <3>1
  <2>3. CASE k = Len(list) + 1
    <3>1. (list \o <<p>>)[k] = p
      BY <2>1, <2>3
    <3> QED BY <2>3, <3>1
  <2> QED BY <2>1, <2>2, <2>3
<1> QED BY <1>1, <1>2

(* The answer to the search on the screen.                                    *)
LEMMA PageShown ==
  ASSUME SearchInv, NEW r \in flying, PageArrives(r), Answers(r), search.query # None
  PROVE  shown' \in Seq(PageOf) /\ cursor' \in PageOf \union {None} /\ OneList(search)'
<1>1. search \in Search /\ r \in Requests /\ r.page \in PageOf /\ shown \in Seq(PageOf)
  BY DEF SearchInv, SearchTypeOK, Search, Requests
<1>2. PICK page \in {<<>>, <<r.page>>} :
        /\ shown' = IF search.status = "paging" THEN shown \o page ELSE page
        /\ \/ cursor' = None
           \/ page # <<>> /\ r.page.number < Pages /\ cursor' = Following(r.page)
  BY DEF PageArrives
<1>3. search'.query = search.query /\ search'.filters = search.filters /\ First(search)' = First(search)
  BY <1>1 DEF PageArrives, Search, First
<1>4. search.status \in Waiting /\ r.page = Wants
  BY DEF Answers, SearchInv, Asked
<1>5. OneList(search)
  BY DEF SearchInv, ListIsOfTheSearch
<1>6. First(search) \in PageOf /\ First(search).number = 1
  BY <1>1, FirstTyped
<1>7. r.page = [First(search) EXCEPT !.number = IF search.status = "paging" THEN Len(shown) + 1 ELSE 1]
  <2>1. CASE search.status = "paging"
    BY <1>4, <1>5, <2>1 DEF Wants, OneList, SearchInv, Asked
  <2>2. CASE search.status # "paging"
    BY <1>4, <1>6, <2>2 DEF Wants, First
  <2> QED BY <2>1, <2>2
<1>8. /\ shown' \in Seq(PageOf)
      /\ \A k \in DOMAIN shown' : shown'[k] = [First(search) EXCEPT !.number = k]
      /\ page # <<>> => r.page = [First(search) EXCEPT !.number = Len(shown')]
  <2>1. CASE page = <<>>
    BY <1>1, <1>2, <1>5, <2>1 DEF OneList
  <2>2. CASE page # <<>> /\ search.status = "paging"
    <3>1. shown' = shown \o <<r.page>>
      BY <1>2, <2>2
    <3> QED BY <1>1, <1>5, <1>7, <2>2, <3>1, PageAdded DEF OneList
  <2>3. CASE page # <<>> /\ search.status # "paging"
    <3>1. shown' = <<r.page>> /\ r.page = [First(search) EXCEPT !.number = 1]
      BY <1>2, <1>7, <2>3
    <3>2. Len(shown') = 1 /\ DOMAIN shown' = {1} /\ shown'[1] = r.page
      BY <3>1
    <3> QED BY <1>1, <3>1, <3>2
  <2> QED BY <2>1, <2>2, <2>3
<1>9. cursor' # None => /\ cursor' \in PageOf
                        /\ cursor' = [First(search) EXCEPT !.number = Len(shown') + 1]
  <2> SUFFICES ASSUME cursor' # None
               PROVE  /\ cursor' \in PageOf
                      /\ cursor' = [First(search) EXCEPT !.number = Len(shown') + 1]
    OBVIOUS
  <2>1. page # <<>> /\ r.page.number < Pages /\ cursor' = [r.page EXCEPT !.number = r.page.number + 1]
    BY <1>2 DEF Following
  <2>2. r.page.number \in 1 .. Pages /\ r.page.number + 1 \in 1 .. Pages
    BY <1>1, <2>1, SearchAssumption DEF PageOf
  <2>3. r.page.number = Len(shown')
    BY <1>6, <1>8, <2>1 DEF PageOf
  <2>4. cursor' \in PageOf
    BY <1>1, <2>1, <2>2 DEF PageOf
  <2>5. [r.page EXCEPT !.number = Len(shown') + 1] = [First(search) EXCEPT !.number = Len(shown') + 1]
    BY <1>6, <1>8, <2>1 DEF PageOf
  <2> QED BY <2>1, <2>3, <2>4, <2>5
<1> QED BY <1>3, <1>8, <1>9 DEF OneList

LEMMA SearchStep ==
  ASSUME SearchInv, [SearchNext]_searchVars
  PROVE  SearchInv'
<1> USE SearchAssumption
<1>t. SearchTypeOK /\ Asked /\ ListIsOfTheSearch /\ search \in Search
  BY DEF SearchInv, SearchTypeOK, Search
<1>n. /\ search.requestId \in Nat /\ issued \in Nat /\ search.requestId + 1 \in Nat
      /\ MaxRequests \in Nat /\ \A r \in flying : r \in Requests /\ r.id \in Nat
  BY <1>t DEF SearchTypeOK, Search, Requests
<1>b. ASSUME NEW q \in Queries \union {None}, NEW f \in Filters, Begins(q, f),
             UNCHANGED <<issued, flying>>
      PROVE  search' \in Search /\ Asked' /\ ListIsOfTheSearch'
  <2>1. CASE q = None
    <3>1. search' = [search EXCEPT !.query = None, !.filters = f, !.status = "idle"]
      BY <1>b, <2>1 DEF Begins
    <3>2. /\ search' \in Search /\ search'.query = None /\ search'.status = "idle"
          /\ search'.requestId = search.requestId
      BY <1>b, <1>t, <3>1 DEF Search
    <3> QED BY <1>b, <1>n, <3>2, Restarts DEF Begins, Empties
  <2>2. CASE q # None
    <3>1. search' = [query |-> q, filters |-> f, status |-> "loading",
                     requestId |-> search.requestId + 1]
          /\ search.requestId < MaxRequests
      BY <1>b, <2>2 DEF Begins
    <3>2. search.requestId + 1 \in 0 .. MaxRequests
      BY <1>n, <3>1
    <3>3. /\ search' \in Search /\ search'.status = "loading"
          /\ search'.requestId = search.requestId + 1
      BY <1>b, <3>1, <3>2 DEF Search
    <3> QED BY <1>b, <1>n, <3>3, Restarts DEF Begins, Empties
  <2> QED BY <2>1, <2>2
<1>f. field \in Queries \union {None} /\ search.filters \in Filters /\ typed \in 0 .. MaxTyped
  BY <1>t DEF SearchTypeOK, Search
<1>e. shown' = <<>> /\ cursor' = None => shown' \in Seq(PageOf) /\ cursor' \in PageOf \union {None}
  OBVIOUS
<1>1. ASSUME NEW q \in Queries \union {None}, Type(q) PROVE SearchInv'
  <2>1. SearchTypeOK'
    BY <1>1, <1>t, <1>f DEF Type, Typed, SearchTypeOK
  <2> QED BY <1>1, <1>t, <2>1
      DEF Type, SearchInv, Asked, Wants, First, ListIsOfTheSearch, OneList
<1>2. CASE Submit
  <2>1. Begins(field, search.filters) /\ UNCHANGED <<field, issued, flying, mounted, typed>>
    BY <1>2 DEF Submit
  <2>2. search' \in Search /\ Asked' /\ ListIsOfTheSearch'
    BY <1>b, <1>f, <2>1
  <2>3. SearchTypeOK'
    BY <1>t, <1>e, <2>1, <2>2 DEF SearchTypeOK, Search, Begins, Empties
  <2> QED BY <2>2, <2>3 DEF SearchInv
<1>3. ASSUME NEW q \in Queries, SearchFor(q) PROVE SearchInv'
  <2>1. Begins(q, search.filters) /\ UNCHANGED <<issued, flying, mounted>>
        /\ typed' \in 0 .. MaxTyped /\ field' = q
    BY <1>3, <1>f DEF SearchFor, Typed
  <2>2. search' \in Search /\ Asked' /\ ListIsOfTheSearch'
    BY <1>b, <1>f, <2>1
  <2>3. SearchTypeOK'
    BY <1>t, <1>e, <2>1, <2>2 DEF SearchTypeOK, Search, Begins, Empties
  <2> QED BY <2>2, <2>3 DEF SearchInv
<1>4. CASE ClearQuery
  <2>1. /\ search' = [search EXCEPT !.query = None, !.status = "idle",
                                    !.requestId = search.requestId + 1]
        /\ search.requestId < MaxRequests
        /\ shown' = <<>> /\ cursor' = None /\ field' = None
        /\ UNCHANGED <<issued, flying, mounted, typed>>
    BY <1>4 DEF ClearQuery, Empties
  <2>2. search.requestId + 1 \in 0 .. MaxRequests
    BY <1>n, <2>1
  <2>3. /\ search' \in Search /\ search'.query = None /\ search'.status = "idle"
        /\ search'.requestId = search.requestId + 1
    BY <1>t, <2>1, <2>2 DEF Search
  <2>4. Asked' /\ ListIsOfTheSearch'
    BY <1>n, <2>1, <2>3, Restarts
  <2>5. SearchTypeOK'
    BY <1>t, <1>e, <2>1, <2>3 DEF SearchTypeOK, Search
  <2> QED BY <2>4, <2>5 DEF SearchInv
<1>5. ASSUME NEW f \in Filters, ApplyFilters(f) PROVE SearchInv'
  <2> DEFINE status == IF search.query = None THEN "idle" ELSE "loading"
             id == IF search.query = None THEN search.requestId ELSE search.requestId + 2
  <2>1. /\ search' = [search EXCEPT !.filters = f, !.status = status, !.requestId = id]
        /\ search'.requestId <= MaxRequests
        /\ shown' = <<>> /\ cursor' = None /\ typed' \in 0 .. MaxTyped
        /\ UNCHANGED <<field, issued, flying, mounted>>
    BY <1>5, <1>f DEF ApplyFilters, Empties
  <2>2. status \in {"idle", "loading"} /\ id \in Nat /\ search.requestId <= id
        /\ (search.query # None => search.requestId < id)
    BY <1>n
  <2> HIDE DEF status, id
  <2>3. /\ search'.requestId = id /\ search'.status = status /\ search'.query = search.query
        /\ search'.filters = f
    BY <1>t, <2>1 DEF Search
  <2>4. id \in 0 .. MaxRequests
    BY <1>n, <2>1, <2>2, <2>3
  <2>5. search' \in Search
    BY <1>t, <2>1, <2>2, <2>4 DEF Search
  <2>6. Asked' /\ ListIsOfTheSearch'
    BY <2>1, <2>2, <2>3, <2>5, Restarts
  <2>7. SearchTypeOK'
    BY <1>t, <1>e, <2>1, <2>5 DEF SearchTypeOK, Search
  <2> QED BY <2>6, <2>7 DEF SearchInv
<1>6. CASE LoadMore
  <2>1. /\ search' = [search EXCEPT !.status = "paging", !.requestId = search.requestId + 1]
        /\ search.requestId < MaxRequests /\ cursor # None
        /\ UNCHANGED <<field, shown, cursor, issued, flying, mounted, typed>>
    BY <1>6 DEF LoadMore
  <2>2. search' \in Search /\ Asked' /\ ListIsOfTheSearch'
    BY <2>1, AsksAgain
  <2>3. SearchTypeOK'
    BY <1>t, <2>1, <2>2 DEF SearchTypeOK, Search
  <2> QED BY <2>2, <2>3 DEF SearchInv
<1>7. CASE Retry
  <2> DEFINE status == IF cursor # None /\ shown # <<>> THEN "paging" ELSE "loading"
  <2>1. /\ search' = [search EXCEPT !.status = status, !.requestId = search.requestId + 1]
        /\ search.requestId < MaxRequests
        /\ UNCHANGED <<field, shown, cursor, issued, flying, mounted, typed>>
    BY <1>7 DEF Retry
  <2>2. status \in {"loading", "paging"} /\ (status = "paging" => cursor # None)
    OBVIOUS
  <2> HIDE DEF status
  <2>3. search' \in Search /\ Asked' /\ ListIsOfTheSearch'
    BY <2>1, <2>2, AsksAgain
  <2>4. SearchTypeOK'
    BY <1>t, <2>1, <2>3 DEF SearchTypeOK, Search
  <2> QED BY <2>3, <2>4 DEF SearchInv
<1>8. CASE Leave
  <2>1. SearchTypeOK'
    BY <1>8, <1>t DEF Leave, SearchTypeOK
  <2> QED BY <1>8, <1>t, <2>1
      DEF Leave, SearchInv, Asked, Wants, First, ListIsOfTheSearch, OneList
<1>9. CASE SendRequest
  <2> DEFINE page == IF search.status = "paging" /\ cursor # None THEN cursor ELSE First(search)
             r == [id |-> search.requestId, page |-> page]
  <2>1. /\ flying' = flying \union {r} /\ issued' = search.requestId
        /\ issued # search.requestId /\ search.status \in Waiting
        /\ UNCHANGED <<field, search, shown, cursor, mounted, typed>>
    BY <1>9 DEF SendRequest
  <2>2. page = Wants /\ page \in PageOf
    BY <1>t, FirstTyped DEF Wants, Asked, SearchTypeOK
  <2>3. search.requestId \in 1 .. MaxRequests
    BY <1>t, <1>n, <2>1 DEF Asked, Search
  <2>4. r \in Requests /\ r.id = search.requestId /\ r.page = Wants
    BY <2>2, <2>3 DEF Requests
  <2> HIDE DEF r, page
  <2>5. SearchTypeOK'
    BY <1>t, <2>1, <2>3, <2>4 DEF SearchTypeOK
  <2>6. Wants' = Wants
    BY <2>1 DEF Wants, First
  <2>7. \A s \in flying : s.id # search.requestId
    BY <1>t, <1>n, <2>1 DEF Asked
  <2>8. Asked'
    BY <1>t, <1>n, <2>1, <2>4, <2>6, <2>7 DEF Asked
  <2>9. ListIsOfTheSearch'
    BY <1>t, <2>1 DEF ListIsOfTheSearch, OneList, First
  <2> QED BY <2>5, <2>8, <2>9 DEF SearchInv
(* At most one request under way answers the search on the screen.            *)
<1>u. ASSUME search.query # None, NEW r \in flying, Answers(r),
             NEW s \in flying \ {r}, s.id = search.requestId
      PROVE  FALSE
  <2>1. r.page = Wants /\ s.page = Wants /\ r.id = s.id
    BY <1>u, <1>t DEF Asked, Answers
  <2>2. r \in Requests /\ s \in Requests
    BY <1>n
  <2>3. r = s
    BY <2>1, <2>2 DEF Requests
  <2> QED BY <2>3
<1>10. ASSUME NEW r \in flying, PageArrives(r) PROVE SearchInv'
  <2>1. flying' = flying \ {r} /\ UNCHANGED <<field, issued, mounted, typed>>
    BY <1>10 DEF PageArrives
  <2>2. CASE ~Answers(r)
    <3>1. UNCHANGED <<search, shown, cursor>>
      BY <1>10, <2>2 DEF PageArrives
    <3>2. SearchTypeOK'
      BY <1>t, <2>1, <3>1 DEF SearchTypeOK
    <3> QED BY <1>t, <2>1, <3>1, <3>2
        DEF SearchInv, Asked, Wants, First, ListIsOfTheSearch, OneList
  <2>3. CASE Answers(r)
    <3>1. PICK status \in {"empty", "results"} : search' = [search EXCEPT !.status = status]
      BY <1>10, <2>3 DEF PageArrives
    <3>2. /\ search' \in Search /\ search'.status = status /\ search'.query = search.query
          /\ search'.requestId = search.requestId
      BY <1>t, <3>1 DEF Search
    <3>3. shown' \in Seq(PageOf) /\ cursor' \in PageOf \union {None}
      <4>1. r.page \in PageOf /\ shown \in Seq(PageOf)
        BY <1>n, <1>t DEF Requests, SearchTypeOK
      <4>2. PICK page \in {<<>>, <<r.page>>} :
              /\ shown' = IF search.status = "paging" THEN shown \o page ELSE page
              /\ \/ cursor' = None
                 \/ page # <<>> /\ r.page.number < Pages /\ cursor' = Following(r.page)
        BY <1>10, <2>3 DEF PageArrives
      <4>3. page \in Seq(PageOf)
        <5>1. <<>> \in Seq(PageOf) /\ <<r.page>> \in Seq(PageOf)
          BY <4>1
        <5> QED BY <4>2, <5>1
      <4>4. shown' \in Seq(PageOf)
        BY <4>1, <4>2, <4>3
      <4>5. r.page.number < Pages => Following(r.page) \in PageOf
        <5> SUFFICES ASSUME r.page.number < Pages PROVE Following(r.page) \in PageOf
          OBVIOUS
        <5>1. r.page.number + 1 \in 1 .. Pages
          BY <4>1 DEF PageOf
        <5> QED BY <4>1, <5>1 DEF Following, PageOf
      <4> QED BY <4>2, <4>4, <4>5
    <3>4. SearchTypeOK'
      BY <1>t, <2>1, <3>2, <3>3 DEF SearchTypeOK, Search
    <3>5. Asked'
      BY <1>t, <1>u, <2>1, <2>3, <3>2 DEF Asked
    <3>6. ListIsOfTheSearch'
      <4>1. search.query # None => OneList(search)'
        BY <1>10, <2>3, PageShown
      <4> QED BY <3>2, <4>1 DEF ListIsOfTheSearch
    <3> QED BY <3>4, <3>5, <3>6 DEF SearchInv
  <2> QED BY <2>2, <2>3
<1>11. ASSUME NEW r \in flying, RequestFails(r) PROVE SearchInv'
  <2>1. flying' = flying \ {r} /\ UNCHANGED <<field, shown, cursor, issued, mounted, typed>>
    BY <1>11 DEF RequestFails
  <2>2. CASE ~Answers(r)
    <3>1. search' = search
      BY <1>11, <2>2 DEF RequestFails
    <3>2. SearchTypeOK'
      BY <1>t, <2>1, <3>1 DEF SearchTypeOK
    <3> QED BY <1>t, <2>1, <3>1, <3>2
        DEF SearchInv, Asked, Wants, First, ListIsOfTheSearch, OneList
  <2>3. CASE Answers(r)
    <3>1. search' = [search EXCEPT !.status = "error"]
      BY <1>11, <2>3 DEF RequestFails
    <3>2. /\ search' \in Search /\ search'.status = "error" /\ search'.query = search.query
          /\ search'.filters = search.filters /\ search'.requestId = search.requestId
      BY <1>t, <3>1 DEF Search
    <3>3. SearchTypeOK'
      BY <1>t, <2>1, <3>2 DEF SearchTypeOK, Search
    <3>4. Asked'
      BY <1>t, <1>u, <2>1, <2>3, <3>2 DEF Asked
    <3>5. ListIsOfTheSearch'
      BY <1>t, <2>1, <3>2 DEF ListIsOfTheSearch, OneList, First
    <3> QED BY <3>3, <3>4, <3>5 DEF SearchInv
  <2> QED BY <2>2, <2>3
<1>12. CASE UNCHANGED searchVars
  <2>1. SearchTypeOK'
    BY <1>12, <1>t DEF searchVars, SearchTypeOK
  <2> QED BY <1>12, <1>t, <2>1
      DEF searchVars, SearchInv, Asked, Wants, First, ListIsOfTheSearch, OneList
<1> QED
  BY <1>1, <1>2, <1>3, <1>4, <1>5, <1>6, <1>7, <1>8, <1>9, <1>10, <1>11, <1>12 DEF SearchNext

THEOREM SearchInvariance == SearchSpec => []SearchInv
BY SearchBegins, SearchStep, PTL DEF SearchSpec

(* What is shown is the first pages of the search on the screen, however its  *)
(* requests overtake one another, fail and are superseded.                    *)
THEOREM ListStaysOfTheSearch == SearchSpec => []ListIsOfTheSearch
<1>1. SearchInv => ListIsOfTheSearch
  BY DEF SearchInv
<1> QED BY <1>1, SearchInvariance, PTL

-----------------------------------------------------------------------------
(* The microphone.                                                            *)

VoiceEvent == [kind : Kinds, session : Sessions, words : Words \union {None}]
EventsOf(s) == {s[i] : i \in DOMAIN s}

(* Who is still asked for the permission: nobody the recogniser has heard of. *)
Prompted ==
  \A s \in prompts :
    /\ s <= taken /\ active # s /\ mic # s
    /\ s = voice.sessionId => voice.status = "checkingPermission"
    /\ \A e \in EventsOf(events) : e.session # s

(* What is told of a session was begun, and a recogniser that still runs has  *)
(* not told of its end.                                                       *)
Told ==
  /\ taken <= voice.sessionId
  /\ active # None => active <= taken
  /\ mic # None => mic <= taken
  /\ \A e \in EventsOf(events) : e.session <= taken
  /\ \A e \in EventsOf(events) : e.kind \in {"error", "end"} => e.session # mic

(* The recogniser runs for the session the effect acted on last.              *)
Heard ==
  mic # None /\ ~misread =>
    /\ there /\ active = mic /\ mic = taken
    /\ mic = voice.sessionId => voice.status \in OpenStatuses

VoiceInv == VoiceTypeOK /\ Prompted /\ Told /\ Heard

Voice == [status : {"closed", "checkingPermission", "listening", "processing", "done",
                    "noSpeech", "permissionDenied", "failed"},
          transcript : Words \union {None}, sessionId : 0..MaxSessions]

LEMMA EventsAdded ==
  ASSUME NEW s \in Seq(VoiceEvent), NEW t \in Seq(VoiceEvent)
  PROVE  s \o t \in Seq(VoiceEvent) /\ EventsOf(s \o t) = EventsOf(s) \union EventsOf(t)
<1>1. s \o t \in Seq(VoiceEvent) /\ Len(s \o t) = Len(s) + Len(t)
      /\ Len(s) \in Nat /\ Len(t) \in Nat
  OBVIOUS
<1>2. ASSUME NEW i \in DOMAIN (s \o t) PROVE (s \o t)[i] \in EventsOf(s) \union EventsOf(t)
  <2>1. i \in 1 .. Len(s) + Len(t)
    BY <1>1, <1>2
  <2>2. CASE i <= Len(s)
    <3>1. i \in DOMAIN s /\ (s \o t)[i] = s[i]
      BY <1>1, <2>1, <2>2
    <3> QED BY <3>1 DEF EventsOf
  <2>3. CASE ~(i <= Len(s))
    <3>1. i - Len(s) \in DOMAIN t /\ (s \o t)[i] = t[i - Len(s)]
      BY <1>1, <2>1, <2>3
    <3> QED BY <3>1 DEF EventsOf
  <2> QED BY <2>2, <2>3
<1>3. ASSUME NEW i \in DOMAIN s PROVE s[i] \in EventsOf(s \o t)
  <2>1. i \in DOMAIN (s \o t) /\ (s \o t)[i] = s[i]
    BY <1>1, <1>3
  <2> QED BY <2>1 DEF EventsOf
<1>4. ASSUME NEW i \in DOMAIN t PROVE t[i] \in EventsOf(s \o t)
  <2>1. i + Len(s) \in DOMAIN (s \o t) /\ (s \o t)[i + Len(s)] = t[i]
    BY <1>1, <1>4
  <2> QED BY <2>1 DEF EventsOf
<1> QED BY <1>1, <1>2, <1>3, <1>4 DEF EventsOf

LEMMA EventsTaken ==
  ASSUME NEW s \in Seq(VoiceEvent), s # <<>>
  PROVE  /\ Tail(s) \in Seq(VoiceEvent) /\ EventsOf(Tail(s)) \subseteq EventsOf(s)
         /\ Head(s) \in VoiceEvent /\ Head(s) \in EventsOf(s)
<1>1. Tail(s) \in Seq(VoiceEvent) /\ Head(s) \in VoiceEvent /\ Head(s) = s[1] /\ 1 \in DOMAIN s
  OBVIOUS
<1>2. ASSUME NEW i \in DOMAIN Tail(s) PROVE i + 1 \in DOMAIN s /\ Tail(s)[i] = s[i + 1]
  BY <1>2
<1> QED BY <1>1, <1>2 DEF EventsOf

LEMMA VoiceBegins == VoiceInit => VoiceInv
<1> SUFFICES ASSUME VoiceInit PROVE VoiceInv
  OBVIOUS
<1>1. EventsOf(<<>>) = {} /\ <<>> \in Seq(VoiceEvent)
  BY DEF EventsOf
<1>2. VoiceTypeOK
  <2>1. 0 \in 0 .. MaxSessions /\ 0 \in 0 .. MaxHeard
    BY VoiceAssumption
  <2>2. voice \in Voice
    BY <2>1 DEF VoiceInit, Voice
  <2>3. {active, mic} \subseteq Sessions \union {None} /\ prompts \subseteq Sessions
    BY DEF VoiceInit
  <2> QED BY <1>1, <2>1, <2>2, <2>3 DEF VoiceInit, VoiceTypeOK, VoiceEvent, Voice
<1>3. Prompted /\ Told /\ Heard
  BY <1>1 DEF VoiceInit, Prompted, Told, Heard
<1> QED BY <1>2, <1>3 DEF VoiceInv

(* Whatever the recogniser tells of the session it runs for.                  *)
LEMMA Emitted ==
  ASSUME VoiceTypeOK, mic # None, NEW tail \in Seq(VoiceEvent),
         \A e \in EventsOf(tail) : e.session = mic, Emits(tail)
  PROVE  /\ events' \in Seq(VoiceEvent)
         /\ \A e \in EventsOf(events') : e \in EventsOf(events) \/ e \in EventsOf(tail)
BY EventsAdded DEF Emits, VoiceTypeOK, VoiceEvent

LEMMA EventTyped ==
  ASSUME NEW s \in Sessions, NEW kind \in Kinds
  PROVE  Event(kind, s) \in VoiceEvent /\ Event(kind, s).session = s /\ Event(kind, s).kind = kind
BY DEF Event, VoiceEvent

LEMMA Tails ==
  ASSUME NEW S \in SUBSET VoiceEvent
  PROVE  /\ <<>> \in Seq(VoiceEvent) /\ EventsOf(<<>>) = {}
         /\ \A a \in S : <<a>> \in Seq(VoiceEvent) /\ EventsOf(<<a>>) = {a}
         /\ \A a, b \in S : <<a, b>> \in Seq(VoiceEvent) /\ EventsOf(<<a, b>>) = {a, b}
<1>1. <<>> \in Seq(VoiceEvent) /\ EventsOf(<<>>) = {}
  BY DEF EventsOf
<1>2. ASSUME NEW a \in S PROVE <<a>> \in Seq(VoiceEvent) /\ EventsOf(<<a>>) = {a}
  <2>1. DOMAIN <<a>> = {1} /\ <<a>>[1] = a
    OBVIOUS
  <2> QED BY <2>1 DEF EventsOf
<1>3. ASSUME NEW a \in S, NEW b \in S
      PROVE  <<a, b>> \in Seq(VoiceEvent) /\ EventsOf(<<a, b>>) = {a, b}
  <2>1. DOMAIN <<a, b>> = {1, 2} /\ <<a, b>>[1] = a /\ <<a, b>>[2] = b
    OBVIOUS
  <2> QED BY <2>1 DEF EventsOf
<1> QED BY <1>1, <1>2, <1>3

(* abort() closes the microphone; what trails is of the session it ran for.   *)
LEMMA Aborting ==
  ASSUME VoiceTypeOK, Aborts
  PROVE  /\ mic' = None /\ events' \in Seq(VoiceEvent)
         /\ \A e \in EventsOf(events') :
              e \in EventsOf(events) \/ (mic # None /\ e.session = mic)
<1>1. CASE mic = None
  BY <1>1 DEF Aborts, VoiceTypeOK, VoiceEvent
<1>2. CASE mic # None
  <2>1. mic \in Sessions
    BY <1>2 DEF VoiceTypeOK
  <2>2. Event("end", mic) \in VoiceEvent /\ Event("error", mic) \in VoiceEvent
        /\ Event("end", mic).session = mic /\ Event("error", mic).session = mic
    BY <2>1, EventTyped DEF Kinds
  <2>3. PICK tail \in {<<>>, <<Event("end", mic)>>, <<Event("error", mic), Event("end", mic)>>} :
          Emits(tail)
    BY <1>2 DEF Aborts
  <2>4. tail \in Seq(VoiceEvent) /\ \A e \in EventsOf(tail) : e.session = mic
    <3> DEFINE ends == Event("end", mic)  fails == Event("error", mic)
    <3>1. {ends, fails} \in SUBSET VoiceEvent /\ ends.session = mic /\ fails.session = mic
      BY <2>2
    <3> HIDE DEF ends, fails
    <3>2. /\ <<>> \in Seq(VoiceEvent) /\ EventsOf(<<>>) = {}
          /\ <<ends>> \in Seq(VoiceEvent) /\ EventsOf(<<ends>>) = {ends}
          /\ <<fails, ends>> \in Seq(VoiceEvent) /\ EventsOf(<<fails, ends>>) = {fails, ends}
      BY <3>1, Tails
    <3>3. tail = <<>> \/ tail = <<ends>> \/ tail = <<fails, ends>>
      BY <2>3 DEF ends, fails
    <3> QED BY <3>1, <3>2, <3>3
  <2> QED BY <1>2, <2>3, <2>4, Emitted DEF Aborts
<1> QED BY <1>1, <1>2

LEMMA Stopping ==
  ASSUME VoiceInv, StopsRecognition
  PROVE  /\ active' = None /\ events' \in Seq(VoiceEvent)
         /\ mic' = None \/ (misread /\ mic' = mic /\ events' = events)
         /\ \A e \in EventsOf(events') :
              e \in EventsOf(events) \/ (mic # None /\ e.session = mic)
<1>t. VoiceTypeOK /\ Heard
  BY DEF VoiceInv
<1>1. CASE active = None
  <2>1. UNCHANGED <<active, mic, events>>
    BY <1>1 DEF StopsRecognition
  <2>2. events \in Seq(VoiceEvent)
    BY <1>t DEF VoiceTypeOK, VoiceEvent
  <2>3. mic = None \/ misread
    BY <1>t, <1>1 DEF Heard, VoiceTypeOK
  <2> QED BY <1>1, <2>1, <2>2, <2>3
<1>2. CASE active # None
  <2>1. active' = None /\ Aborts
    BY <1>2 DEF StopsRecognition, Disowns
  <2> QED BY <1>t, <2>1, Aborting
<1> QED BY <1>1, <1>2

(* What the stopped session may still tell leaves nobody's promise broken.    *)
LEMMA Quieted ==
  ASSUME VoiceInv, VoiceTypeOK', UNCHANGED <<prompts, taken, misread>>, active' = None,
         mic' = None \/ (misread /\ mic' = mic /\ events' = events),
         \A e \in EventsOf(events') :
           e \in EventsOf(events) \/ (mic # None /\ e.session = mic),
         taken <= voice'.sessionId,
         \A s \in prompts : s = voice'.sessionId => voice'.status = "checkingPermission"
  PROVE  VoiceInv'
<1>t. VoiceTypeOK /\ Prompted /\ Told
  BY DEF VoiceInv
<1>1. ASSUME NEW e \in EventsOf(events') PROVE e.session \in Sessions
  <2>1. events' \in Seq(VoiceEvent)
    BY DEF VoiceTypeOK, VoiceEvent
  <2>2. e \in VoiceEvent
    BY <1>1, <2>1 DEF EventsOf
  <2> QED BY <2>2 DEF VoiceEvent
<1>2. None \notin Sessions
  BY VoiceAssumption DEF Sessions
<1>3. Prompted'
  <2>1. ASSUME NEW s \in prompts
        PROVE  /\ s <= taken /\ None # s /\ mic # s
               /\ \A e \in EventsOf(events) : e.session # s
    BY <1>t, <1>2, <2>1 DEF Prompted, VoiceTypeOK
  <2> QED BY <2>1 DEF Prompted
<1>4. Told'
  <2>1. mic' # None => mic' <= taken
    BY <1>t DEF Told
  <2>2. \A e \in EventsOf(events') : e.session <= taken
    BY <1>t DEF Told
  <2>3. \A e \in EventsOf(events') : e.kind \in {"error", "end"} => e.session # mic'
    BY <1>t, <1>1, <1>2 DEF Told
  <2> QED BY <2>1, <2>2, <2>3 DEF Told
<1>5. Heard'
  BY DEF Heard
<1> QED BY <1>3, <1>4, <1>5 DEF VoiceInv

(* An event of the active session keeps an open session open, and one of      *)
(* another session moves nothing.                                             *)
LEMMA ReducedWell ==
  ASSUME VoiceTypeOK, NEW e \in VoiceEvent
  PROVE  /\ Reduced(e) \in Voice /\ Reduced(e).sessionId = voice.sessionId
         /\ ~Mine => Reduced(e) = voice
         /\ e.kind \notin {"error", "end"} /\ voice.status \in OpenStatuses
              => Reduced(e).status \in OpenStatuses
<1>1. voice \in Voice /\ e.words \in Words \union {None}
  BY DEF VoiceTypeOK, Voice, VoiceEvent
<1>2. \A status : [voice EXCEPT !.status = status].sessionId = voice.sessionId
  BY <1>1 DEF Voice
<1> QED BY <1>1 DEF Reduced, Mine, Listening, OpenStatuses, Voice

LEMMA VoiceStep == VoiceInv /\ [VoiceNext]_voiceVars => VoiceInv'
<1> SUFFICES ASSUME VoiceInv, [VoiceNext]_voiceVars PROVE VoiceInv'
  OBVIOUS
<1>t. VoiceTypeOK /\ Prompted /\ Told /\ Heard
  BY DEF VoiceInv
<1>v. /\ voice \in Voice /\ events \in Seq(VoiceEvent)
      /\ taken \in 0 .. MaxSessions /\ prompts \subseteq Sessions
      /\ active \in Sessions \union {None} /\ mic \in Sessions \union {None}
      /\ there \in BOOLEAN /\ misread \in BOOLEAN /\ partials \in 0 .. MaxHeard
  BY <1>t DEF VoiceTypeOK, Voice, VoiceEvent
<1>n. None \notin Sessions /\ \A s \in Sessions : s \in Nat
  BY VoiceAssumption DEF Sessions
<1>e. \A e \in EventsOf(events) : e \in VoiceEvent /\ e.session \in Sessions
  <2>1. \A e \in EventsOf(events) : e \in VoiceEvent
    BY <1>v DEF EventsOf
  <2> QED BY <2>1 DEF VoiceEvent
<1>p. \A s \in prompts : s <= taken /\ taken <= voice.sessionId
  BY <1>t DEF Prompted, Told
<1>a. ASSUME NEW status \in {"closed", "checkingPermission"}, Advance(status), StopsRecognition,
             UNCHANGED <<taken, there, prompts, partials, misread>>
      PROVE  VoiceInv'
  <2>1. voice.sessionId < MaxSessions /\ voice.sessionId \in Nat /\ taken \in Nat
    BY <1>a, <1>v DEF Advance, Voice
  <2>2. voice' \in Voice /\ voice'.sessionId = voice.sessionId + 1
    BY <1>a, <1>v, <2>1, VoiceAssumption DEF Advance, Voice
  <2>3. /\ active' = None /\ events' \in Seq(VoiceEvent)
        /\ mic' = None \/ (misread /\ mic' = mic /\ events' = events)
        /\ \A e \in EventsOf(events') :
             e \in EventsOf(events) \/ (mic # None /\ e.session = mic)
    BY <1>a, Stopping
  <2>4. VoiceTypeOK'
    BY <1>a, <1>v, <2>2, <2>3 DEF VoiceTypeOK, Voice, VoiceEvent
  <2>5. taken <= voice'.sessionId /\ \A s \in prompts : s # voice'.sessionId
    BY <1>p, <1>t, <1>v, <1>n, <2>1, <2>2 DEF Told
  <2> QED BY <1>a, <2>3, <2>4, <2>5, Quieted
<1>1. CASE MicPress
  <2>1. Advance("checkingPermission")
        /\ UNCHANGED <<taken, active, there, prompts, mic, events, partials, misread>>
    BY <1>1 DEF MicPress
  <2>2. voice.sessionId < MaxSessions /\ voice.sessionId \in Nat /\ taken \in Nat
    BY <2>1, <1>v DEF Advance, Voice
  <2>3. voice' \in Voice /\ voice'.sessionId = voice.sessionId + 1
    BY <1>v, <2>1, <2>2, VoiceAssumption DEF Advance, Voice
  <2>4. VoiceTypeOK'
    BY <1>t, <1>v, <2>1, <2>3 DEF VoiceTypeOK, Voice
  <2>5. taken <= voice'.sessionId /\ taken # voice'.sessionId
    BY <1>t, <2>2, <2>3 DEF Told
  <2>6. Prompted'
    BY <1>t, <1>p, <1>n, <1>v, <2>1, <2>2, <2>3 DEF Prompted
  <2>7. Told'
    BY <1>t, <2>1, <2>5 DEF Told
  <2>8. Heard'
    BY <1>t, <2>1, <2>5 DEF Heard
  <2> QED BY <2>4, <2>6, <2>7, <2>8 DEF VoiceInv
<1>2. CASE Cancel
  BY <1>2, <1>a DEF Cancel
<1>3. CASE ClearHeard
  BY <1>3, <1>a DEF ClearHeard
<1>4. CASE SubmitHeard
  BY <1>4, <1>a DEF SubmitHeard
<1>5. CASE Unmount
  <2>1. StopsRecognition /\ there' = FALSE /\ UNCHANGED <<voice, taken, prompts, partials, misread>>
    BY <1>5 DEF Unmount
  <2>2. /\ active' = None /\ events' \in Seq(VoiceEvent)
        /\ mic' = None \/ (misread /\ mic' = mic /\ events' = events)
        /\ \A e \in EventsOf(events') :
             e \in EventsOf(events) \/ (mic # None /\ e.session = mic)
    BY <2>1, Stopping
  <2>3. VoiceTypeOK'
    BY <1>v, <2>1, <2>2 DEF VoiceTypeOK, Voice, VoiceEvent
  <2>4. taken <= voice'.sessionId
        /\ \A s \in prompts : s = voice'.sessionId => voice'.status = "checkingPermission"
    BY <1>t, <2>1 DEF Told, Prompted
  <2> QED BY <2>1, <2>2, <2>3, <2>4, Quieted
<1>6. CASE ActOnSession
  <2>1. /\ taken' = voice.sessionId /\ taken # voice.sessionId
        /\ UNCHANGED <<voice, there, partials, misread>>
        /\ prompts' = IF voice.status = "checkingPermission"
                      THEN prompts \union {voice.sessionId} ELSE prompts
    BY <1>6 DEF ActOnSession, Takes
  <2>2. voice.sessionId \in 0 .. MaxSessions /\ taken \in Nat /\ voice.sessionId \in Nat
    BY <1>v DEF Voice
  <2>3. taken < voice.sessionId /\ voice.sessionId \in Sessions
    BY <1>t, <1>v, <2>1, <2>2 DEF Told, Sessions
  <2>4. active # voice.sessionId /\ mic # voice.sessionId
    BY <1>t, <1>n, <1>v, <2>2, <2>3 DEF Told
  <2>5. /\ active' = None /\ events' \in Seq(VoiceEvent)
        /\ mic' = None \/ (misread /\ mic' = mic /\ events' = events)
        /\ \A e \in EventsOf(events') :
             e \in EventsOf(events) \/ (mic # None /\ e.session = mic)
    <3>1. CASE active = None
      <4>1. UNCHANGED <<active, mic, events>>
        BY <1>6, <3>1 DEF ActOnSession, Takes
      <4>2. StopsRecognition
        BY <3>1, <4>1 DEF StopsRecognition
      <4> QED BY <4>2, Stopping
    <3>2. CASE active # None
      <4>1. Disowns
        BY <1>6, <2>4, <3>2 DEF ActOnSession, Takes
      <4>2. StopsRecognition
        BY <3>2, <4>1 DEF StopsRecognition
      <4> QED BY <4>2, Stopping
    <3> QED BY <3>1, <3>2
  <2>6. VoiceTypeOK'
    BY <1>v, <2>1, <2>2, <2>3, <2>5 DEF VoiceTypeOK, Voice, VoiceEvent
  <2>7. \A e \in EventsOf(events') : e.session \in Sessions /\ e.session <= taken
    BY <1>e, <1>t, <1>v, <2>5 DEF Told
  <2>8. Prompted'
    <3>1. ASSUME NEW s \in prompts, NEW e \in EventsOf(events') PROVE e.session # s
      BY <1>t, <2>5, <3>1 DEF Prompted
    <3>2. ASSUME NEW s \in prompts
          PROVE s <= voice.sessionId /\ s # voice.sessionId /\ None # s /\ mic' # s
      BY <1>t, <1>p, <1>v, <1>n, <2>2, <2>3, <2>5, <3>2 DEF Prompted
    <3>3. \A e \in EventsOf(events') : e.session # voice.sessionId
      BY <1>n, <2>2, <2>3, <2>7
    <3>4. None # voice.sessionId /\ mic' # voice.sessionId
      BY <1>n, <2>3, <2>4, <2>5
    <3> QED BY <2>1, <2>2, <2>5, <3>1, <3>2, <3>3, <3>4 DEF Prompted
  <2>9. Told'
    <3>1. mic' # None => mic' <= voice.sessionId
      BY <1>t, <1>n, <1>v, <2>2, <2>3, <2>5 DEF Told
    <3>2. \A e \in EventsOf(events') : e.session <= voice.sessionId
      BY <1>n, <2>2, <2>3, <2>7
    <3>3. \A e \in EventsOf(events') : e.kind \in {"error", "end"} => e.session # mic'
      BY <1>t, <1>n, <2>5, <2>7 DEF Told
    <3> QED BY <2>1, <2>2, <2>5, <3>1, <3>2, <3>3 DEF Told
  <2>10. Heard'
    BY <2>1, <2>5 DEF Heard
  <2> QED BY <2>6, <2>8, <2>9, <2>10 DEF VoiceInv
<1>7. CASE EventComes
  <2> DEFINE e == Head(events)
  <2>1. /\ events # <<>> /\ events' = Tail(events)
        /\ UNCHANGED <<taken, there, prompts, mic, partials>>
    BY <1>7 DEF EventComes
  <2>2. /\ events' \in Seq(VoiceEvent) /\ EventsOf(events') \subseteq EventsOf(events)
        /\ e \in VoiceEvent /\ e \in EventsOf(events)
    BY <1>v, <2>1, EventsTaken
  <2>3. CASE active = None
    <3>1. UNCHANGED <<voice, active, misread>>
      BY <1>7, <2>3 DEF EventComes
    <3>2. VoiceTypeOK'
      BY <1>v, <2>1, <2>2, <3>1 DEF VoiceTypeOK, Voice, VoiceEvent
    <3> QED BY <1>t, <2>1, <2>2, <3>1, <3>2 DEF VoiceInv, Prompted, Told, Heard
  <2>4. CASE active # None
    <3>1. /\ voice' = Reduced(e) /\ LetsGo(e)
          /\ misread' = (misread \/ e.session # active)
      BY <1>7, <2>4 DEF EventComes
    <3> HIDE DEF e
    <3>2. /\ voice' \in Voice /\ voice'.sessionId = voice.sessionId
          /\ ~Mine => voice' = voice
          /\ e.kind \notin {"error", "end"} /\ voice.status \in OpenStatuses
               => voice'.status \in OpenStatuses
      BY <1>t, <2>2, <3>1, ReducedWell
    <3>3. active' = None \/ active' = active
      BY <3>1 DEF LetsGo
    <3>4. VoiceTypeOK'
      BY <1>v, <2>1, <2>2, <3>1, <3>2, <3>3 DEF VoiceTypeOK, Voice, VoiceEvent
    <3>5. Prompted'
      <4>1. ASSUME NEW s \in prompts
            PROVE  s = voice'.sessionId => voice'.status = "checkingPermission"
        BY <1>t, <3>2, <4>1 DEF Prompted, Mine
      <4>2. ASSUME NEW s \in prompts PROVE active' # s
        BY <1>t, <1>n, <1>v, <3>3, <4>2 DEF Prompted
      <4> QED BY <1>t, <2>1, <2>2, <4>1, <4>2 DEF Prompted
    <3>6. Told'
      BY <1>t, <2>1, <2>2, <3>2, <3>3 DEF Told
    <3>7. Heard'
      <4> SUFFICES ASSUME mic # None, ~misread'
                   PROVE  /\ there /\ active' = mic /\ mic = taken
                          /\ mic = voice'.sessionId => voice'.status \in OpenStatuses
        BY <2>1 DEF Heard
      <4>1. ~misread /\ e.session = active
        BY <1>v, <3>1
      <4>2. /\ there /\ active = mic /\ mic = taken
            /\ mic = voice.sessionId => voice.status \in OpenStatuses
        BY <1>t, <4>1 DEF Heard
      <4>3. e.kind \notin {"error", "end"}
        BY <1>t, <2>2, <4>1, <4>2 DEF Told
      <4> QED BY <3>1, <3>2, <4>2, <4>3 DEF LetsGo
    <3> QED BY <3>4, <3>5, <3>6, <3>7 DEF VoiceInv
  <2> QED BY <2>3, <2>4
<1>8. ASSUME NEW s \in prompts, PermissionComes(s) PROVE VoiceInv'
  <2>1. prompts' = prompts \ {s} /\ UNCHANGED <<taken, there, misread>>
    BY <1>8 DEF PermissionComes
  <2>2. /\ s \in Sessions /\ s <= taken /\ active # s /\ mic # s
        /\ s = voice.sessionId => voice.status = "checkingPermission"
        /\ \A e \in EventsOf(events) : e.session # s
    BY <1>t, <1>v, <1>8 DEF Prompted
  <2>3. \A z \in prompts' : z \in prompts /\ z # s
    BY <2>1
  <2>4. CASE UNCHANGED <<voice, active, mic, events, partials>>
    <3>1. VoiceTypeOK'
      BY <1>v, <2>1, <2>4 DEF VoiceTypeOK, Voice, VoiceEvent
    <3> QED BY <1>t, <2>1, <2>4, <3>1 DEF VoiceInv, Prompted, Told, Heard
  <2>5. CASE /\ Reduces(s, {"checkingPermission"}, "permissionDenied")
             /\ Wanted(s) /\ UNCHANGED <<active, mic, events, partials>>
    <3>1. /\ voice' \in Voice /\ voice'.sessionId = voice.sessionId
          /\ voice.sessionId # s => voice' = voice
      BY <1>v, <2>5 DEF Reduces, Voice
    <3>2. VoiceTypeOK'
      BY <1>v, <2>1, <2>5, <3>1 DEF VoiceTypeOK, Voice, VoiceEvent
    <3>3. Prompted'
      BY <1>t, <2>1, <2>3, <2>5, <3>1 DEF Prompted
    <3>4. Heard'
      BY <1>t, <2>1, <2>2, <2>5, <3>1 DEF Heard, Wanted
    <3> QED BY <1>t, <2>1, <2>5, <3>1, <3>2, <3>3, <3>4 DEF VoiceInv, Told
  <2>6. CASE /\ Reduces(s, {"checkingPermission"}, "listening")
             /\ Wanted(s) /\ active' = s /\ mic' = s /\ partials' = 0
             /\ Emits(<<Event("start", s)>>)
    <3>1. /\ voice' \in Voice /\ voice'.sessionId = voice.sessionId
          /\ voice.sessionId # s => voice' = voice
          /\ voice.sessionId = s => voice'.status = "listening"
      BY <1>v, <2>2, <2>6 DEF Reduces, Voice
    <3> DEFINE begun == Event("start", s)
    <3>2. begun \in VoiceEvent /\ begun.session = s /\ begun.kind = "start"
      BY <2>2, EventTyped DEF Kinds
    <3>3. events' = events \o <<begun>>
      BY <2>6 DEF Emits
    <3> HIDE DEF begun
    <3>4. <<begun>> \in Seq(VoiceEvent) /\ EventsOf(<<begun>>) = {begun}
      <4>1. {begun} \in SUBSET VoiceEvent
        BY <3>2
      <4> QED BY <4>1, Tails
    <3>5. events' \in Seq(VoiceEvent) /\ EventsOf(events') = EventsOf(events) \union {begun}
      BY <1>v, <3>3, <3>4, EventsAdded
    <3>6. 0 \in 0 .. MaxHeard
      BY VoiceAssumption
    <3>7. VoiceTypeOK'
      BY <1>v, <2>1, <2>2, <2>6, <3>1, <3>5, <3>6 DEF VoiceTypeOK, Voice, VoiceEvent
    <3>8. Prompted'
      BY <1>t, <2>1, <2>2, <2>3, <2>6, <3>1, <3>2, <3>5 DEF Prompted
    <3>9. Told'
      BY <1>t, <2>1, <2>2, <2>6, <3>1, <3>2, <3>5 DEF Told
    <3>10. Heard'
      BY <2>1, <2>6, <3>1 DEF Heard, Wanted, OpenStatuses
    <3> QED BY <3>7, <3>8, <3>9, <3>10 DEF VoiceInv
  <2>7. CASE /\ voice' = IF voice.sessionId = s /\ voice.status # "closed"
                         THEN [voice EXCEPT !.status = "failed", !.transcript = None] ELSE voice
             /\ Wanted(s) /\ active' = None /\ UNCHANGED <<mic, events, partials>>
    <3>1. /\ voice' \in Voice /\ voice'.sessionId = voice.sessionId
          /\ voice.sessionId # s => voice' = voice
      BY <1>v, <2>7 DEF Voice
    <3>2. mic = None \/ misread
      BY <1>t, <2>2, <2>7 DEF Heard, Wanted
    <3>3. VoiceTypeOK'
      BY <1>v, <2>1, <2>7, <3>1 DEF VoiceTypeOK, Voice, VoiceEvent
    <3>4. Prompted'
      BY <1>t, <1>n, <1>v, <2>1, <2>3, <2>7, <3>1 DEF Prompted
    <3>5. Told'
      BY <1>t, <2>1, <2>7, <3>1 DEF Told
    <3>6. Heard'
      BY <2>1, <2>7, <3>2 DEF Heard
    <3> QED BY <3>3, <3>4, <3>5, <3>6 DEF VoiceInv
  <2> QED BY <1>8, <2>4, <2>5, <2>6, <2>7 DEF PermissionComes
<1>9. ASSUME NEW w \in Words, Hears(w) PROVE VoiceInv'
  <2> DEFINE heard == [kind |-> "result", session |-> mic, words |-> w]
  <2>1. /\ mic # None /\ partials < MaxHeard /\ partials' = partials + 1
        /\ events' = events \o <<heard>>
        /\ UNCHANGED <<voice, taken, active, there, prompts, mic, misread>>
    BY <1>9 DEF Hears, Emits
  <2>2. heard \in VoiceEvent /\ heard.session = mic /\ heard.kind = "result"
    BY <1>v, <2>1 DEF VoiceEvent, Kinds
  <2> HIDE DEF heard
  <2>3. <<heard>> \in Seq(VoiceEvent) /\ EventsOf(<<heard>>) = {heard}
    <3>1. {heard} \in SUBSET VoiceEvent
      BY <2>2
    <3> QED BY <3>1, Tails
  <2>4. events' \in Seq(VoiceEvent) /\ EventsOf(events') = EventsOf(events) \union {heard}
    BY <1>v, <2>1, <2>3, EventsAdded
  <2>5. partials' \in 0 .. MaxHeard
    BY <1>v, <2>1, VoiceAssumption
  <2>6. VoiceTypeOK'
    BY <1>v, <2>1, <2>4, <2>5 DEF VoiceTypeOK, Voice, VoiceEvent
  <2>7. Prompted' /\ Told' /\ Heard'
    BY <1>t, <2>1, <2>2, <2>4 DEF Prompted, Told, Heard
  <2> QED BY <2>6, <2>7 DEF VoiceInv
<1>b. ASSUME NEW tail \in Seq(VoiceEvent), \A e \in EventsOf(tail) : e.session = mic,
             mic # None, mic' = None, Emits(tail),
             UNCHANGED <<voice, taken, active, there, prompts, partials, misread>>
      PROVE  VoiceInv'
  <2>1. /\ events' \in Seq(VoiceEvent)
        /\ \A e \in EventsOf(events') : e \in EventsOf(events) \/ e \in EventsOf(tail)
    BY <1>t, <1>b, Emitted
  <2>2. \A e \in EventsOf(events') : e \in EventsOf(events) \/ e.session = mic
    BY <1>b, <2>1
  <2>3. VoiceTypeOK'
    BY <1>v, <1>b, <2>1 DEF VoiceTypeOK, Voice, VoiceEvent
  <2>4. Prompted'
    BY <1>t, <1>n, <1>v, <1>b, <2>2 DEF Prompted
  <2>5. Told'
    BY <1>t, <1>n, <1>e, <1>v, <1>b, <2>2 DEF Told
  <2>6. Heard'
    BY <1>b DEF Heard
  <2> QED BY <2>3, <2>4, <2>5, <2>6 DEF VoiceInv
<1>m. ASSUME mic # None, NEW kind \in Kinds
      PROVE  Event(kind, mic) \in VoiceEvent /\ Event(kind, mic).session = mic
  BY <1>v, <1>m, EventTyped
<1>10. CASE SpeechEnds
  <2> DEFINE quiet == Event("speechend", mic)  ends == Event("end", mic)
             lost == Event("nomatch", mic)
  <2>1. mic # None /\ mic' = None
        /\ UNCHANGED <<voice, taken, active, there, prompts, partials, misread>>
    BY <1>10 DEF SpeechEnds
  <2>2. PICK tail \in {<<>>, <<lost>>} : Emits(<<quiet>> \o tail \o <<ends>>)
    BY <1>10 DEF SpeechEnds
  <2>3. {quiet, ends, lost} \in SUBSET VoiceEvent
        /\ quiet.session = mic /\ ends.session = mic /\ lost.session = mic
    BY <1>m, <2>1 DEF Kinds
  <2> HIDE DEF quiet, ends, lost
  <2>4. /\ <<>> \in Seq(VoiceEvent) /\ EventsOf(<<>>) = {}
        /\ <<quiet>> \in Seq(VoiceEvent) /\ EventsOf(<<quiet>>) = {quiet}
        /\ <<lost>> \in Seq(VoiceEvent) /\ EventsOf(<<lost>>) = {lost}
        /\ <<ends>> \in Seq(VoiceEvent) /\ EventsOf(<<ends>>) = {ends}
    BY <2>3, Tails
  <2>5. tail \in Seq(VoiceEvent) /\ EventsOf(tail) \subseteq {lost}
    BY <2>2, <2>4
  <2> DEFINE front == <<quiet>> \o tail
  <2>6. front \in Seq(VoiceEvent) /\ EventsOf(front) = {quiet} \union EventsOf(tail)
    BY <2>4, <2>5, EventsAdded
  <2>7. /\ front \o <<ends>> \in Seq(VoiceEvent)
        /\ EventsOf(front \o <<ends>>) = EventsOf(front) \union {ends}
    <3> HIDE DEF front
    <3> QED BY <2>4, <2>6, EventsAdded
  <2>8. \A e \in EventsOf(front \o <<ends>>) : e.session = mic
    <3> HIDE DEF front
    <3> QED BY <2>3, <2>5, <2>6, <2>7
  <2> QED BY <1>b, <2>1, <2>2, <2>7, <2>8
<1>11. CASE RecogniserFails
  <2> DEFINE fails == Event("error", mic)  ends == Event("end", mic)
  <2>1. /\ mic # None /\ mic' = None /\ Emits(<<fails, ends>>)
        /\ UNCHANGED <<voice, taken, active, there, prompts, partials, misread>>
    BY <1>11 DEF RecogniserFails
  <2>2. {fails, ends} \in SUBSET VoiceEvent /\ fails.session = mic /\ ends.session = mic
    BY <1>m, <2>1 DEF Kinds
  <2> HIDE DEF fails, ends
  <2>3. <<fails, ends>> \in Seq(VoiceEvent) /\ EventsOf(<<fails, ends>>) = {fails, ends}
    BY <2>2, Tails
  <2>4. \A e \in EventsOf(<<fails, ends>>) : e.session = mic
    BY <2>2, <2>3
  <2> QED BY <1>b, <2>1, <2>3, <2>4
<1>12. CASE UNCHANGED voiceVars
  <2>1. VoiceTypeOK'
    BY <1>t, <1>12 DEF voiceVars, VoiceTypeOK
  <2> QED BY <1>t, <1>12, <2>1 DEF voiceVars, VoiceInv, Prompted, Told, Heard
<1> QED
  BY <1>1, <1>2, <1>3, <1>4, <1>5, <1>6, <1>7, <1>8, <1>9, <1>10, <1>11, <1>12 DEF VoiceNext

THEOREM VoiceInvariance == VoiceSpec => []VoiceInv
BY VoiceBegins, VoiceStep, PTL DEF VoiceSpec

(* The microphone runs for the session on the screen or for nobody, unless an *)
(* event was taken for another session's.                                     *)
THEOREM MicrophoneFollows == VoiceSpec => []MicFollowsSession
<1>1. VoiceInv => MicFollowsSession
  BY DEF VoiceInv, Heard, Told, MicFollowsSession
<1> QED BY <1>1, VoiceInvariance, PTL

-----------------------------------------------------------------------------
(* The search in a book.                                                      *)

(* What the order of reading tells apart; what comes first has fewer before it. *)
Placed(S) == \A p \in S : p.unit \in Nat /\ p.place \in Nat
Apart(S) == \A p, q \in S : p # q => Precedes(p, q) \/ Precedes(q, p)
Rank(S, p) == Cardinality(Preceding(S, p))

LEMMA PrecedesOrders ==
  ASSUME NEW S, Placed(S)
  PROVE  /\ \A p \in S : ~Precedes(p, p)
         /\ \A p, q, r \in S : Precedes(p, q) /\ Precedes(q, r) => Precedes(p, r)
BY DEF Placed, Precedes

LEMMA RanksGrow ==
  ASSUME NEW S, IsFiniteSet(S), Placed(S), NEW p \in S, NEW q \in S, Precedes(p, q)
  PROVE  Rank(S, p) < Rank(S, q)
<1>1. Preceding(S, p) \subseteq Preceding(S, q)
  BY PrecedesOrders DEF Preceding
<1>2. p \in Preceding(S, q) /\ p \notin Preceding(S, p)
  BY PrecedesOrders DEF Preceding
<1>3. IsFiniteSet(Preceding(S, p)) /\ IsFiniteSet(Preceding(S, q))
  BY FS_Subset DEF Preceding
<1>4. Rank(S, p) \in Nat /\ Rank(S, q) \in Nat
  BY <1>3, FS_CardinalityType DEF Rank
<1>5. Preceding(S, p) \in SUBSET Preceding(S, q)
  BY <1>1
<1>6. /\ Cardinality(Preceding(S, p)) <= Cardinality(Preceding(S, q))
      /\ Cardinality(Preceding(S, p)) = Cardinality(Preceding(S, q))
           => Preceding(S, p) = Preceding(S, q)
  BY <1>3, <1>5, FS_Subset
<1>7. Preceding(S, p) # Preceding(S, q)
  BY <1>2
<1> QED BY <1>4, <1>6, <1>7 DEF Rank

LEMMA RankRange ==
  ASSUME NEW S, IsFiniteSet(S), Placed(S), NEW p \in S
  PROVE  Rank(S, p) \in 0..(Cardinality(S) - 1)
<1>1. Preceding(S, p) \in SUBSET S /\ p \notin Preceding(S, p)
  BY PrecedesOrders DEF Preceding
<1>2. /\ IsFiniteSet(Preceding(S, p)) /\ Cardinality(Preceding(S, p)) <= Cardinality(S)
      /\ Cardinality(Preceding(S, p)) = Cardinality(S) => Preceding(S, p) = S
  BY <1>1, FS_Subset
<1>3. Preceding(S, p) # S
  BY <1>1
<1>4. Rank(S, p) \in Nat /\ Cardinality(S) \in Nat
  BY <1>2, FS_CardinalityType DEF Rank
<1> QED BY <1>2, <1>3, <1>4 DEF Rank

(* Each place from the first to the last is somebody's.                       *)
LEMMA EveryRank ==
  ASSUME NEW S, IsFiniteSet(S), Placed(S), Apart(S), NEW n \in 0..(Cardinality(S) - 1)
  PROVE  \E p \in S : Rank(S, p) = n
<1> DEFINE R == [p \in S |-> Rank(S, p)]
           T == 0..(Cardinality(S) - 1)
<1>1. Cardinality(S) \in Nat
  BY FS_CardinalityType
<1>2. R \in [S -> T]
  BY RankRange
<1>3. IsFiniteSet(T) /\ Cardinality(T) = Cardinality(S)
  <2>1. 0 \in Int /\ Cardinality(S) - 1 \in Int
    BY <1>1
  <2>2. /\ IsFiniteSet(T)
        /\ Cardinality(T) = IF 0 > Cardinality(S) - 1 THEN 0 ELSE Cardinality(S) - 1 - 0 + 1
    BY <2>1, FS_Interval
  <2> QED BY <1>1, <2>2
<1>4. ASSUME NEW p \in S, NEW q \in S, R[p] = R[q] PROVE p = q
  <2>1. SUFFICES ASSUME p # q PROVE FALSE
    OBVIOUS
  <2>2. Precedes(p, q) \/ Precedes(q, p)
    BY <2>1 DEF Apart
  <2>3. Rank(S, p) < Rank(S, q) \/ Rank(S, q) < Rank(S, p)
    BY <2>2, RanksGrow
  <2>4. Rank(S, p) = Rank(S, q) /\ Rank(S, p) \in 0..(Cardinality(S) - 1)
    BY <1>4, RankRange
  <2> QED BY <1>1, <2>3, <2>4
<1>5. R \in Injection(S, T)
  <2>1. DOMAIN R = S
    OBVIOUS
  <2> QED BY <1>2, <1>4, <2>1 DEF Injection, IsInjective
<1>6. R \in Surjection(S, T)
  <2> HIDE DEF R, T
  <2> QED BY <1>3, <1>5, FS_Injection
<1>7. \A t \in T : \E p \in S : R[p] = t
  BY <1>6 DEF Surjection
<1> QED BY <1>7

(* What is sorted is there once, in the order of reading.                     *)
LEMMA Sorted ==
  ASSUME NEW S, IsFiniteSet(S), Placed(S), Apart(S)
  PROVE  /\ DOMAIN InReadingOrder(S) = 1..Cardinality(S) /\ Cardinality(S) \in Nat
         /\ {InReadingOrder(S)[k] : k \in 1..Cardinality(S)} = S
         /\ \A k \in 1..Cardinality(S) : k > 1 =>
              Precedes(InReadingOrder(S)[k - 1], InReadingOrder(S)[k])
<1> DEFINE s == InReadingOrder(S)
<1>1. Cardinality(S) \in Nat
  BY FS_CardinalityType
<1>2. DOMAIN s = 1..Cardinality(S)
  BY DEF InReadingOrder
<1>3. ASSUME NEW k \in 1..Cardinality(S) PROVE s[k] \in S /\ Rank(S, s[k]) = k - 1
  <2>1. k - 1 \in 0..(Cardinality(S) - 1)
    BY <1>1
  <2>2. \E p \in S : Cardinality(Preceding(S, p)) = k - 1
    BY <2>1, EveryRank DEF Rank
  <2>3. s[k] = CHOOSE p \in S : Cardinality(Preceding(S, p)) = k - 1
    BY DEF InReadingOrder
  <2> QED BY <2>2, <2>3 DEF Rank
<1>4. ASSUME NEW p \in S PROVE \E k \in 1..Cardinality(S) : s[k] = p
  <2>1. Rank(S, p) \in 0..(Cardinality(S) - 1)
    BY RankRange
  <2>2. PICK k \in 1..Cardinality(S) : k - 1 = Rank(S, p)
    <3>1. \A n \in 0..(Cardinality(S) - 1) : n + 1 \in 1..Cardinality(S) /\ (n + 1) - 1 = n
      BY <1>1
    <3>2. \E k \in 1..Cardinality(S) : k - 1 = Rank(S, p)
      BY <2>1, <3>1
    <3> QED BY <3>2
  <2>3. s[k] \in S /\ Rank(S, s[k]) = Rank(S, p)
    BY <1>3, <2>2
  <2>4. CASE s[k] = p
    BY <2>4
  <2>5. CASE s[k] # p
    <3>1. Precedes(s[k], p) \/ Precedes(p, s[k])
      BY <2>3, <2>5 DEF Apart
    <3>2. Rank(S, s[k]) < Rank(S, p) \/ Rank(S, p) < Rank(S, s[k])
      BY <2>3, <3>1, RanksGrow
    <3> QED BY <1>1, <2>1, <2>3, <3>2
  <2> QED BY <2>4, <2>5
<1>5. ASSUME NEW k \in 1..Cardinality(S), k > 1 PROVE Precedes(s[k - 1], s[k])
  <2>1. k - 1 \in 1..Cardinality(S)
    BY <1>1, <1>5
  <2>2. /\ s[k - 1] \in S /\ Rank(S, s[k - 1]) = k - 1 - 1
        /\ s[k] \in S /\ Rank(S, s[k]) = k - 1
    BY <1>3, <2>1
  <2>3. s[k - 1] # s[k]
    BY <1>1, <2>2
  <2>4. Precedes(s[k - 1], s[k]) \/ Precedes(s[k], s[k - 1])
    BY <2>2, <2>3 DEF Apart
  <2>5. Precedes(s[k], s[k - 1]) => Rank(S, s[k]) < Rank(S, s[k - 1])
    BY <2>2, RanksGrow
  <2> QED BY <1>1, <2>2, <2>4, <2>5
<1>6. {s[k] : k \in 1..Cardinality(S)} = S
  BY <1>3, <1>4
<1> HIDE DEF s
<1> QED BY <1>1, <1>2, <1>5, <1>6 DEF s

(* The ordinals of a book's words.                                            *)
LEMMA TextShape ==
  ASSUME NEW text \in Texts, NEW u \in 1..Units
  PROVE  Len(text[u]) \in 0..UnitLength /\ DOMAIN text[u] = 1..Len(text[u])
<1>1. text[u] \in BoundedSeq(Vocabulary, UnitLength)
  BY DEF Texts
<1>2. PICK m \in 0..UnitLength : text[u] \in [1..m -> Vocabulary]
  BY <1>1 DEF BoundedSeq, SeqOf
<1>3. Len(text[u]) = m
  BY <1>2
<1> QED BY <1>2, <1>3

LEMMA FewPlaces ==
  ASSUME NEW text
  PROVE  IsFiniteSet(WordPlaces(text))
<1>1. Units \in Nat /\ UnitLength \in Nat
  BY BookSearchAssumption
<1>2. IsFiniteSet(1..Units) /\ IsFiniteSet(1..UnitLength)
  BY <1>1, FS_Interval
<1>3. IsFiniteSet((1..Units) \X (1..UnitLength))
  BY <1>2, FS_Product
<1>4. WordPlaces(text) \in SUBSET ((1..Units) \X (1..UnitLength))
  BY DEF WordPlaces
<1> QED BY <1>3, <1>4, FS_Subset

(* The ordinals of a unit go on where those of the units before it ended.     *)
LEMMA OrdinalsGoOn ==
  ASSUME NEW text \in Texts, NEW u \in 1..Units
  PROVE  /\ WordsBefore(text, u) \in Nat
         /\ \A v \in 1..Units : u < v =>
              WordsBefore(text, u) + Len(text[u]) <= WordsBefore(text, v)
<1> DEFINE Before(w) == {p \in WordPlaces(text) : p[1] < w}
           Of == {u} \X (1..Len(text[u]))
<1>1. \A w : IsFiniteSet(Before(w)) /\ Cardinality(Before(w)) \in Nat
  <2> TAKE w
  <2>1. Before(w) \in SUBSET WordPlaces(text)
    OBVIOUS
  <2> QED BY <2>1, FewPlaces, FS_Subset, FS_CardinalityType
<1>2. Len(text[u]) \in 0..UnitLength /\ DOMAIN text[u] = 1..Len(text[u]) /\ UnitLength \in Nat
  BY TextShape, BookSearchAssumption
<1>3. IsFiniteSet(Of) /\ Cardinality(Of) = Len(text[u])
  <2>1. IsFiniteSet({u}) /\ Cardinality({u}) = 1
    BY FS_Singleton
  <2>2. IsFiniteSet(1..Len(text[u])) /\ Cardinality(1..Len(text[u])) = Len(text[u])
    BY <1>2, FS_Interval
  <2>3. IsFiniteSet(Of) /\ Cardinality(Of) = Cardinality({u}) * Cardinality(1..Len(text[u]))
    BY <2>1, <2>2, FS_Product
  <2> QED BY <1>2, <2>1, <2>2, <2>3
<1>4. ASSUME NEW v \in 1..Units, u < v
      PROVE  Cardinality(Before(u)) + Len(text[u]) <= Cardinality(Before(v))
  <2>1. Before(u) \intersect Of = {}
    OBVIOUS
  <2>2. Before(u) \union Of \in SUBSET Before(v)
    <3>1. Before(u) \subseteq Before(v)
      BY <1>4 DEF WordPlaces
    <3>2. ASSUME NEW k \in 1..Len(text[u]) PROVE <<u, k>> \in Before(v)
      <4>1. k \in 1..UnitLength /\ k \in DOMAIN text[u]
        BY <1>2
      <4> QED BY <1>4, <4>1 DEF WordPlaces
    <3> QED BY <3>1, <3>2
  <2>3. /\ IsFiniteSet(Before(u) \union Of)
        /\ Cardinality(Before(u) \union Of)
             = Cardinality(Before(u)) + Cardinality(Of) - Cardinality(Before(u) \intersect Of)
    BY <1>1, <1>3, FS_Union
  <2>4. Cardinality(Before(u) \intersect Of) = 0
    BY <2>1, FS_EmptySet
  <2>5. Cardinality(Before(u) \union Of) <= Cardinality(Before(v))
    BY <1>1, <2>2, FS_Subset
  <2>6. Cardinality(Before(u)) \in Nat
    BY <1>1
  <2> HIDE DEF Before, Of
  <2> QED BY <1>2, <1>3, <2>3, <2>4, <2>5, <2>6
<1> QED BY <1>1, <1>4 DEF WordsBefore

LEMMA FewEntries ==
  ASSUME NEW text
  PROVE  IsFiniteSet(Entries(text))
<1> DEFINE E == [p \in WordPlaces(text) |->
                   [word |-> text[p[1]][p[2]], unit |-> p[1], place |-> p[2],
                    seq |-> WordsBefore(text, p[1]) + p[2]]]
<1>1. E \in Surjection(WordPlaces(text), Entries(text))
  BY DEF Surjection, Entries
<1> QED BY <1>1, FewPlaces, FS_Surjection

LEMMA EntryIs ==
  ASSUME NEW text \in Texts, NEW p \in Entries(text)
  PROVE  /\ p.unit \in 1..Units /\ p.place \in 1..Len(text[p.unit]) /\ Len(text[p.unit]) \in Nat
         /\ p.place \in 1..UnitLength
         /\ p.word = text[p.unit][p.place]
         /\ p.seq = WordsBefore(text, p.unit) + p.place
         /\ WordsBefore(text, p.unit) \in Nat
         /\ p = [word |-> text[p.unit][p.place], unit |-> p.unit, place |-> p.place,
                 seq |-> WordsBefore(text, p.unit) + p.place]
<1>1. PICK a \in WordPlaces(text) :
        p = [word |-> text[a[1]][a[2]], unit |-> a[1], place |-> a[2],
             seq |-> WordsBefore(text, a[1]) + a[2]]
  BY DEF Entries
<1>2. a[1] \in 1..Units /\ a[2] \in 1..UnitLength /\ a[2] \in DOMAIN text[a[1]]
  BY DEF WordPlaces
<1>3. Len(text[a[1]]) \in 0..UnitLength /\ a[2] \in 1..Len(text[a[1]]) /\ UnitLength \in Nat
  BY <1>2, TextShape, BookSearchAssumption
<1>4. WordsBefore(text, a[1]) \in Nat
  BY <1>2, OrdinalsGoOn
<1> QED BY <1>1, <1>2, <1>3, <1>4

LEMMA EntryOf ==
  ASSUME NEW text \in Texts, NEW u \in 1..Units, NEW k \in 1..Len(text[u])
  PROVE  [word |-> text[u][k], unit |-> u, place |-> k, seq |-> WordsBefore(text, u) + k]
           \in Entries(text)
<1>1. k \in 1..UnitLength /\ k \in DOMAIN text[u]
  BY TextShape, BookSearchAssumption
<1>2. <<u, k>> \in WordPlaces(text)
  BY <1>1 DEF WordPlaces
<1> QED BY <1>2 DEF Entries

(* The order of reading is that of the ordinals.                              *)
LEMMA OrdinalsInOrder ==
  ASSUME NEW text \in Texts, NEW p \in Entries(text), NEW q \in Entries(text), Precedes(p, q)
  PROVE  p.seq < q.seq
<1>1. CASE p.unit < q.unit
  <2>1. WordsBefore(text, p.unit) + Len(text[p.unit]) <= WordsBefore(text, q.unit)
    BY <1>1, EntryIs, OrdinalsGoOn
  <2>2. /\ p.place \in 1..Len(text[p.unit]) /\ Len(text[p.unit]) \in Nat
        /\ q.place \in 1..UnitLength /\ UnitLength \in Nat
        /\ p.seq = WordsBefore(text, p.unit) + p.place
        /\ q.seq = WordsBefore(text, q.unit) + q.place
        /\ WordsBefore(text, p.unit) \in Nat /\ WordsBefore(text, q.unit) \in Nat
    BY EntryIs, BookSearchAssumption
  <2> QED BY <2>1, <2>2
<1>2. CASE p.unit = q.unit /\ p.place < q.place
  <2>1. /\ p.place \in 1..UnitLength /\ q.place \in 1..UnitLength /\ UnitLength \in Nat
        /\ p.seq = WordsBefore(text, p.unit) + p.place
        /\ q.seq = WordsBefore(text, q.unit) + q.place
        /\ WordsBefore(text, p.unit) \in Nat
    BY EntryIs, BookSearchAssumption
  <2> QED BY <1>2, <2>1
<1> QED BY <1>1, <1>2 DEF Precedes

LEMMA EntriesApart ==
  ASSUME NEW text \in Texts, NEW S \in SUBSET Entries(text)
  PROVE  IsFiniteSet(S) /\ Placed(S) /\ Apart(S)
<1>1. IsFiniteSet(S)
  BY FewEntries, FS_Subset
<1>2. \A p \in S : p.unit \in Nat /\ p.place \in Nat
  <2>1. Units \in Nat /\ UnitLength \in Nat
    BY BookSearchAssumption
  <2>2. \A p \in S : p.unit \in 1..Units /\ p.place \in 1..UnitLength
    BY EntryIs
  <2> QED BY <2>1, <2>2
<1>3. ASSUME NEW p \in S, NEW q \in S, p # q PROVE Precedes(p, q) \/ Precedes(q, p)
  <2>1. p.unit # q.unit \/ p.place # q.place
    BY <1>3, EntryIs
  <2> QED BY <1>2, <2>1 DEF Precedes
<1> QED BY <1>1, <1>2, <1>3 DEF Placed, Apart

(* Words with consecutive ordinals in one unit stand side by side.            *)
LEMMA FollowedIs ==
  ASSUME NEW text \in Texts, NEW p \in Entries(text), NEW word, NEW i \in Nat
  PROVE  Followed(text, p, word, i) <=>
           p.place + i <= Len(text[p.unit]) /\ text[p.unit][p.place + i] = word
<1>1. /\ p.unit \in 1..Units /\ p.place \in 1..UnitLength /\ UnitLength \in Nat
      /\ Len(text[p.unit]) \in Nat
      /\ p.seq = WordsBefore(text, p.unit) + p.place /\ WordsBefore(text, p.unit) \in Nat
  BY EntryIs, BookSearchAssumption
<1>2. ASSUME NEW q \in Entries(text), q.word = word, q.unit = p.unit, q.seq = p.seq + i
      PROVE  p.place + i <= Len(text[p.unit]) /\ text[p.unit][p.place + i] = word
  <2>1. /\ q.place \in 1..Len(text[p.unit]) /\ q.word = text[p.unit][q.place]
        /\ q.seq = WordsBefore(text, p.unit) + q.place
    BY <1>2, EntryIs
  <2>2. q.place = p.place + i
    <3>1. q.place \in Nat /\ p.place \in Nat
      BY <1>1, <2>1
    <3>2. WordsBefore(text, p.unit) + q.place = (WordsBefore(text, p.unit) + p.place) + i
      BY <1>1, <1>2, <2>1
    <3>3. \A w, a, b, c \in Nat : w + a = (w + b) + c => a = b + c
      OBVIOUS
    <3> QED BY <1>1, <3>1, <3>2, <3>3
  <2> QED BY <1>1, <1>2, <2>1, <2>2
<1>3. ASSUME p.place + i <= Len(text[p.unit]), text[p.unit][p.place + i] = word
      PROVE  Followed(text, p, word, i)
  <2>1. p.place + i \in 1..Len(text[p.unit])
    BY <1>1, <1>3
  <2> DEFINE q == [word |-> text[p.unit][p.place + i], unit |-> p.unit, place |-> p.place + i,
                   seq |-> WordsBefore(text, p.unit) + (p.place + i)]
  <2>2. q \in Entries(text)
    BY <1>1, <2>1, EntryOf
  <2>3. q.word = word /\ q.unit = p.unit /\ q.seq = p.seq + i
    BY <1>1, <1>3
  <2> QED BY <2>2, <2>3 DEF Followed
<1> QED BY <1>2, <1>3 DEF Followed

(* The term stands at the posting.                                            *)
LEMMA MatchIs ==
  ASSUME NEW text \in Texts, NEW term \in Terms, term # <<>>, NEW p \in Entries(text)
  PROVE  p \in Matching(text, term) <=> Occurs(text, term, p.unit, p.place)
<1>1. PICK n \in 0..TermLength : term \in [1..n -> Vocabulary]
  BY DEF Terms, BoundedSeq, SeqOf
<1>2. Len(term) = n /\ n \in Nat /\ n >= 1
  BY <1>1, BookSearchAssumption
<1>3. /\ p.unit \in 1..Units /\ p.place \in 1..UnitLength /\ UnitLength \in Nat
      /\ p.place \in 1..Len(text[p.unit]) /\ Len(text[p.unit]) \in Nat
      /\ p.word = text[p.unit][p.place]
  BY EntryIs, BookSearchAssumption
<1>4. p \in Matching(text, term) <=>
        /\ text[p.unit][p.place] = term[1]
        /\ \A i \in 1..(n - 1) : p.place + i <= Len(text[p.unit])
                               /\ text[p.unit][p.place + i] = term[i + 1]
  <2>1. p \in Matching(text, term) <=>
          p.word = term[1] /\ \A i \in 1..(n - 1) : Followed(text, p, term[i + 1], i)
    BY <1>2 DEF Matching, Postings
  <2>2. ASSUME NEW i \in 1..(n - 1)
        PROVE  Followed(text, p, term[i + 1], i) <=>
                 p.place + i <= Len(text[p.unit]) /\ text[p.unit][p.place + i] = term[i + 1]
    <3>1. i \in Nat
      BY <1>2
    <3> QED BY <3>1, FollowedIs
  <2> QED BY <1>3, <2>1, <2>2
<1>5. ASSUME p \in Matching(text, term) PROVE Occurs(text, term, p.unit, p.place)
  <2>1. p.place + n - 1 <= Len(text[p.unit])
    <3>1. CASE n = 1
      BY <1>3, <3>1
    <3>2. CASE n # 1
      <4>1. n - 1 \in 1..(n - 1)
        BY <1>2, <3>2
      <4>2. p.place + (n - 1) <= Len(text[p.unit])
        BY <1>4, <1>5, <4>1
      <4> QED BY <1>2, <1>3, <4>2
    <3> QED BY <3>1, <3>2
  <2>2. ASSUME NEW j \in 1..n PROVE text[p.unit][p.place + j - 1] = term[j]
    <3>1. CASE j = 1
      <4>1. p.place + j - 1 = p.place
        BY <1>3, <3>1
      <4> QED BY <1>4, <1>5, <3>1, <4>1
    <3>2. CASE j # 1
      <4>1. j - 1 \in 1..(n - 1) /\ (j - 1) + 1 = j /\ p.place + (j - 1) = p.place + j - 1
        BY <1>2, <1>3, <3>2
      <4>2. text[p.unit][p.place + (j - 1)] = term[(j - 1) + 1]
        BY <1>4, <1>5, <4>1
      <4> QED BY <4>1, <4>2
    <3> QED BY <3>1, <3>2
  <2> QED BY <1>2, <2>1, <2>2 DEF Occurs
<1>6. ASSUME Occurs(text, term, p.unit, p.place) PROVE p \in Matching(text, term)
  <2>1. /\ p.place + n - 1 <= Len(text[p.unit])
        /\ \A j \in 1..n : text[p.unit][p.place + j - 1] = term[j]
    BY <1>2, <1>6 DEF Occurs
  <2>2. text[p.unit][p.place] = term[1]
    <3>1. 1 \in 1..n /\ p.place + 1 - 1 = p.place
      BY <1>2, <1>3
    <3> QED BY <2>1, <3>1
  <2>3. ASSUME NEW i \in 1..(n - 1)
        PROVE  p.place + i <= Len(text[p.unit]) /\ text[p.unit][p.place + i] = term[i + 1]
    <3>1. i + 1 \in 1..n /\ p.place + (i + 1) - 1 = p.place + i
      BY <1>2, <1>3
    <3>2. text[p.unit][p.place + (i + 1) - 1] = term[i + 1]
      BY <2>1, <3>1
    <3>3. p.place + i <= Len(text[p.unit])
      BY <1>2, <1>3, <2>1
    <3> QED BY <3>1, <3>2, <3>3
  <2> QED BY <1>4, <2>2, <2>3
<1> QED BY <1>5, <1>6

(* What the index finds is what stands in the text.                           *)
LEMMA QueryFinds ==
  ASSUME NEW text \in Texts, NEW term \in Terms
  PROVE  LET hits == QueryIndex(text, term) IN
         /\ \E n \in Nat : DOMAIN hits = 1..n /\ Len(hits) = n
         /\ {<<hits[k].unit, hits[k].place>> : k \in DOMAIN hits} = Occurrences(text, term)
         /\ \A k \in DOMAIN hits : k > 1 => hits[k - 1].seq < hits[k].seq
<1> DEFINE hits == QueryIndex(text, term)
           S == Matching(text, term)
<1>1. CASE term = <<>>
  <2>1. hits = <<>> /\ DOMAIN hits = {} /\ Len(hits) = 0 /\ 1..0 = {}
    BY <1>1 DEF QueryIndex
  <2>2. Occurrences(text, term) = {}
    BY <1>1 DEF Occurrences
  <2> QED BY <2>1, <2>2
<1>2. CASE term # <<>>
  <2>1. hits = InReadingOrder(S)
    BY <1>2 DEF QueryIndex
  <2>2. S \in SUBSET Entries(text)
    BY DEF Matching, Postings
  <2>3. IsFiniteSet(S) /\ Placed(S) /\ Apart(S)
    BY <2>2, EntriesApart
  <2> HIDE DEF hits, S
  <2>4. /\ DOMAIN hits = 1..Cardinality(S) /\ Cardinality(S) \in Nat
        /\ {hits[k] : k \in 1..Cardinality(S)} = S
        /\ \A k \in 1..Cardinality(S) : k > 1 => Precedes(hits[k - 1], hits[k])
    BY <2>1, <2>3, Sorted
  <2>5. Len(hits) = Cardinality(S)
    <3>1. hits = [k \in 1..Cardinality(S) |-> hits[k]]
      BY <2>1 DEF InReadingOrder
    <3> QED BY <2>4, <3>1
  <2>6. \A k \in DOMAIN hits : k > 1 => hits[k - 1].seq < hits[k].seq
    <3> TAKE k \in DOMAIN hits
    <3> HAVE k > 1
    <3>1. k \in 1..Cardinality(S) /\ k - 1 \in 1..Cardinality(S)
      BY <2>4
    <3>2. hits[k] \in Entries(text) /\ hits[k - 1] \in Entries(text)
      BY <2>2, <2>4, <3>1
    <3> QED BY <2>4, <3>1, <3>2, OrdinalsInOrder
  <2>7. {<<hits[k].unit, hits[k].place>> : k \in DOMAIN hits} = {<<p.unit, p.place>> : p \in S}
    BY <2>4
  <2>8. {<<p.unit, p.place>> : p \in S} = Occurrences(text, term)
    <3>1. ASSUME NEW p \in S PROVE <<p.unit, p.place>> \in Occurrences(text, term)
      <4>1. p \in Entries(text)
        BY <2>2
      <4>2. p.unit \in 1..Units /\ p.place \in 1..UnitLength
        BY <4>1, EntryIs
      <4>3. Occurs(text, term, p.unit, p.place)
        BY <1>2, <4>1, MatchIs DEF S
      <4> QED BY <1>2, <4>2, <4>3 DEF Occurrences
    <3>2. ASSUME NEW o \in Occurrences(text, term) PROVE \E p \in S : o = <<p.unit, p.place>>
      <4>1. /\ o[1] \in 1..Units /\ o[2] \in 1..UnitLength /\ o = <<o[1], o[2]>>
            /\ Occurs(text, term, o[1], o[2])
        BY DEF Occurrences
      <4>2. Len(term) \in Nat /\ Len(term) >= 1
        <5>1. PICK n \in 0..TermLength : term \in [1..n -> Vocabulary]
          BY DEF Terms, BoundedSeq, SeqOf
        <5> QED BY <1>2, <5>1, BookSearchAssumption
      <4>3. o[2] \in 1..Len(text[o[1]])
        <5>1. o[2] + Len(term) - 1 <= Len(text[o[1]])
          BY <4>1 DEF Occurs
        <5>2. Len(text[o[1]]) \in 0..UnitLength /\ UnitLength \in Nat
          BY <4>1, TextShape, BookSearchAssumption
        <5> QED BY <4>1, <4>2, <5>1, <5>2
      <4> DEFINE p == [word |-> text[o[1]][o[2]], unit |-> o[1], place |-> o[2],
                       seq |-> WordsBefore(text, o[1]) + o[2]]
      <4>4. p \in Entries(text)
        BY <4>1, <4>3, EntryOf
      <4>5. p.unit = o[1] /\ p.place = o[2]
        OBVIOUS
      <4>6. p \in S
        <5> HIDE DEF p
        <5> QED BY <1>2, <4>1, <4>4, <4>5, MatchIs DEF S
      <4> QED BY <4>1, <4>5, <4>6
    <3> QED BY <3>1, <3>2
  <2> QED BY <2>4, <2>5, <2>6, <2>7, <2>8 DEF hits
<1> QED BY <1>1, <1>2

(* What the index of a book answers, or no index.                             *)
Answer == {<<>>} \union {QueryIndex(text, term) : text \in Texts, term \in Terms}
Panel == [query : Terms, submitted : Terms, hits : Answer, active : Nat,
          status : {"idle", "searching", "done", "failed"}, indexMissing : BOOLEAN]
Submission == [number : Nat, term : Terms, waits : {"query", "presence"}]

(* Whoever still has the number of the last search asks what was submitted    *)
(* last, and what is shown as done is the answer to that.                     *)
BookSearchInv ==
  /\ book \in [text : Texts, indexed : BOOLEAN] /\ panel \in Panel
  /\ latest \in Nat /\ onScreen \in BOOLEAN /\ asking \subseteq Submission
  /\ panel.active <= Len(panel.hits)
  /\ \A a \in asking : a.number <= latest /\ (a.number = latest => a.term = panel.submitted)
  /\ panel.status = "done" =>
       panel.hits = IF book.indexed THEN QueryIndex(book.text, panel.submitted) ELSE <<>>

LEMMA AnswerIs ==
  ASSUME NEW hits \in Answer
  PROVE  Len(hits) \in Nat /\ DOMAIN hits = 1..Len(hits)
<1>1. CASE hits = <<>>
  BY <1>1
<1>2. CASE hits # <<>>
  <2>1. PICK text \in Texts, term \in Terms : hits = QueryIndex(text, term)
    BY <1>2 DEF Answer
  <2> QED BY <2>1, QueryFinds
<1> QED BY <1>1, <1>2

LEMMA NoWords == <<>> \in Terms
<1>1. TermLength \in Nat
  BY BookSearchAssumption
<1>2. 0 \in 0..TermLength /\ <<>> \in [1..0 -> Vocabulary]
  BY <1>1
<1> QED BY <1>2 DEF Terms, BoundedSeq, SeqOf

LEMMA BookSearchStep == BookSearchInv /\ [BookSearchNext]_bookSearchVars => BookSearchInv'
<1> SUFFICES ASSUME BookSearchInv, [BookSearchNext]_bookSearchVars PROVE BookSearchInv'
  OBVIOUS
<1>i. /\ book \in [text : Texts, indexed : BOOLEAN] /\ panel \in Panel
      /\ latest \in Nat /\ onScreen \in BOOLEAN /\ asking \subseteq Submission
      /\ panel.active <= Len(panel.hits)
      /\ \A a \in asking : a.number <= latest /\ (a.number = latest => a.term = panel.submitted)
      /\ panel.status = "done" =>
           panel.hits = IF book.indexed THEN QueryIndex(book.text, panel.submitted) ELSE <<>>
  BY DEF BookSearchInv
<1>a. ASSUME NEW term \in Terms, SetQuery(term) PROVE BookSearchInv'
  BY <1>i, <1>a DEF SetQuery, BookSearchInv, Panel
<1>b. CASE SubmitTerm
  <2>1. panel' \in Panel /\ panel'.hits = panel.hits /\ panel'.active = panel.active
        /\ panel'.submitted = panel.query /\ panel'.status = "searching"
    BY <1>i, <1>b DEF SubmitTerm, Panel
  <2>2. latest' = latest + 1 /\ latest' \in Nat
    BY <1>i, <1>b DEF SubmitTerm
  <2> DEFINE new == [number |-> latest', term |-> panel.query, waits |-> "query"]
  <2>3. asking' = asking \union {new} /\ new \in Submission
    BY <1>i, <1>b, <2>2 DEF SubmitTerm, Panel, Submission
  <2>4. ASSUME NEW a \in asking'
        PROVE  a.number <= latest' /\ (a.number = latest' => a.term = panel'.submitted)
    <3>1. CASE a \in asking
      <4>1. a.number \in Nat /\ a.number <= latest
        BY <1>i, <3>1 DEF Submission
      <4> QED BY <1>i, <2>2, <4>1
    <3>2. CASE a = new
      BY <2>1, <2>2, <3>2
    <3> QED BY <2>3, <3>1, <3>2
  <2> QED BY <1>i, <1>b, <2>1, <2>2, <2>3, <2>4 DEF SubmitTerm, BookSearchInv
<1>c. ASSUME NEW query \in Terms, Resets(query) PROVE BookSearchInv'
  <2>1. panel' \in Panel /\ panel'.status = "idle" /\ panel'.active = 0 /\ panel'.hits = <<>>
    <3>1. /\ panel' = [Nothing EXCEPT !.query = query] /\ <<>> \in Answer
          /\ Nothing.status = "idle" /\ Nothing.active = 0 /\ Nothing.hits = <<>>
          /\ Nothing.submitted = <<>> /\ Nothing.indexMissing = FALSE
          /\ Nothing = [query |-> <<>>, submitted |-> <<>>, hits |-> <<>>, active |-> 0,
                        status |-> "idle", indexMissing |-> FALSE]
      BY <1>c DEF Resets, Nothing, Answer
    <3>2. panel' = [query |-> query, submitted |-> <<>>, hits |-> <<>>, active |-> 0,
                    status |-> "idle", indexMissing |-> FALSE]
      BY <3>1
    <3>3. ASSUME NEW e, e \in Terms, e \in Answer
          PROVE  [query |-> query, submitted |-> e, hits |-> e, active |-> 0,
                  status |-> "idle", indexMissing |-> FALSE] \in Panel
      BY <3>3 DEF Panel
    <3>4. panel' \in Panel
      BY <3>1, <3>2, <3>3, NoWords
    <3> QED BY <3>2, <3>4
  <2>2. latest' = latest + 1 /\ latest' \in Nat
    BY <1>i, <1>c DEF Resets
  <2>3. \A a \in asking : a.number <= latest' /\ a.number # latest'
    BY <1>i, <2>2 DEF Submission
  <2>4. panel'.active <= Len(panel'.hits)
    BY <2>1
  <2> QED BY <1>i, <1>c, <2>1, <2>2, <2>3, <2>4 DEF Resets, BookSearchInv
<1>d. CASE SelectHit
  <2>1. PICK k \in DOMAIN panel.hits : panel' = [panel EXCEPT !.active = k]
    BY <1>d DEF SelectHit
  <2>2. Len(panel.hits) \in Nat /\ DOMAIN panel.hits = 1..Len(panel.hits)
    BY <1>i, AnswerIs DEF Panel
  <2> QED BY <1>i, <1>d, <2>1, <2>2 DEF SelectHit, BookSearchInv, Panel
<1>e. CASE LeaveBook
  BY <1>i, <1>e DEF LeaveBook, BookSearchInv
<1>f. ASSUME NEW a \in asking, QueryAnswers(a) PROVE BookSearchInv'
  <2>0. a \in Submission /\ a.number <= latest
    BY <1>i
  <2>1. Found(a) \in Answer
    BY <1>i, <2>0 DEF Found, Answer, Submission
  <2>2. CASE ~Current(a) /\ asking' = asking \ {a} /\ UNCHANGED panel
    BY <1>i, <1>f, <2>2 DEF QueryAnswers, BookSearchInv
  <2>3. CASE /\ Current(a) /\ ShowsHits(Found(a))
             /\ asking' = (asking \ {a}) \union
                  {[b EXCEPT !.waits = "presence"] : b \in {c \in {a} : Found(c) = <<>>}}
    <3>1. a.number = latest /\ a.term = panel.submitted
      BY <1>i, <2>3 DEF Current
    <3>2. /\ panel' \in Panel /\ panel'.hits = Found(a) /\ panel'.active = 0
          /\ panel'.submitted = panel.submitted
      BY <1>i, <2>1, <2>3 DEF ShowsHits, Panel
    <3>3. asking' \subseteq Submission
          /\ \A b \in asking' : b.number <= latest
                /\ (b.number = latest => b.term = panel.submitted)
      <4>1. [a EXCEPT !.waits = "presence"] \in Submission
            /\ [a EXCEPT !.waits = "presence"].number = a.number
            /\ [a EXCEPT !.waits = "presence"].term = a.term
        BY <2>0 DEF Submission
      <4> QED BY <1>i, <2>3, <3>1, <4>1
    <3>4. panel'.active <= Len(panel'.hits)
      BY <2>1, <3>2, AnswerIs
    <3>5. panel'.hits = IF book.indexed THEN QueryIndex(book.text, panel'.submitted) ELSE <<>>
      BY <3>1, <3>2 DEF Found
    <3> QED BY <1>i, <1>f, <3>2, <3>3, <3>4, <3>5 DEF QueryAnswers, BookSearchInv
  <2> QED BY <1>f, <2>2, <2>3 DEF QueryAnswers
<1>g. ASSUME NEW a \in asking, PresenceAnswers(a) PROVE BookSearchInv'
  <2>1. book.indexed \in BOOLEAN
    BY <1>i
  <2>2. /\ panel' \in Panel /\ panel'.hits = panel.hits /\ panel'.active = panel.active
        /\ panel'.submitted = panel.submitted /\ panel'.status = panel.status
    BY <1>i, <1>g, <2>1 DEF PresenceAnswers, Panel
  <2> QED BY <1>i, <1>g, <2>2 DEF PresenceAnswers, BookSearchInv
<1>h. ASSUME NEW a \in asking, SearchBreaks(a) PROVE BookSearchInv'
  <2>1. /\ panel' \in Panel /\ panel'.submitted = panel.submitted
        /\ \/ panel'.hits = panel.hits /\ panel'.active = panel.active /\ panel'.status = panel.status
           \/ panel'.hits = <<>> /\ panel'.active = 0 /\ panel'.status = "failed"
    <3>1. CASE panel' = panel \/ panel' = [panel EXCEPT !.indexMissing = FALSE]
      BY <1>i, <3>1 DEF Panel
    <3>2. CASE panel' = [panel EXCEPT !.hits = <<>>, !.active = 0, !.status = "failed",
                                      !.indexMissing = FALSE]
      <4>1. <<>> \in Answer
        BY DEF Answer
      <4>2. panel' = [query |-> panel.query, submitted |-> panel.submitted, hits |-> <<>>,
                      active |-> 0, status |-> "failed", indexMissing |-> FALSE]
        BY <1>i, <3>2 DEF Panel
      <4> QED BY <1>i, <4>1, <4>2 DEF Panel
    <3> QED BY <1>h, <3>1, <3>2 DEF SearchBreaks
  <2>2. panel'.active <= Len(panel'.hits)
    BY <1>i, <2>1
  <2> QED BY <1>i, <1>h, <2>1, <2>2 DEF SearchBreaks, BookSearchInv
<1>j. CASE UNCHANGED bookSearchVars
  BY <1>i, <1>j DEF bookSearchVars, BookSearchInv
<1> QED
  <2>1. panel.query \in Terms
    BY <1>i DEF Panel
  <2> QED
    BY <1>a, <1>b, <1>c, <1>d, <1>e, <1>f, <1>g, <1>h, <1>j, <2>1, NoWords
    DEF BookSearchNext, SubmitBlank, ClearPanel

THEOREM BookSearchInvariance == BookSearchSpec => []BookSearchInv
<1>1. BookSearchInit => BookSearchInv
  BY NoWords DEF BookSearchInit, BookSearchInv, Nothing, Panel, Answer
<1> QED BY <1>1, BookSearchStep, PTL DEF BookSearchSpec

(* The types of the panel, and the match it marks is one of its hits.         *)
THEOREM BookSearchTypesHold == BookSearchSpec => []BookSearchTypeOK
<1>1. BookSearchInv => BookSearchTypeOK
  <2> SUFFICES ASSUME BookSearchInv PROVE BookSearchTypeOK
    OBVIOUS
  <2>1. Len(panel.hits) \in Nat
    BY AnswerIs DEF BookSearchInv, Panel
  <2> QED BY <2>1 DEF BookSearchInv, BookSearchTypeOK, Panel, Submission
<1> QED BY <1>1, BookSearchInvariance, PTL

(* For any book and any term: the hits of a search that is done are the       *)
(* places where the term stands, each once and in the order of reading,       *)
(* however the answers of several searches came in (useBookSearch.ts).        *)
THEOREM HitsAreWhereTheTermStands == BookSearchSpec => []HitsAreTheOccurrences
<1>1. BookSearchInv => HitsAreTheOccurrences
  <2> SUFFICES ASSUME BookSearchInv, panel.status = "done"
               PROVE  /\ {<<panel.hits[k].unit, panel.hits[k].place>> : k \in DOMAIN panel.hits}
                           = IF book.indexed THEN Occurrences(book.text, panel.submitted) ELSE {}
                      /\ \A k \in DOMAIN panel.hits : k > 1 =>
                           panel.hits[k - 1].seq < panel.hits[k].seq
    BY DEF HitsAreTheOccurrences
  <2>1. /\ book.text \in Texts /\ panel.submitted \in Terms
        /\ panel.hits = IF book.indexed THEN QueryIndex(book.text, panel.submitted) ELSE <<>>
    BY DEF BookSearchInv, Panel
  <2>2. CASE book.indexed
    BY <2>1, <2>2, QueryFinds
  <2>3. CASE ~book.indexed
    <3>1. panel.hits = <<>> /\ DOMAIN panel.hits = {}
      BY <2>1, <2>3
    <3> QED BY <2>3, <3>1
  <2> QED BY <2>2, <2>3
<1> QED BY <1>1, BookSearchInvariance, PTL

-----------------------------------------------------------------------------
(* The page of an EPUB.                                                       *)

(* Subsequences.  No value of s stands at two places.                         *)
Once(s) == \A i, j \in DOMAIN s : s[i] = s[j] => i = j
UpTo(I, i) == {j \in I : j <= i}

LEMMA UpToGrows ==
  ASSUME NEW n \in Nat, NEW I \in SUBSET (1..n), NEW i \in I, NEW j \in I, i < j
  PROVE  Cardinality(UpTo(I, i)) < Cardinality(UpTo(I, j))
<1>1. IsFiniteSet(I)
  <2>1. IsFiniteSet(1..n)
    BY FS_Interval
  <2> QED BY <2>1, FS_Subset
<1>2. UpTo(I, j) \in SUBSET I /\ UpTo(I, i) \in SUBSET UpTo(I, j)
  <2>1. \A k \in I : k \in Int
    OBVIOUS
  <2>2. \A k \in I : k <= i => k <= j
    BY <2>1
  <2> QED BY <2>2 DEF UpTo
<1>3. IsFiniteSet(UpTo(I, j)) /\ IsFiniteSet(UpTo(I, i))
  BY <1>1, <1>2, FS_Subset
<1>4. j \in UpTo(I, j) /\ j \notin UpTo(I, i)
  BY DEF UpTo
<1>5. /\ Cardinality(UpTo(I, i)) <= Cardinality(UpTo(I, j))
      /\ Cardinality(UpTo(I, i)) = Cardinality(UpTo(I, j)) => UpTo(I, i) = UpTo(I, j)
  BY <1>2, <1>3, FS_Subset
<1>6. Cardinality(UpTo(I, i)) \in Nat /\ Cardinality(UpTo(I, j)) \in Nat
  BY <1>3, FS_CardinalityType
<1> QED BY <1>4, <1>5, <1>6

(* The places of a set, from the first to the last.                           *)
LEMMA NthPlaces ==
  ASSUME NEW n \in Nat, NEW I \in SUBSET (1..n)
  PROVE  /\ Cardinality(I) \in Nat
         /\ \A k \in 1..Cardinality(I) : Nth(I, k) \in I
         /\ \A k, l \in 1..Cardinality(I) : k < l => Nth(I, k) < Nth(I, l)
         /\ \A i \in I : \E k \in 1..Cardinality(I) : Nth(I, k) = i
<1> DEFINE C == Cardinality(I)
           R == [i \in I |-> Cardinality(UpTo(I, i))]
<1>1. IsFiniteSet(I) /\ C \in Nat
  <2>1. IsFiniteSet(1..n)
    BY FS_Interval
  <2> QED BY <2>1, FS_Subset, FS_CardinalityType
<1>0. \A i \in I : i \in Nat
  OBVIOUS
<1>2. ASSUME NEW i \in I PROVE R[i] \in 1..C
  <2>1. UpTo(I, i) \in SUBSET I /\ i \in UpTo(I, i)
    BY DEF UpTo
  <2>2. IsFiniteSet(UpTo(I, i)) /\ Cardinality(UpTo(I, i)) <= C
    BY <1>1, <2>1, FS_Subset
  <2>3. Cardinality(UpTo(I, i)) \in Nat /\ Cardinality(UpTo(I, i)) # 0
    BY <2>1, <2>2, FS_CardinalityType, FS_EmptySet
  <2> QED BY <1>1, <2>2, <2>3
<1>3. ASSUME NEW i \in I, NEW j \in I, i < j PROVE R[i] < R[j]
  BY <1>3, UpToGrows
<1>4. R \in Injection(I, 1..C)
  <2>1. ASSUME NEW i \in I, NEW j \in I, R[i] = R[j] PROVE i = j
    <3>1. i \in Nat /\ j \in Nat /\ R[i] \in 1..C /\ R[j] \in 1..C
      BY <1>2
    <3>2. ~(i < j) /\ ~(j < i)
      BY <1>1, <1>3, <2>1, <3>1
    <3> QED BY <3>1, <3>2
  <2>2. R \in [I -> 1..C] /\ DOMAIN R = I
    BY <1>2
  <2> HIDE DEF R, C
  <2> QED BY <2>1, <2>2 DEF Injection, IsInjective
<1>5. IsFiniteSet(1..C) /\ Cardinality(1..C) = C
  BY <1>1, FS_Interval
<1>6. \A k \in 1..C : \E i \in I : R[i] = k
  <2>1. R \in Surjection(I, 1..C)
    <3> HIDE DEF R
    <3> QED BY <1>4, <1>5, FS_Injection
  <2> QED BY <2>1 DEF Surjection
<1>7. ASSUME NEW k \in 1..C PROVE Nth(I, k) \in I /\ R[Nth(I, k)] = k
  <2>1. \E i \in I : Cardinality({j \in I : j <= i}) = k
    BY <1>6 DEF UpTo
  <2>2. Nth(I, k) \in I /\ Cardinality({j \in I : j <= Nth(I, k)}) = k
    BY <2>1 DEF Nth
  <2> QED BY <2>2 DEF UpTo
<1>8. ASSUME NEW k \in 1..C, NEW l \in 1..C, k < l PROVE Nth(I, k) < Nth(I, l)
  <2>1. Nth(I, k) \in I /\ Nth(I, l) \in I /\ R[Nth(I, k)] = k /\ R[Nth(I, l)] = l
    BY <1>7
  <2>2. Nth(I, k) \in Nat /\ Nth(I, l) \in Nat
    BY <1>0, <2>1
  <2> HIDE DEF R
  <2>3. Nth(I, l) # Nth(I, k)
    BY <1>1, <1>8, <2>1
  <2>4. Nth(I, l) < Nth(I, k) => R[Nth(I, l)] < R[Nth(I, k)]
    BY <1>3, <2>1
  <2>5. ~(Nth(I, l) < Nth(I, k))
    BY <1>1, <1>8, <2>1, <2>4
  <2> QED BY <2>2, <2>3, <2>5
<1>9. ASSUME NEW i \in I PROVE \E k \in 1..C : Nth(I, k) = i
  <2>1. R[i] \in 1..C /\ Nth(I, R[i]) \in I /\ R[Nth(I, R[i])] = R[i]
    BY <1>2, <1>7
  <2> HIDE DEF R
  <2>2. i \in Nat /\ Nth(I, R[i]) \in Nat
    BY <1>0, <2>1
  <2>3. ~(Nth(I, R[i]) < i) /\ ~(i < Nth(I, R[i]))
    <3>1. \A x \in 1..C : ~(x < x)
      BY <1>1
    <3> QED BY <1>3, <2>1, <3>1
  <2>4. Nth(I, R[i]) = i
    BY <2>2, <2>3
  <2> QED BY <2>1, <2>4
<1> QED BY <1>1, <1>7, <1>8, <1>9

(* The places of I in s are those of q, in the same order.                    *)
Picks(s, I, q) ==
  /\ Cardinality(I) \in Nat /\ DOMAIN q = 1..Cardinality(I)
  /\ \A k \in 1..Cardinality(I) : Nth(I, k) \in I /\ q[k] = s[Nth(I, k)]
  /\ \A k, l \in 1..Cardinality(I) : k < l => Nth(I, k) < Nth(I, l)
  /\ \A i \in I : \E k \in 1..Cardinality(I) : Nth(I, k) = i

LEMMA AtIs ==
  ASSUME NEW T, NEW s \in Seq(T), NEW I \in SUBSET DOMAIN s
  PROVE  At(s, I) \in Seq(T) /\ Picks(s, I, At(s, I))
<1>1. Len(s) \in Nat /\ DOMAIN s = 1..Len(s)
  BY LenProperties
<1>2. /\ Cardinality(I) \in Nat
      /\ \A k \in 1..Cardinality(I) : Nth(I, k) \in I
      /\ \A k, l \in 1..Cardinality(I) : k < l => Nth(I, k) < Nth(I, l)
      /\ \A i \in I : \E k \in 1..Cardinality(I) : Nth(I, k) = i
  BY <1>1, NthPlaces
<1>3. \A i \in I : s[i] \in T
  BY <1>1, ElementOfSeq
<1>4. /\ DOMAIN At(s, I) = 1..Cardinality(I)
      /\ \A k \in 1..Cardinality(I) : At(s, I)[k] = s[Nth(I, k)]
      /\ At(s, I) = [k \in 1..Cardinality(I) |-> s[Nth(I, k)]]
  BY DEF At
<1>5. At(s, I) \in [1..Cardinality(I) -> T]
  BY <1>2, <1>3, <1>4
<1>6. At(s, I) \in Seq(T)
  BY <1>2, <1>5, SeqDef
<1> QED BY <1>2, <1>4, <1>6 DEF Picks

(* What is left where some values are taken out.                              *)
LEMMA Without ==
  ASSUME NEW T, NEW s \in Seq(T), NEW I \in SUBSET DOMAIN s
  PROVE  /\ Range(At(s, I)) = {s[i] : i \in I}
         /\ Once(s) => Once(At(s, I))
<1>0. Picks(s, I, At(s, I))
  BY AtIs
<1>1. /\ Cardinality(I) \in Nat /\ DOMAIN At(s, I) = 1..Cardinality(I)
      /\ \A k \in 1..Cardinality(I) : Nth(I, k) \in I /\ At(s, I)[k] = s[Nth(I, k)]
      /\ \A k, l \in 1..Cardinality(I) : k < l => Nth(I, k) < Nth(I, l)
      /\ \A i \in I : \E k \in 1..Cardinality(I) : Nth(I, k) = i
  BY <1>0 DEF Picks
<1>2. Range(At(s, I)) = {s[i] : i \in I}
  BY <1>1 DEF Range
<1>3. ASSUME Once(s), NEW k \in 1..Cardinality(I), NEW l \in 1..Cardinality(I),
             At(s, I)[k] = At(s, I)[l]
      PROVE  k = l
  <2>1. Nth(I, k) = Nth(I, l) /\ Nth(I, k) \in I
    BY <1>1, <1>3 DEF Once
  <2>2. Nth(I, k) \in Nat
    BY <2>1, LenProperties
  <2>3. ~(k < l) /\ ~(l < k)
    <3>1. ~(Nth(I, k) < Nth(I, k))
      BY <2>2
    <3> QED BY <1>1, <2>1, <3>1
  <2> QED BY <1>1, <2>3
<1> QED BY <1>1, <1>2, <1>3 DEF Once

(* What a set is attached as.                                                 *)
LEMMA Lined ==
  ASSUME NEW S, IsFiniteSet(S)
  PROVE  /\ SetToSeq(S) \in Seq(S) /\ Range(SetToSeq(S)) = S /\ Once(SetToSeq(S))
<1> DEFINE C == Cardinality(S)
<1>1. C \in Nat /\ Bijection(1..C, S) # {}
  BY FS_CardinalityType DEF ExistsBijection
<1>2. PICK f \in Bijection(1..C, S) : TRUE
  BY <1>1
<1>3. f \in [1..C -> S] /\ IsInjective(f)
  BY <1>2 DEF Bijection, Injection
<1>4. SetToSeq(S) \in [1..C -> S] /\ IsInjective(SetToSeq(S))
  BY <1>3 DEF SetToSeq
<1>5. SetToSeq(S) \in Seq(S)
  BY <1>1, <1>4, SeqDef
<1>6. SetToSeq(S) \in Injection(1..C, S)
  BY <1>4 DEF Injection
<1>7. IsFiniteSet(1..C) /\ Cardinality(1..C) = C
  BY <1>1, FS_Interval
<1>8. SetToSeq(S) \in Surjection(1..C, S)
  BY <1>6, <1>7, FS_Injection
<1>9. Range(SetToSeq(S)) = S
  <2>1. DOMAIN SetToSeq(S) = 1..C
    BY <1>4
  <2> QED BY <1>4, <1>8, <2>1 DEF Surjection, Range
<1> QED BY <1>4, <1>5, <1>9 DEF Once, IsInjective

(* One sequence after another.                                                *)
Joins(s, t, q) ==
  /\ Len(s) \in Nat /\ Len(t) \in Nat /\ DOMAIN s = 1..Len(s) /\ DOMAIN t = 1..Len(t)
  /\ DOMAIN q = 1..(Len(s) + Len(t))
  /\ \A i \in 1..Len(s) : q[i] = s[i]
  /\ \A j \in 1..Len(t) : q[Len(s) + j] = t[j]
  /\ \A k \in 1..(Len(s) + Len(t)) :
       k \in 1..Len(s) \/ (k > Len(s) /\ k - Len(s) \in 1..Len(t) /\ q[k] = t[k - Len(s)])

LEMMA Joined ==
  ASSUME NEW T, NEW s \in Seq(T), NEW t \in Seq(T)
  PROVE  s \o t \in Seq(T) /\ Joins(s, t, s \o t)
<1>1. Len(s) \in Nat /\ Len(t) \in Nat /\ DOMAIN s = 1..Len(s) /\ DOMAIN t = 1..Len(t)
  BY LenProperties
<1>2. /\ s \o t \in Seq(T) /\ Len(s \o t) = Len(s) + Len(t)
      /\ \A i \in 1..(Len(s) + Len(t)) : (s \o t)[i] = IF i <= Len(s) THEN s[i] ELSE t[i - Len(s)]
  BY ConcatProperties
<1>3. DOMAIN (s \o t) = 1..(Len(s) + Len(t))
  BY <1>2, LenProperties
<1>4. ASSUME NEW j \in 1..Len(t) PROVE (s \o t)[Len(s) + j] = t[j]
  <2>1. Len(s) + j \in 1..(Len(s) + Len(t)) /\ ~(Len(s) + j <= Len(s)) /\ (Len(s) + j) - Len(s) = j
    BY <1>1
  <2> QED BY <1>2, <2>1
<1>5. ASSUME NEW k \in 1..(Len(s) + Len(t)), k \notin 1..Len(s)
      PROVE  k > Len(s) /\ k - Len(s) \in 1..Len(t) /\ (s \o t)[k] = t[k - Len(s)]
  <2>1. ~(k <= Len(s)) /\ k > Len(s) /\ k - Len(s) \in 1..Len(t)
    BY <1>1, <1>5
  <2> QED BY <1>2, <2>1
<1>6. ASSUME NEW i \in 1..Len(s) PROVE (s \o t)[i] = s[i]
  <2>1. i \in 1..(Len(s) + Len(t)) /\ i <= Len(s)
    BY <1>1
  <2> QED BY <1>2, <2>1
<1> QED BY <1>1, <1>2, <1>3, <1>4, <1>5, <1>6 DEF Joins

LEMMA JoinedOnce ==
  ASSUME NEW T, NEW s \in Seq(T), NEW t \in Seq(T)
  PROVE  /\ Range(s \o t) = Range(s) \union Range(t)
         /\ Once(s) /\ Once(t) /\ Range(s) \intersect Range(t) = {} => Once(s \o t)
<1>0. Joins(s, t, s \o t)
  BY Joined
<1>1. /\ Len(s) \in Nat /\ Len(t) \in Nat
      /\ DOMAIN s = 1..Len(s) /\ DOMAIN t = 1..Len(t)
      /\ DOMAIN (s \o t) = 1..(Len(s) + Len(t))
      /\ \A i \in 1..Len(s) : (s \o t)[i] = s[i]
      /\ \A j \in 1..Len(t) : (s \o t)[Len(s) + j] = t[j]
      /\ \A k \in 1..(Len(s) + Len(t)) :
           k \in 1..Len(s) \/ (k > Len(s) /\ k - Len(s) \in 1..Len(t) /\ (s \o t)[k] = t[k - Len(s)])
  BY <1>0 DEF Joins
<1>2. \A i \in 1..Len(s) : i \in 1..(Len(s) + Len(t))
  BY <1>1
<1>3. \A j \in 1..Len(t) : Len(s) + j \in 1..(Len(s) + Len(t))
  BY <1>1
<1>4. Range(s \o t) = Range(s) \union Range(t)
  <2>1. ASSUME NEW x \in Range(s \o t) PROVE x \in Range(s) \union Range(t)
    BY <1>1, <2>1 DEF Range
  <2>2. Range(s) \subseteq Range(s \o t)
    BY <1>1, <1>2 DEF Range
  <2>3. Range(t) \subseteq Range(s \o t)
    BY <1>1, <1>3 DEF Range
  <2> QED BY <2>1, <2>2, <2>3
<1>5. ASSUME Once(s), Once(t), Range(s) \intersect Range(t) = {},
             NEW k \in 1..(Len(s) + Len(t)), NEW l \in 1..(Len(s) + Len(t)),
             (s \o t)[k] = (s \o t)[l]
      PROVE  k = l
  <2>1. CASE k \in 1..Len(s) /\ l \in 1..Len(s)
    BY <1>1, <1>5, <2>1 DEF Once
  <2>2. CASE k \notin 1..Len(s) /\ l \notin 1..Len(s)
    <3>1. k - Len(s) = l - Len(s)
      BY <1>1, <1>5, <2>2 DEF Once
    <3> QED BY <1>1, <3>1
  <2>3. CASE k \in 1..Len(s) /\ l \notin 1..Len(s)
    <3>1. (s \o t)[k] \in Range(s) /\ (s \o t)[l] \in Range(t)
      BY <1>1, <2>3 DEF Range
    <3> QED BY <1>5, <3>1
  <2>4. CASE k \notin 1..Len(s) /\ l \in 1..Len(s)
    <3>1. (s \o t)[l] \in Range(s) /\ (s \o t)[k] \in Range(t)
      BY <1>1, <2>4 DEF Range
    <3> QED BY <1>5, <3>1
  <2> QED BY <2>1, <2>2, <2>3, <2>4
<1> QED BY <1>1, <1>4, <1>5 DEF Once


-----------------------------------------------------------------------------
(* The store.                                                                 *)

LEMMA RangeParts ==
  /\ \A r \in Ranges : r.chapter \in Chapters
  /\ \A h \in Highlights : RangeOf[h] \in Ranges
  /\ SpokenSentences \subseteq Ranges /\ SpokenWords \subseteq Ranges /\ Matches \subseteq Ranges
  /\ None \notin Ranges /\ None \notin Owners /\ None \notin Display /\ None \notin BOOLEAN
BY PageAssumption, AbsenceAssumption DEF Ranges, RangesOf

LEMMA RangesAreFinite ==
  ASSUME NEW H \in SUBSET Highlights
  PROVE  IsFiniteSet(RangesOfAll(H)) /\ RangesOfAll(H) \in SUBSET Ranges
<1>1. IsFiniteSet(H)
  BY PageAssumption, FS_Subset
<1> DEFINE F == [h \in H |-> RangeOf[h]]
<1>2. F \in Surjection(H, RangesOfAll(H))
  BY DEF RangesOfAll, Surjection
<1>3. IsFiniteSet(RangesOfAll(H))
  <2> HIDE DEF F
  <2> QED BY <1>1, <1>2, FS_Surjection
<1> QED BY <1>3, RangeParts DEF RangesOfAll

(* The ranges that are filed under an owner, and those its layer wants.       *)
Filed(p, o) == {r \in Ranges : p.filed[r] = o}
Layer(p, o) ==
  CASE o = "user"     -> RangesOfAll(p.painted)
    [] o = "search"   -> {p.match} \ {None}
    [] o = "sentence" -> {p.spoken} \ {None}
    [] o = "word"     -> {p.word} \ {None}

LEMMA LayerIs ==
  ASSUME NEW p
  PROVE  /\ Layer(p, "user") = RangesOfAll(p.painted)
         /\ Layer(p, "search") = {p.match} \ {None}
         /\ Layer(p, "sentence") = {p.spoken} \ {None}
         /\ Layer(p, "word") = {p.word} \ {None}
BY DEF Layer

(* What the lists and the marks of a page are, where nothing has clashed: the *)
(* ranges that are filed, each once.                                          *)
Listing(p) ==
  \A c \in Chapters :
    /\ Once(p.listed[c])
    /\ Range(p.listed[c]) = {r \in Ranges : r.chapter = c /\ p.filed[r] # None}

Marking(p) ==
  /\ \A i, j \in DOMAIN p.marks : p.marks[i].range = p.marks[j].range => i = j
  /\ \A i \in DOMAIN p.marks :
       /\ p.marks[i].held /\ p.marks[i].owner = p.filed[p.marks[i].range]
       /\ p.marks[i].range.chapter \in p.loaded
  /\ \A r \in Ranges : r.chapter \in p.loaded /\ p.filed[r] # None =>
       \E i \in DOMAIN p.marks : p.marks[i].range = r

(* The word comes after its sentence, on the lists and among the marks.       *)
OnTop(p) ==
  /\ \A c \in Chapters : \A i, j \in DOMAIN p.listed[c] :
       p.filed[p.listed[c][i]] = "word" /\ p.filed[p.listed[c][j]] = "sentence" => j < i
  /\ \A i, j \in DOMAIN p.marks :
       p.marks[i].owner = "word" /\ p.marks[j].owner = "sentence"
         /\ p.marks[i].range.chapter = p.marks[j].range.chapter => j < i

(* What the store does not touch.                                             *)
Same(p, q) ==
  /\ q.views = p.views /\ q.loaded = p.loaded /\ q.painted = p.painted /\ q.last = p.last
  /\ q.match = p.match /\ q.pending = p.pending /\ q.reported = p.reported
  /\ q.landing = p.landing /\ q.spoken = p.spoken /\ q.word = p.word

Gone(p, rs) == {r \in rs : p.filed[r] # None}
Stay(p, rs, c) == {i \in DOMAIN p.listed[c] : p.listed[c][i] \notin Gone(p, rs)}
StayMarked(p, rs) == {i \in DOMAIN p.marks : ~(p.marks[i].range \in Gone(p, rs) /\ p.marks[i].held)}

LEMMA SlipsAre ==
  ASSUME NEW p, NEW rs, NEW o
  PROVE  /\ Slips(p, rs, o) \in SUBSET {"shared", "early", "unviewed"}
         /\ Slips(p, rs, o) = {} =>
              /\ rs = {} \/ p.views # {}
              /\ \A r \in rs : p.filed[r] \in {o, None}
BY DEF Slips

(* What a removal is, field by field.                                         *)
IsRemoval(p, rs, o, q) ==
  /\ q \in Paint /\ Same(p, q)
  /\ \A r \in Ranges : q.filed[r] = IF r \in Gone(p, rs) THEN None ELSE p.filed[r]
  /\ p.views = {} => q.listed = p.listed
  /\ p.views # {} => \A c \in Chapters : q.listed[c] = At(p.listed[c], Stay(p, rs, c))
  /\ q.marks = At(p.marks, StayMarked(p, rs))
  /\ q.clashes = p.clashes \union Slips(p, Gone(p, rs), o)

LEMMA RemovedIs ==
  ASSUME NEW p \in Paint, NEW rs \in SUBSET Ranges, NEW o \in Owners
  PROVE  IsRemoval(p, rs, o, Removed(p, rs, o))
<1> DEFINE filed == [r \in Ranges |-> IF r \in Gone(p, rs) THEN None ELSE p.filed[r]]
           listed == IF p.views = {} THEN p.listed
                     ELSE [c \in Chapters |-> At(p.listed[c], Stay(p, rs, c))]
           marks == At(p.marks, StayMarked(p, rs))
           clashes == p.clashes \union Slips(p, Gone(p, rs), o)
<1>1. Removed(p, rs, o) = [p EXCEPT !.filed = filed, !.listed = listed, !.marks = marks, !.clashes = clashes]
  BY DEF Removed, Gone, Stay, StayMarked, Paint
<1>2. filed \in [Ranges -> Owners \union {None}]
  BY DEF Paint
<1>3. listed \in [Chapters -> Seq(Ranges)]
  <2>1. ASSUME NEW c \in Chapters PROVE At(p.listed[c], Stay(p, rs, c)) \in Seq(Ranges)
    <3>1. p.listed[c] \in Seq(Ranges) /\ Stay(p, rs, c) \in SUBSET DOMAIN p.listed[c]
      BY DEF Paint, Stay
    <3> QED BY <3>1, AtIs
  <2> QED BY <2>1 DEF Paint
<1>4. marks \in Seq(Mark)
  <2>1. p.marks \in Seq(Mark) /\ StayMarked(p, rs) \in SUBSET DOMAIN p.marks
    BY DEF Paint, StayMarked
  <2> QED BY <2>1, AtIs
<1>5. clashes \in SUBSET {"shared", "early", "unviewed"}
  BY SlipsAre DEF Paint
<1>6. p.views = {} => listed = p.listed
  OBVIOUS
<1>7. p.views # {} => \A c \in Chapters : listed[c] = At(p.listed[c], Stay(p, rs, c))
  OBVIOUS
<1>9. \A r \in Ranges : filed[r] = IF r \in Gone(p, rs) THEN None ELSE p.filed[r]
  OBVIOUS
<1> HIDE DEF filed, listed, marks, clashes
<1>8. /\ Removed(p, rs, o) \in Paint /\ Same(p, Removed(p, rs, o))
      /\ Removed(p, rs, o).filed = filed /\ Removed(p, rs, o).listed = listed
      /\ Removed(p, rs, o).marks = marks /\ Removed(p, rs, o).clashes = clashes
  BY <1>1, <1>2, <1>3, <1>4, <1>5 DEF Paint, Same
<1> QED BY <1>6, <1>7, <1>8, <1>9 DEF marks, clashes, IsRemoval

Frees(p, rs, o, q) ==
  /\ p.clashes = {}
  /\ \A r \in rs : p.filed[r] \in {o, None}
  /\ \A r \in Ranges : q.filed[r] = IF r \in rs THEN None ELSE p.filed[r]
  /\ p.views = {} => \A r \in rs : p.filed[r] = None
  /\ Filed(q, o) = Filed(p, o) \ rs
  /\ \A u \in Owners : u # o => Filed(q, u) = Filed(p, u)

LEMMA RemovedFiles ==
  ASSUME NEW p \in Paint, NEW rs \in SUBSET Ranges, NEW o \in Owners,
         Removed(p, rs, o).clashes = {}
  PROVE  Frees(p, rs, o, Removed(p, rs, o))
<1> DEFINE q == Removed(p, rs, o)
<1>0. IsRemoval(p, rs, o, q) /\ q.clashes = {}
  BY RemovedIs
<1> HIDE DEF q
<1>1. /\ \A r \in Ranges : q.filed[r] = IF r \in Gone(p, rs) THEN None ELSE p.filed[r]
      /\ q.clashes = p.clashes \union Slips(p, Gone(p, rs), o)
  BY <1>0 DEF IsRemoval
<1>2. p.clashes = {} /\ Slips(p, Gone(p, rs), o) = {}
  BY <1>0, <1>1
<1>3. (Gone(p, rs) = {} \/ p.views # {}) /\ \A r \in Gone(p, rs) : p.filed[r] \in {o, None}
  BY <1>2, SlipsAre
<1>4. \A r \in rs : p.filed[r] \in {o, None}
  BY <1>3 DEF Gone
<1>5. \A r \in Ranges : q.filed[r] = IF r \in rs THEN None ELSE p.filed[r]
  BY <1>1 DEF Gone
<1>6. p.views = {} => \A r \in rs : p.filed[r] = None
  BY <1>3 DEF Gone
<1>7. None \notin Owners
  BY RangeParts
<1>8. Filed(q, o) = Filed(p, o) \ rs
  BY <1>5, <1>7 DEF Filed
<1>9. \A u \in Owners : u # o => Filed(q, u) = Filed(p, u)
  BY <1>4, <1>5, <1>7 DEF Filed
<1> QED BY <1>2, <1>4, <1>5, <1>6, <1>8, <1>9 DEF q, Frees

LEMMA RemovedListing ==
  ASSUME NEW p \in Paint, NEW rs \in SUBSET Ranges, NEW o \in Owners,
         Removed(p, rs, o).clashes = {}, Listing(p)
  PROVE  Listing(Removed(p, rs, o))
<1> DEFINE q == Removed(p, rs, o)
<1>1. SUFFICES ASSUME NEW c \in Chapters
      PROVE  /\ Once(q.listed[c])
             /\ Range(q.listed[c]) = {r \in Ranges : r.chapter = c /\ q.filed[r] # None}
  BY DEF Listing
<1>2. /\ Once(p.listed[c]) /\ p.listed[c] \in Seq(Ranges)
      /\ Range(p.listed[c]) = {r \in Ranges : r.chapter = c /\ p.filed[r] # None}
  BY DEF Listing, Paint
<1>0. IsRemoval(p, rs, o, q) /\ Frees(p, rs, o, q)
  BY RemovedIs, RemovedFiles
<1> HIDE DEF q
<1>3. /\ p.views = {} => q.listed = p.listed
      /\ p.views # {} => \A d \in Chapters : q.listed[d] = At(p.listed[d], Stay(p, rs, d))
  BY <1>0 DEF IsRemoval
<1>4. /\ \A r \in Ranges : q.filed[r] = IF r \in rs THEN None ELSE p.filed[r]
      /\ p.views = {} => \A r \in rs : p.filed[r] = None
  BY <1>0 DEF Frees
<1>5. CASE p.views = {}
  BY <1>2, <1>3, <1>4, <1>5
<1>6. CASE p.views # {}
  <2>1. q.listed[c] = At(p.listed[c], Stay(p, rs, c))
    BY <1>3, <1>6
  <2>2. Stay(p, rs, c) \in SUBSET DOMAIN p.listed[c]
    BY DEF Stay
  <2>3. /\ Range(q.listed[c]) = {p.listed[c][i] : i \in Stay(p, rs, c)}
        /\ Once(q.listed[c])
    BY <1>2, <2>1, <2>2, Without
  <2>4. {p.listed[c][i] : i \in Stay(p, rs, c)} = Range(p.listed[c]) \ Gone(p, rs)
    BY DEF Stay, Range
  <2>5. Range(p.listed[c]) \ Gone(p, rs) = {r \in Ranges : r.chapter = c /\ q.filed[r] # None}
    BY <1>2, <1>4 DEF Gone
  <2> QED BY <2>3, <2>4, <2>5
<1> QED BY <1>5, <1>6

LEMMA RemovedMarking ==
  ASSUME NEW p \in Paint, NEW rs \in SUBSET Ranges, NEW o \in Owners,
         Removed(p, rs, o).clashes = {}, Marking(p)
  PROVE  Marking(Removed(p, rs, o))
<1> DEFINE q == Removed(p, rs, o)
           I == StayMarked(p, rs)
<1>0. IsRemoval(p, rs, o, q) /\ Frees(p, rs, o, q)
  BY RemovedIs, RemovedFiles
<1> HIDE DEF q
<1>1. q.marks = At(p.marks, I) /\ q.loaded = p.loaded
  BY <1>0 DEF IsRemoval, Same
<1>2. \A r \in Ranges : q.filed[r] = IF r \in rs THEN None ELSE p.filed[r]
  BY <1>0 DEF Frees
<1>3. p.marks \in Seq(Mark) /\ I \in SUBSET DOMAIN p.marks
  BY DEF Paint, StayMarked
<1>4. /\ Cardinality(I) \in Nat /\ DOMAIN q.marks = 1..Cardinality(I)
      /\ \A k \in 1..Cardinality(I) : Nth(I, k) \in I /\ q.marks[k] = p.marks[Nth(I, k)]
      /\ \A k, l \in 1..Cardinality(I) : k < l => Nth(I, k) < Nth(I, l)
      /\ \A i \in I : \E k \in 1..Cardinality(I) : Nth(I, k) = i
  <2> HIDE DEF I
  <2>1. Picks(p.marks, I, q.marks)
    BY <1>1, <1>3, AtIs
  <2> QED BY <2>1 DEF Picks
<1>5. \A i \in DOMAIN p.marks : p.marks[i] \in Mark
  BY <1>3, LenProperties, ElementOfSeq
<1>6. ASSUME NEW i \in I PROVE p.marks[i].range \in Ranges /\ p.marks[i].range \notin rs
  <2>1. i \in DOMAIN p.marks /\ p.marks[i].held /\ p.marks[i].owner = p.filed[p.marks[i].range]
    BY <1>3 DEF Marking
  <2>2. p.marks[i].range \in Ranges /\ p.marks[i].owner \in Owners
    BY <1>5, <2>1 DEF Mark
  <2>3. p.marks[i].range \notin Gone(p, rs)
    BY <2>1 DEF StayMarked
  <2> QED BY <2>1, <2>2, <2>3, RangeParts DEF Gone
<1>7. ASSUME NEW i \in DOMAIN p.marks, p.marks[i].range \notin rs PROVE i \in I
  BY <1>7 DEF StayMarked, Gone
<1> HIDE DEF I
<1>8. ASSUME NEW k \in DOMAIN q.marks, NEW l \in DOMAIN q.marks, q.marks[k].range = q.marks[l].range
      PROVE  k = l
  <2>1. /\ Nth(I, k) \in DOMAIN p.marks /\ Nth(I, l) \in DOMAIN p.marks
        /\ p.marks[Nth(I, k)].range = p.marks[Nth(I, l)].range
    BY <1>3, <1>4, <1>8
  <2>2. Nth(I, k) = Nth(I, l)
    BY <2>1 DEF Marking
  <2>3. Nth(I, k) \in Nat
    BY <1>3, <2>1, LenProperties
  <2>4. ~(Nth(I, k) < Nth(I, k))
    BY <2>3
  <2> QED BY <1>4, <2>2, <2>4
<1>9. ASSUME NEW k \in DOMAIN q.marks
      PROVE  /\ q.marks[k].held /\ q.marks[k].owner = q.filed[q.marks[k].range]
             /\ q.marks[k].range.chapter \in q.loaded
  <2>1. Nth(I, k) \in I /\ Nth(I, k) \in DOMAIN p.marks /\ q.marks[k] = p.marks[Nth(I, k)]
    BY <1>3, <1>4
  <2> QED BY <1>1, <1>2, <1>6, <2>1 DEF Marking
<1>10. ASSUME NEW r \in Ranges, r.chapter \in q.loaded, q.filed[r] # None
       PROVE  \E k \in DOMAIN q.marks : q.marks[k].range = r
  <2>1. r \notin rs /\ p.filed[r] # None
    BY <1>2, <1>10
  <2>2. PICK i \in DOMAIN p.marks : p.marks[i].range = r
    BY <1>1, <1>10, <2>1 DEF Marking
  <2>3. i \in I
    BY <1>7, <2>1, <2>2
  <2> QED BY <1>4, <2>2, <2>3
<1> QED BY <1>8, <1>9, <1>10 DEF q, Marking

LEMMA RemovedOnTop ==
  ASSUME NEW p \in Paint, NEW rs \in SUBSET Ranges, NEW o \in Owners,
         Removed(p, rs, o).clashes = {}, OnTop(p)
  PROVE  OnTop(Removed(p, rs, o))
<1> DEFINE q == Removed(p, rs, o)
           I == StayMarked(p, rs)
<1>0. IsRemoval(p, rs, o, q) /\ Frees(p, rs, o, q)
  BY RemovedIs, RemovedFiles
<1> HIDE DEF q
<1>1. /\ q.marks = At(p.marks, I) /\ q \in Paint
      /\ p.views = {} => q.listed = p.listed
      /\ p.views # {} => \A d \in Chapters : q.listed[d] = At(p.listed[d], Stay(p, rs, d))
  BY <1>0 DEF IsRemoval
<1>2. \A r \in Ranges : q.filed[r] = IF r \in rs THEN None ELSE p.filed[r]
  BY <1>0 DEF Frees
<1>3. p.marks \in Seq(Mark) /\ I \in SUBSET DOMAIN p.marks
  BY DEF Paint, StayMarked
<1>4. \A r \in Ranges : q.filed[r] \in {"word", "sentence"} => p.filed[r] = q.filed[r]
  BY <1>2, RangeParts DEF Owners
<1>5. ASSUME NEW c \in Chapters, NEW i \in DOMAIN q.listed[c], NEW j \in DOMAIN q.listed[c],
             q.filed[q.listed[c][i]] = "word", q.filed[q.listed[c][j]] = "sentence"
      PROVE  j < i
  <2>1. p.listed[c] \in Seq(Ranges) /\ q.listed[c] \in Seq(Ranges)
    BY <1>1 DEF Paint
  <2>2. q.listed[c][i] \in Ranges /\ q.listed[c][j] \in Ranges
    BY <2>1, LenProperties, ElementOfSeq
  <2>3. p.filed[q.listed[c][i]] = "word" /\ p.filed[q.listed[c][j]] = "sentence"
    BY <1>4, <1>5, <2>2
  <2>4. CASE p.views = {}
    BY <1>1, <2>3, <2>4 DEF OnTop
  <2>5. CASE p.views # {}
    <3> DEFINE J == Stay(p, rs, c)
    <3>1. q.listed[c] = At(p.listed[c], J) /\ J \in SUBSET DOMAIN p.listed[c]
      BY <1>1, <2>5 DEF Stay
    <3> HIDE DEF J
    <3>2. /\ Cardinality(J) \in Nat /\ DOMAIN q.listed[c] = 1..Cardinality(J)
          /\ \A k \in 1..Cardinality(J) : Nth(J, k) \in J /\ q.listed[c][k] = p.listed[c][Nth(J, k)]
          /\ \A k, l \in 1..Cardinality(J) : k < l => Nth(J, k) < Nth(J, l)
      <4>1. Picks(p.listed[c], J, q.listed[c])
        BY <2>1, <3>1, AtIs
      <4> QED BY <4>1 DEF Picks
    <3>3. /\ Nth(J, i) \in DOMAIN p.listed[c] /\ Nth(J, j) \in DOMAIN p.listed[c]
          /\ q.listed[c][i] = p.listed[c][Nth(J, i)] /\ q.listed[c][j] = p.listed[c][Nth(J, j)]
      BY <3>1, <3>2
    <3>4. Nth(J, j) < Nth(J, i)
      BY <2>3, <3>3 DEF OnTop
    <3>5. Nth(J, j) \in Nat /\ Nth(J, i) \in Nat /\ i \in Nat /\ j \in Nat
      BY <2>1, <3>2, <3>3, LenProperties
    <3>6. ~(i < j) /\ i # j
      BY <3>2, <3>4, <3>5
    <3> QED BY <3>5, <3>6
  <2> QED BY <2>4, <2>5
<1>6. ASSUME NEW i \in DOMAIN q.marks, NEW j \in DOMAIN q.marks,
             q.marks[i].owner = "word", q.marks[j].owner = "sentence",
             q.marks[i].range.chapter = q.marks[j].range.chapter
      PROVE  j < i
  <2> HIDE DEF I
  <2>1. /\ Cardinality(I) \in Nat /\ DOMAIN q.marks = 1..Cardinality(I)
        /\ \A k \in 1..Cardinality(I) : Nth(I, k) \in I /\ q.marks[k] = p.marks[Nth(I, k)]
        /\ \A k, l \in 1..Cardinality(I) : k < l => Nth(I, k) < Nth(I, l)
    <3>1. Picks(p.marks, I, q.marks)
      BY <1>1, <1>3, AtIs
    <3> QED BY <3>1 DEF Picks
  <2>2. /\ Nth(I, i) \in DOMAIN p.marks /\ Nth(I, j) \in DOMAIN p.marks
        /\ q.marks[i] = p.marks[Nth(I, i)] /\ q.marks[j] = p.marks[Nth(I, j)]
    BY <1>3, <2>1
  <2>3. Nth(I, j) < Nth(I, i)
    BY <1>6, <2>2 DEF OnTop
  <2>4. Nth(I, j) \in Nat /\ Nth(I, i) \in Nat /\ i \in Nat /\ j \in Nat
    BY <1>3, <2>1, <2>2, LenProperties
  <2>5. ~(i < j) /\ i # j
    BY <2>1, <2>3, <2>4
  <2> QED BY <2>4, <2>5
<1> QED BY <1>5, <1>6 DEF q, OnTop

(* What is attached follows what is there, which keeps its place.             *)
Attaches(marks, rs, filed, q) ==
  /\ Len(marks) \in Nat /\ Len(rs) \in Nat
  /\ DOMAIN marks = 1..Len(marks) /\ DOMAIN rs = 1..Len(rs)
  /\ DOMAIN q = 1..(Len(marks) + Len(rs))
  /\ \A i \in 1..Len(marks) : marks[i].range \notin Range(rs) => q[i] = marks[i]
  /\ \A j \in 1..Len(rs) :
       /\ q[Len(marks) + j].range = rs[j] /\ q[Len(marks) + j].owner = filed[rs[j]]
       /\ Once(rs) => q[Len(marks) + j].held
  /\ \A k \in 1..(Len(marks) + Len(rs)) :
       k \in 1..Len(marks) \/ (k > Len(marks) /\ k - Len(marks) \in 1..Len(rs))

LEMMA AttachedIs ==
  ASSUME NEW marks \in Seq(Mark), NEW rs \in Seq(Ranges), NEW filed,
         \A i \in DOMAIN rs : filed[rs[i]] \in Owners
  PROVE  /\ Attached(marks, rs, filed) \in Seq(Mark)
         /\ Attaches(marks, rs, filed, Attached(marks, rs, filed))
<1> DEFINE old == [i \in DOMAIN marks |->
                     IF marks[i].range \in Range(rs) THEN [marks[i] EXCEPT !.held = FALSE] ELSE marks[i]]
           new == [i \in DOMAIN rs |->
                     [range |-> rs[i], owner |-> filed[rs[i]],
                      held |-> \A j \in DOMAIN rs : rs[j] = rs[i] => j <= i]]
<1>1. Attached(marks, rs, filed) = old \o new
  BY DEF Attached
<1>2. /\ Len(marks) \in Nat /\ DOMAIN marks = 1..Len(marks)
      /\ Len(rs) \in Nat /\ DOMAIN rs = 1..Len(rs)
  BY LenProperties
<1>3. old \in Seq(Mark) /\ Len(old) = Len(marks)
  <2>1. \A i \in DOMAIN marks : marks[i] \in Mark
    BY LenProperties, ElementOfSeq
  <2>2. old \in [1..Len(marks) -> Mark]
    BY <1>2, <2>1 DEF Mark
  <2> HIDE DEF old
  <2>3. old \in Seq(Mark)
    BY <1>2, <2>2, SeqDef
  <2> QED BY <1>2, <2>2, <2>3, LenProperties
<1>4. new \in Seq(Mark) /\ Len(new) = Len(rs)
  <2>1. \A i \in DOMAIN rs : rs[i] \in Ranges
    BY LenProperties, ElementOfSeq
  <2>2. \A i \in DOMAIN rs : (\A j \in DOMAIN rs : rs[j] = rs[i] => j <= i) \in BOOLEAN
    OBVIOUS
  <2>3. new \in [1..Len(rs) -> Mark]
    BY <1>2, <2>1, <2>2 DEF Mark
  <2> HIDE DEF new
  <2>4. new \in Seq(Mark)
    BY <1>2, <2>3, SeqDef
  <2> QED BY <1>2, <2>3, <2>4, LenProperties
<1>5. \A i \in 1..Len(marks) : marks[i].range \notin Range(rs) => old[i] = marks[i]
  BY <1>2
<1>6. \A j \in 1..Len(rs) : new[j].range = rs[j] /\ new[j].owner = filed[rs[j]]
  BY <1>2
<1>7. ASSUME Once(rs), NEW j \in 1..Len(rs) PROVE new[j].held
  <2>1. \A i \in DOMAIN rs : rs[i] = rs[j] => i <= j
    BY <1>2, <1>7 DEF Once
  <2> QED BY <1>2, <2>1
<1> HIDE DEF old, new
<1>8. /\ old \o new \in Seq(Mark)
      /\ DOMAIN (old \o new) = 1..(Len(old) + Len(new))
      /\ \A i \in 1..Len(old) : (old \o new)[i] = old[i]
      /\ \A j \in 1..Len(new) : (old \o new)[Len(old) + j] = new[j]
  <2>1. old \in Seq(Mark) /\ new \in Seq(Mark)
    BY <1>3, <1>4
  <2>2. old \o new \in Seq(Mark) /\ Joins(old, new, old \o new)
    BY <2>1, Joined
  <2> QED BY <2>2 DEF Joins
<1>9. /\ old \o new \in Seq(Mark)
      /\ DOMAIN (old \o new) = 1..(Len(marks) + Len(rs))
      /\ \A i \in 1..Len(marks) : (old \o new)[i] = old[i]
      /\ \A j \in 1..Len(rs) : (old \o new)[Len(marks) + j] = new[j]
  BY <1>3, <1>4, <1>8
<1>10. \A k \in 1..(Len(marks) + Len(rs)) :
         k \in 1..Len(marks) \/ (k > Len(marks) /\ k - Len(marks) \in 1..Len(rs))
  BY <1>2
<1>11. \A i \in 1..Len(marks) : marks[i].range \notin Range(rs) => (old \o new)[i] = marks[i]
  BY <1>5, <1>9
<1>12. \A j \in 1..Len(rs) :
         /\ (old \o new)[Len(marks) + j].range = rs[j]
         /\ (old \o new)[Len(marks) + j].owner = filed[rs[j]]
         /\ Once(rs) => (old \o new)[Len(marks) + j].held
  BY <1>6, <1>7, <1>9
<1>13. Attaches(marks, rs, filed, old \o new)
  <2> DEFINE q == old \o new
  <2>1. /\ DOMAIN q = 1..(Len(marks) + Len(rs))
        /\ \A i \in 1..Len(marks) : marks[i].range \notin Range(rs) => q[i] = marks[i]
        /\ \A j \in 1..Len(rs) :
             /\ q[Len(marks) + j].range = rs[j] /\ q[Len(marks) + j].owner = filed[rs[j]]
             /\ Once(rs) => q[Len(marks) + j].held
    BY <1>9, <1>11, <1>12
  <2> HIDE DEF q
  <2>2. Attaches(marks, rs, filed, q)
    BY <1>2, <1>10, <2>1 DEF Attaches
  <2> QED BY <2>2 DEF q
<1> QED BY <1>1, <1>9, <1>13

In(rs, c) == {r \in rs : r.chapter = c}
Shown(p, rs) == {r \in rs : r.chapter \in p.loaded}

LEMMA InOrderOf ==
  ASSUME NEW rs \in SUBSET Ranges, IsFiniteSet(rs), NEW S \in SUBSET rs
  PROVE  /\ SetToSeq(S) \in Seq(Ranges) /\ Range(SetToSeq(S)) = S /\ Once(SetToSeq(S))
         /\ DOMAIN SetToSeq(S) = 1..Len(SetToSeq(S)) /\ Len(SetToSeq(S)) \in Nat
         /\ \A j \in DOMAIN SetToSeq(S) : SetToSeq(S)[j] \in S
<1>1. IsFiniteSet(S)
  BY FS_Subset
<1>2. SetToSeq(S) \in Seq(S) /\ Range(SetToSeq(S)) = S /\ Once(SetToSeq(S))
  BY <1>1, Lined
<1>3. SetToSeq(S) \in Seq(Ranges)
  BY <1>2, SeqDef
<1>4. DOMAIN SetToSeq(S) = 1..Len(SetToSeq(S)) /\ Len(SetToSeq(S)) \in Nat
  BY <1>3, LenProperties
<1> QED BY <1>2, <1>3, <1>4 DEF Range

(* What an addition is, field by field.                                       *)
IsAddition(p, rs, o, q) ==
  /\ q \in Paint /\ Same(p, q)
  /\ \A r \in Ranges : q.filed[r] = IF r \in rs THEN o ELSE p.filed[r]
  /\ \A c \in Chapters : q.listed[c] = p.listed[c] \o SetToSeq(In(rs, c))
  /\ q.marks = Attached(p.marks, SetToSeq(Shown(p, rs)), q.filed)
  /\ q.clashes = p.clashes \union Slips(p, rs, o)

LEMMA AddedIs ==
  ASSUME NEW p \in Paint, NEW rs \in SUBSET Ranges, IsFiniteSet(rs), NEW o \in Owners
  PROVE  IsAddition(p, rs, o, Added(p, rs, o))
<1> DEFINE filed == [r \in Ranges |-> IF r \in rs THEN o ELSE p.filed[r]]
           listed == [c \in Chapters |-> p.listed[c] \o SetToSeq(In(rs, c))]
           marks == Attached(p.marks, SetToSeq(Shown(p, rs)), filed)
           clashes == p.clashes \union Slips(p, rs, o)
<1>1. Added(p, rs, o) = [p EXCEPT !.filed = filed, !.listed = listed, !.marks = marks, !.clashes = clashes]
  BY DEF Added, In, Shown, Paint
<1>2. filed \in [Ranges -> Owners \union {None}]
  BY DEF Paint
<1>3. listed \in [Chapters -> Seq(Ranges)]
  <2>1. ASSUME NEW c \in Chapters PROVE p.listed[c] \o SetToSeq(In(rs, c)) \in Seq(Ranges)
    <3>1. p.listed[c] \in Seq(Ranges) /\ In(rs, c) \in SUBSET rs
      BY DEF Paint, In
    <3> QED BY <3>1, InOrderOf, Joined
  <2> QED BY <2>1
<1>4. marks \in Seq(Mark)
  <2>1. p.marks \in Seq(Mark) /\ Shown(p, rs) \in SUBSET rs
    BY DEF Paint, Shown
  <2>2. /\ SetToSeq(Shown(p, rs)) \in Seq(Ranges)
        /\ \A j \in DOMAIN SetToSeq(Shown(p, rs)) : SetToSeq(Shown(p, rs))[j] \in Shown(p, rs)
    BY <2>1, InOrderOf
  <2>3. \A j \in DOMAIN SetToSeq(Shown(p, rs)) : filed[SetToSeq(Shown(p, rs))[j]] \in Owners
    BY <2>1, <2>2
  <2> HIDE DEF filed
  <2> QED BY <2>1, <2>2, <2>3, AttachedIs
<1>5. clashes \in SUBSET {"shared", "early", "unviewed"}
  BY SlipsAre DEF Paint
<1> HIDE DEF listed, marks, clashes
<1>6. /\ Added(p, rs, o) \in Paint /\ Same(p, Added(p, rs, o))
      /\ Added(p, rs, o).filed = filed /\ Added(p, rs, o).listed = listed
      /\ Added(p, rs, o).marks = marks /\ Added(p, rs, o).clashes = clashes
  <2> HIDE DEF filed
  <2> QED BY <1>1, <1>2, <1>3, <1>4, <1>5 DEF Paint, Same
<1>7. \A r \in Ranges : filed[r] = IF r \in rs THEN o ELSE p.filed[r]
  OBVIOUS
<1>8. \A c \in Chapters : listed[c] = p.listed[c] \o SetToSeq(In(rs, c))
  BY DEF listed
<1>9. /\ marks = Attached(p.marks, SetToSeq(Shown(p, rs)), filed)
      /\ clashes = p.clashes \union Slips(p, rs, o)
  BY DEF marks, clashes
<1> HIDE DEF filed
<1> QED BY <1>6, <1>7, <1>8, <1>9 DEF IsAddition

Fills(p, rs, o, q) ==
  /\ p.clashes = {}
  /\ \A r \in rs : p.filed[r] \in {o, None}
  /\ \A r \in Ranges : q.filed[r] = IF r \in rs THEN o ELSE p.filed[r]
  /\ Filed(q, o) = Filed(p, o) \union rs
  /\ \A u \in Owners : u # o => Filed(q, u) = Filed(p, u)

LEMMA AddedFiles ==
  ASSUME NEW p \in Paint, NEW rs \in SUBSET Ranges, IsFiniteSet(rs), NEW o \in Owners,
         Added(p, rs, o).clashes = {}
  PROVE  Fills(p, rs, o, Added(p, rs, o))
<1> DEFINE q == Added(p, rs, o)
<1>0. IsAddition(p, rs, o, q) /\ q.clashes = {}
  BY AddedIs
<1> HIDE DEF q
<1>1. /\ \A r \in Ranges : q.filed[r] = IF r \in rs THEN o ELSE p.filed[r]
      /\ q.clashes = p.clashes \union Slips(p, rs, o)
  BY <1>0 DEF IsAddition
<1>2. p.clashes = {} /\ Slips(p, rs, o) = {}
  BY <1>0, <1>1
<1>3. \A r \in rs : p.filed[r] \in {o, None}
  BY <1>2, SlipsAre
<1>4. \A r \in Ranges : q.filed[r] = IF r \in rs THEN o ELSE p.filed[r]
  BY <1>1
<1>5. Filed(q, o) = Filed(p, o) \union rs
  BY <1>4 DEF Filed
<1>6. \A u \in Owners : u # o => Filed(q, u) = Filed(p, u)
  BY <1>3, <1>4, RangeParts DEF Filed
<1> QED BY <1>2, <1>3, <1>4, <1>5, <1>6 DEF q, Fills

(* What is added must not be filed yet.                                       *)
LEMMA AddedListing ==
  ASSUME NEW p \in Paint, NEW rs \in SUBSET Ranges, IsFiniteSet(rs), NEW o \in Owners,
         Added(p, rs, o).clashes = {}, Listing(p), rs \intersect Filed(p, o) = {}
  PROVE  Listing(Added(p, rs, o))
<1> DEFINE q == Added(p, rs, o)
<1>1. SUFFICES ASSUME NEW c \in Chapters
      PROVE  /\ Once(q.listed[c])
             /\ Range(q.listed[c]) = {r \in Ranges : r.chapter = c /\ q.filed[r] # None}
  BY DEF Listing
<1>2. /\ Once(p.listed[c]) /\ p.listed[c] \in Seq(Ranges)
      /\ Range(p.listed[c]) = {r \in Ranges : r.chapter = c /\ p.filed[r] # None}
  BY DEF Listing, Paint
<1>0. IsAddition(p, rs, o, q) /\ Fills(p, rs, o, q)
  BY AddedIs, AddedFiles
<1> HIDE DEF q
<1>3. q.listed[c] = p.listed[c] \o SetToSeq(In(rs, c))
  BY <1>0 DEF IsAddition
<1>4. /\ \A r \in Ranges : q.filed[r] = IF r \in rs THEN o ELSE p.filed[r]
      /\ \A r \in rs : p.filed[r] = None
  BY <1>0 DEF Fills, Filed
<1>5. /\ SetToSeq(In(rs, c)) \in Seq(Ranges) /\ Range(SetToSeq(In(rs, c))) = In(rs, c)
      /\ Once(SetToSeq(In(rs, c)))
  <2>1. In(rs, c) \in SUBSET rs
    BY DEF In
  <2> QED BY <2>1, InOrderOf
<1>6. Range(p.listed[c]) \intersect In(rs, c) = {}
  BY <1>2, <1>4 DEF In
<1>7. Range(q.listed[c]) = Range(p.listed[c]) \union In(rs, c) /\ Once(q.listed[c])
  BY <1>2, <1>3, <1>5, <1>6, JoinedOnce
<1>8. Range(p.listed[c]) \union In(rs, c) = {r \in Ranges : r.chapter = c /\ q.filed[r] # None}
  BY <1>2, <1>4, RangeParts DEF In
<1> QED BY <1>7, <1>8
(* The marks of what is added follow the marks that are there.                *)
Trails(p, t, q) ==
  /\ Len(p.marks) \in Nat /\ Len(t) \in Nat
  /\ DOMAIN p.marks = 1..Len(p.marks) /\ DOMAIN t = 1..Len(t)
  /\ DOMAIN q.marks = 1..(Len(p.marks) + Len(t))
  /\ \A i \in 1..Len(p.marks) : p.marks[i].range \notin Range(t) => q.marks[i] = p.marks[i]
  /\ \A j \in 1..Len(t) :
       /\ q.marks[Len(p.marks) + j].range = t[j]
       /\ q.marks[Len(p.marks) + j].owner = q.filed[t[j]]
       /\ q.marks[Len(p.marks) + j].held
  /\ \A k \in 1..(Len(p.marks) + Len(t)) :
       k \in 1..Len(p.marks) \/ (k > Len(p.marks) /\ k - Len(p.marks) \in 1..Len(t))

LEMMA Trailing ==
  ASSUME NEW p, p.marks \in Seq(Mark), NEW t \in Seq(Ranges), Once(t), NEW q,
         q.marks = Attached(p.marks, t, q.filed), \A j \in DOMAIN t : q.filed[t[j]] \in Owners
  PROVE  Trails(p, t, q) /\ q.marks \in Seq(Mark)
<1> DEFINE after == q.marks  before == p.marks  filed == q.filed
<1>1. /\ after = Attached(before, t, filed) /\ before \in Seq(Mark)
      /\ \A j \in DOMAIN t : filed[t[j]] \in Owners
  OBVIOUS
<1> HIDE DEF after, before, filed
<1>2. Attaches(before, t, filed, after) /\ after \in Seq(Mark)
  BY <1>1, AttachedIs
<1>3. /\ Len(before) \in Nat /\ Len(t) \in Nat /\ DOMAIN before = 1..Len(before) /\ DOMAIN t = 1..Len(t)
      /\ DOMAIN after = 1..(Len(before) + Len(t))
      /\ \A i \in 1..Len(before) : before[i].range \notin Range(t) => after[i] = before[i]
      /\ \A j \in 1..Len(t) :
           /\ after[Len(before) + j].range = t[j] /\ after[Len(before) + j].owner = filed[t[j]]
           /\ after[Len(before) + j].held
      /\ \A k \in 1..(Len(before) + Len(t)) :
           k \in 1..Len(before) \/ (k > Len(before) /\ k - Len(before) \in 1..Len(t))
  BY <1>2 DEF Attaches
<1> QED BY <1>2, <1>3 DEF Trails, after, before, filed

LEMMA AddedMarking ==
  ASSUME NEW p \in Paint, NEW rs \in SUBSET Ranges, IsFiniteSet(rs), NEW o \in Owners,
         Added(p, rs, o).clashes = {}, Marking(p), rs \intersect Filed(p, o) = {}
  PROVE  Marking(Added(p, rs, o))
<1> DEFINE q == Added(p, rs, o)
           t == SetToSeq(Shown(p, rs))
           n == Len(p.marks)
<1>0. IsAddition(p, rs, o, q) /\ Fills(p, rs, o, q)
  BY AddedIs, AddedFiles
<1> HIDE DEF q
<1>1. q.marks = Attached(p.marks, t, q.filed) /\ q \in Paint /\ q.loaded = p.loaded
  BY <1>0 DEF IsAddition, Same
<1>2. /\ \A r \in Ranges : q.filed[r] = IF r \in rs THEN o ELSE p.filed[r]
      /\ \A r \in rs : p.filed[r] = None
  BY <1>0 DEF Fills, Filed
<1>3. p.marks \in Seq(Mark) /\ Shown(p, rs) \in SUBSET rs
  BY DEF Paint, Shown
<1>4. /\ t \in Seq(Ranges) /\ Range(t) = Shown(p, rs) /\ Once(t)
      /\ \A j \in DOMAIN t : t[j] \in Shown(p, rs)
  BY <1>3, InOrderOf
<1> HIDE DEF t
<1>5. \A j \in DOMAIN t : q.filed[t[j]] \in Owners
  BY <1>2, <1>3, <1>4
<1>6. /\ n \in Nat /\ Len(t) \in Nat /\ DOMAIN p.marks = 1..n /\ DOMAIN t = 1..Len(t)
      /\ DOMAIN q.marks = 1..(n + Len(t))
      /\ \A i \in 1..n : p.marks[i].range \notin Range(t) => q.marks[i] = p.marks[i]
      /\ \A j \in 1..Len(t) :
           /\ q.marks[n + j].range = t[j] /\ q.marks[n + j].owner = q.filed[t[j]]
           /\ q.marks[n + j].held
      /\ \A k \in 1..(n + Len(t)) : k \in 1..n \/ (k > n /\ k - n \in 1..Len(t))
  <2>1. Trails(p, t, q)
    BY <1>1, <1>3, <1>4, <1>5, Trailing
  <2> QED BY <2>1 DEF Trails
<1>7. ASSUME NEW i \in 1..n
      PROVE  /\ q.marks[i] = p.marks[i] /\ i \in DOMAIN q.marks
             /\ p.marks[i].range \in Ranges /\ p.marks[i].range \notin rs
  <2>1. p.marks[i] \in Mark /\ i \in DOMAIN p.marks
    BY <1>3, <1>6, ElementOfSeq
  <2>2. p.marks[i].range \in Ranges /\ p.marks[i].owner \in Owners
    BY <2>1 DEF Mark
  <2>3. p.filed[p.marks[i].range] # None
    BY <2>1, <2>2, RangeParts DEF Marking
  <2>4. p.marks[i].range \notin rs
    BY <1>2, <2>3
  <2>5. i \in 1..(n + Len(t))
    BY <1>6
  <2> QED BY <1>3, <1>4, <1>6, <2>2, <2>4, <2>5
<1>8. ASSUME NEW k \in DOMAIN q.marks, k \notin 1..n
      PROVE  \E j \in DOMAIN t : k = n + j /\ q.marks[k].range = t[j] /\ t[j] \in rs
                                  /\ q.marks[k].owner = o /\ q.marks[k].held /\ t[j].chapter \in p.loaded
  <2>1. k - n \in 1..Len(t) /\ k = n + (k - n)
    BY <1>6, <1>8
  <2>2. /\ q.marks[k].range = t[k - n] /\ q.marks[k].owner = q.filed[t[k - n]]
        /\ q.marks[k].held
    BY <1>6, <2>1
  <2>3. t[k - n] \in Shown(p, rs)
    BY <1>4, <1>6, <2>1
  <2> QED BY <1>2, <1>3, <1>6, <2>1, <2>2, <2>3 DEF Shown
<1>9. ASSUME NEW k \in DOMAIN q.marks, NEW l \in DOMAIN q.marks, q.marks[k].range = q.marks[l].range
      PROVE  k = l
  <2>1. CASE k \in 1..n /\ l \in 1..n
    <3>1. p.marks[k].range = p.marks[l].range
      BY <1>7, <1>9, <2>1
    <3> QED BY <1>6, <2>1, <3>1 DEF Marking
  <2>2. CASE k \notin 1..n /\ l \notin 1..n
    BY <1>4, <1>8, <1>9, <2>2 DEF Once
  <2>3. CASE k \in 1..n /\ l \notin 1..n
    BY <1>7, <1>8, <1>9, <2>3
  <2>4. CASE k \notin 1..n /\ l \in 1..n
    BY <1>7, <1>8, <1>9, <2>4
  <2> QED BY <2>1, <2>2, <2>3, <2>4
<1>10. ASSUME NEW k \in DOMAIN q.marks
       PROVE  /\ q.marks[k].held /\ q.marks[k].owner = q.filed[q.marks[k].range]
              /\ q.marks[k].range.chapter \in q.loaded
  <2>1. CASE k \in 1..n
    <3>1. k \in DOMAIN p.marks /\ q.marks[k] = p.marks[k]
      BY <1>6, <1>7, <2>1
    <3> QED BY <1>1, <1>2, <1>7, <2>1, <3>1 DEF Marking
  <2>2. CASE k \notin 1..n
    BY <1>1, <1>2, <1>8, <2>2
  <2> QED BY <2>1, <2>2
<1>11. ASSUME NEW r \in Ranges, r.chapter \in q.loaded, q.filed[r] # None
       PROVE  \E k \in DOMAIN q.marks : q.marks[k].range = r
  <2>1. CASE r \in rs
    <3>1. r \in Range(t)
      BY <1>1, <1>4, <1>11, <2>1 DEF Shown
    <3>2. PICK j \in DOMAIN t : t[j] = r
      BY <3>1 DEF Range
    <3>3. n + j \in DOMAIN q.marks /\ q.marks[n + j].range = r
      BY <1>6, <3>2
    <3> QED BY <3>3
  <2>2. CASE r \notin rs
    <3>1. PICK i \in DOMAIN p.marks : p.marks[i].range = r
      BY <1>1, <1>2, <1>11, <2>2 DEF Marking
    <3> QED BY <1>6, <1>7, <3>1
  <2> QED BY <2>1, <2>2
<1> QED BY <1>9, <1>10, <1>11 DEF q, Marking

(* Only a sentence can come after its word.                                   *)
LEMMA AddedOnTop ==
  ASSUME NEW p \in Paint, NEW rs \in SUBSET Ranges, IsFiniteSet(rs), NEW o \in Owners,
         Added(p, rs, o).clashes = {}, Listing(p), Marking(p), rs \intersect Filed(p, o) = {},
         (OnTop(p) /\ o # "sentence") \/ Filed(p, "word") = {}
  PROVE  OnTop(Added(p, rs, o))
<1> DEFINE q == Added(p, rs, o)
           t == SetToSeq(Shown(p, rs))
           n == Len(p.marks)
<1>0. IsAddition(p, rs, o, q) /\ Fills(p, rs, o, q)
  BY AddedIs, AddedFiles
<1> HIDE DEF q
<1>1. /\ q.marks = Attached(p.marks, t, q.filed) /\ q \in Paint /\ q.loaded = p.loaded
      /\ \A c \in Chapters : q.listed[c] = p.listed[c] \o SetToSeq(In(rs, c))
  BY <1>0 DEF IsAddition, Same
<1>2. /\ \A r \in Ranges : q.filed[r] = IF r \in rs THEN o ELSE p.filed[r]
      /\ \A r \in rs : p.filed[r] = None
  BY <1>0 DEF Fills, Filed
<1>3. p.marks \in Seq(Mark) /\ Shown(p, rs) \in SUBSET rs
  BY DEF Paint, Shown
<1>4. /\ t \in Seq(Ranges) /\ Range(t) = Shown(p, rs) /\ Once(t)
      /\ \A j \in DOMAIN t : t[j] \in Shown(p, rs)
  BY <1>3, InOrderOf
<1> HIDE DEF t
<1>5. \A j \in DOMAIN t : q.filed[t[j]] \in Owners
  BY <1>2, <1>3, <1>4
<1>6. /\ n \in Nat /\ Len(t) \in Nat /\ DOMAIN p.marks = 1..n /\ DOMAIN t = 1..Len(t)
      /\ DOMAIN q.marks = 1..(n + Len(t))
      /\ \A i \in 1..n : p.marks[i].range \notin Range(t) => q.marks[i] = p.marks[i]
      /\ \A j \in 1..Len(t) :
           /\ q.marks[n + j].range = t[j] /\ q.marks[n + j].owner = q.filed[t[j]]
           /\ q.marks[n + j].held
      /\ \A k \in 1..(n + Len(t)) : k \in 1..n \/ (k > n /\ k - n \in 1..Len(t))
  <2>1. Trails(p, t, q)
    BY <1>1, <1>3, <1>4, <1>5, Trailing
  <2> QED BY <2>1 DEF Trails
<1>7. ASSUME NEW i \in 1..n
      PROVE  /\ q.marks[i] = p.marks[i] /\ i \in DOMAIN p.marks
             /\ p.filed[p.marks[i].range] = p.marks[i].owner /\ p.marks[i].range \in Ranges
  <2>1. p.marks[i] \in Mark /\ i \in DOMAIN p.marks
    BY <1>3, <1>6, ElementOfSeq
  <2>2. p.marks[i].range \in Ranges /\ p.marks[i].owner \in Owners
    BY <2>1 DEF Mark
  <2>3. p.filed[p.marks[i].range] = p.marks[i].owner
    BY <2>1 DEF Marking
  <2>4. p.marks[i].range \notin rs
    BY <1>2, <2>2, <2>3, RangeParts
  <2> QED BY <1>3, <1>4, <1>6, <2>1, <2>2, <2>3, <2>4
<1>8. ASSUME NEW k \in DOMAIN q.marks, k \notin 1..n PROVE q.marks[k].owner = o
  <2>1. k - n \in 1..Len(t) /\ k = n + (k - n)
    BY <1>6, <1>8
  <2>2. q.marks[k].owner = q.filed[t[k - n]]
    BY <1>6, <2>1
  <2>3. t[k - n] \in Shown(p, rs)
    BY <1>4, <1>6, <2>1
  <2> QED BY <1>2, <1>3, <2>2, <2>3
<1>9. ASSUME NEW i \in DOMAIN q.marks, NEW j \in DOMAIN q.marks,
             q.marks[i].owner = "word", q.marks[j].owner = "sentence",
             q.marks[i].range.chapter = q.marks[j].range.chapter
      PROVE  j < i
  <2>1. CASE i \in 1..n
    <3>1. Filed(p, "word") # {}
      BY <1>7, <1>9, <2>1 DEF Filed
    <3>2. OnTop(p) /\ o # "sentence"
      BY <3>1
    <3>3. j \in 1..n
      BY <1>8, <1>9, <3>2
    <3> QED BY <1>7, <1>9, <2>1, <3>2, <3>3 DEF OnTop
  <2>2. CASE i \notin 1..n
    <3>1. o = "word"
      BY <1>8, <1>9, <2>2
    <3>2. j \in 1..n
      BY <1>8, <1>9, <3>1
    <3> QED BY <1>6, <2>2, <3>2
  <2> QED BY <2>1, <2>2
<1>10. ASSUME NEW c \in Chapters, NEW i \in DOMAIN q.listed[c], NEW j \in DOMAIN q.listed[c],
              q.filed[q.listed[c][i]] = "word", q.filed[q.listed[c][j]] = "sentence"
       PROVE  j < i
  <2> DEFINE s == p.listed[c]
             u == SetToSeq(In(rs, c))
  <2>1. s \in Seq(Ranges) /\ q.listed[c] = s \o u
    BY <1>1 DEF Paint
  <2>2. In(rs, c) \in SUBSET rs
    BY DEF In
  <2>3. u \in Seq(Ranges) /\ \A l \in DOMAIN u : u[l] \in rs
    BY <2>2, InOrderOf
  <2> HIDE DEF s, u
  <2>4. /\ Len(s) \in Nat /\ Len(u) \in Nat /\ DOMAIN s = 1..Len(s) /\ DOMAIN u = 1..Len(u)
        /\ DOMAIN q.listed[c] = 1..(Len(s) + Len(u))
        /\ \A k \in 1..Len(s) : q.listed[c][k] = s[k]
        /\ \A k \in 1..(Len(s) + Len(u)) :
             k \in 1..Len(s) \/ (k > Len(s) /\ k - Len(s) \in 1..Len(u) /\ q.listed[c][k] = u[k - Len(s)])
    <3>1. Joins(s, u, q.listed[c])
      BY <2>1, <2>3, Joined
    <3> QED BY <3>1 DEF Joins
  <2>5. ASSUME NEW k \in DOMAIN q.listed[c], k \notin 1..Len(s)
        PROVE  q.filed[q.listed[c][k]] = o /\ k > Len(s) /\ k \in Nat
    <3>1. k \in 1..(Len(s) + Len(u))
      BY <2>4
    <3>2. k > Len(s) /\ k - Len(s) \in DOMAIN u /\ q.listed[c][k] = u[k - Len(s)]
      BY <2>4, <2>5, <3>1
    <3> QED BY <1>2, <2>3, <2>4, <3>1, <3>2
  <2>6. ASSUME NEW k \in 1..Len(s)
        PROVE  q.listed[c][k] = s[k] /\ s[k] \in Ranges /\ k \in DOMAIN s /\ q.filed[s[k]] = p.filed[s[k]]
    <3>1. k \in DOMAIN s /\ s[k] \in Ranges
      BY <2>1, <2>4, ElementOfSeq
    <3>2. p.filed[s[k]] # None
      <4>1. s[k] \in Range(p.listed[c])
        BY <3>1 DEF Range, s
      <4> QED BY <4>1 DEF Listing
    <3> QED BY <1>2, <2>4, <3>1, <3>2
  <2>7. CASE i \in 1..Len(s)
    <3>1. Filed(p, "word") # {}
      BY <1>10, <2>6, <2>7 DEF Filed
    <3>2. OnTop(p) /\ o # "sentence"
      BY <3>1
    <3>3. j \in 1..Len(s)
      BY <1>10, <2>5, <3>2
    <3>4. p.filed[s[i]] = "word" /\ p.filed[s[j]] = "sentence" /\ i \in DOMAIN s /\ j \in DOMAIN s
      BY <1>10, <2>6, <2>7, <3>3
    <3> QED BY <3>2, <3>4 DEF OnTop, s
  <2>8. CASE i \notin 1..Len(s)
    <3>1. o = "word"
      BY <1>10, <2>5, <2>8
    <3>2. j \in 1..Len(s)
      BY <1>10, <2>5, <3>1
    <3> QED BY <2>4, <2>8, <3>2
  <2> QED BY <2>7, <2>8
<1> QED BY <1>9, <1>10 DEF q, OnTop

(* What a step of the store keeps, and what a page has painted.               *)
Stored(p) == p \in Paint /\ (p.clashes = {} => Listing(p) /\ Marking(p))

Withdraws(p, rs, o, q) ==
  /\ Filed(q, o) = Filed(p, o) \ rs
  /\ \A u \in Owners : u # o => Filed(q, u) = Filed(p, u)
  /\ OnTop(p) => OnTop(q)

LEMMA Removal ==
  ASSUME NEW p, Stored(p), NEW rs \in SUBSET Ranges, NEW o \in Owners
  PROVE  LET q == Removed(p, rs, o) IN
         /\ Stored(q) /\ Same(p, q) /\ p.clashes \subseteq q.clashes
         /\ q.clashes = {} => Withdraws(p, rs, o, q)
<1> DEFINE q == Removed(p, rs, o)
<1>1. p \in Paint
  BY DEF Stored
<1>2. q \in Paint /\ Same(p, q) /\ p.clashes \subseteq q.clashes
  <2>1. IsRemoval(p, rs, o, q)
    BY <1>1, RemovedIs
  <2> HIDE DEF q
  <2> QED BY <2>1 DEF IsRemoval
<1>3. ASSUME q.clashes = {} PROVE Listing(q) /\ Marking(q) /\ Withdraws(p, rs, o, q)
  <2>1. Listing(p) /\ Marking(p)
    BY <1>2, <1>3 DEF Stored
  <2>2. Listing(q) /\ Marking(q)
    BY <1>1, <1>3, <2>1, RemovedListing, RemovedMarking
  <2>3. Frees(p, rs, o, q)
    BY <1>1, <1>3, RemovedFiles
  <2>4. OnTop(p) => OnTop(q)
    BY <1>1, <1>3, RemovedOnTop
  <2> HIDE DEF q
  <2> QED BY <2>2, <2>3, <2>4 DEF Frees, Withdraws
<1> HIDE DEF q
<1>4. Stored(q)
  BY <1>2, <1>3 DEF Stored
<1> QED BY <1>2, <1>3, <1>4 DEF q

Deposits(p, rs, o, q) ==
  /\ Filed(q, o) = Filed(p, o) \union rs
  /\ \A u \in Owners : u # o => Filed(q, u) = Filed(p, u)
  /\ (OnTop(p) /\ o # "sentence") \/ Filed(p, "word") = {} => OnTop(q)

LEMMA Addition ==
  ASSUME NEW p, Stored(p), NEW rs \in SUBSET Ranges, IsFiniteSet(rs), NEW o \in Owners,
         p.clashes = {} => rs \intersect Filed(p, o) = {}
  PROVE  LET q == Added(p, rs, o) IN
         /\ Stored(q) /\ Same(p, q) /\ p.clashes \subseteq q.clashes
         /\ q.clashes = {} => Deposits(p, rs, o, q)
<1> DEFINE q == Added(p, rs, o)
<1>1. p \in Paint
  BY DEF Stored
<1>2. q \in Paint /\ Same(p, q) /\ p.clashes \subseteq q.clashes
  <2>1. IsAddition(p, rs, o, q)
    BY <1>1, AddedIs
  <2> HIDE DEF q
  <2> QED BY <2>1 DEF IsAddition
<1>3. ASSUME q.clashes = {} PROVE Listing(q) /\ Marking(q) /\ Deposits(p, rs, o, q)
  <2>1. Listing(p) /\ Marking(p) /\ rs \intersect Filed(p, o) = {}
    BY <1>2, <1>3 DEF Stored
  <2>2. Listing(q)
    BY <1>1, <1>3, <2>1, AddedListing
  <2>3. Marking(q)
    BY <1>1, <1>3, <2>1, AddedMarking
  <2>4. Fills(p, rs, o, q)
    BY <1>1, <1>3, AddedFiles
  <2>5. (OnTop(p) /\ o # "sentence") \/ Filed(p, "word") = {} => OnTop(q)
    BY <1>1, <1>3, <2>1, AddedOnTop
  <2> HIDE DEF q
  <2> QED BY <2>2, <2>3, <2>4, <2>5 DEF Fills, Deposits
<1> HIDE DEF q
<1>4. Stored(q)
  BY <1>2, <1>3 DEF Stored
<1> QED BY <1>2, <1>3, <1>4 DEF q

Redeposits(p, rs, o, q) ==
  /\ Filed(q, o) = Filed(p, o) \union rs
  /\ \A u \in Owners : u # o => Filed(q, u) = Filed(p, u)
  /\ OnTop(p) /\ o # "sentence" => OnTop(q)
  /\ Filed(p, "word") = {} \/ (o = "word" /\ Filed(p, "word") \subseteq rs) => OnTop(q)

LEMMA Renewal ==
  ASSUME NEW p, Stored(p), NEW rs \in SUBSET Ranges, IsFiniteSet(rs), NEW o \in Owners
  PROVE  LET q == Renewed(p, rs, o) IN
         /\ Stored(q) /\ Same(p, q) /\ p.clashes \subseteq q.clashes
         /\ q.clashes = {} => Redeposits(p, rs, o, q)
<1> DEFINE m == Removed(p, rs, o)
           q == Added(m, rs, o)
<1>1. Renewed(p, rs, o) = q
  BY DEF Renewed
<1>2. /\ Stored(m) /\ Same(p, m) /\ p.clashes \subseteq m.clashes
      /\ m.clashes = {} => Withdraws(p, rs, o, m)
  BY Removal
<1> HIDE DEF m
<1>3. m.clashes = {} => rs \intersect Filed(m, o) = {}
  BY <1>2 DEF Withdraws
<1>4. /\ Stored(q) /\ Same(m, q) /\ m.clashes \subseteq q.clashes
      /\ q.clashes = {} => Deposits(m, rs, o, q)
  BY <1>2, <1>3, Addition
<1> HIDE DEF q
<1>5. Same(p, q) /\ p.clashes \subseteq q.clashes
  BY <1>2, <1>4 DEF Same
<1>6. ASSUME q.clashes = {} PROVE Redeposits(p, rs, o, q)
  <2>1. m.clashes = {} /\ Withdraws(p, rs, o, m) /\ Deposits(m, rs, o, q)
    BY <1>2, <1>4, <1>6
  <2>2. Filed(q, o) = Filed(p, o) \union rs /\ \A u \in Owners : u # o => Filed(q, u) = Filed(p, u)
    BY <2>1 DEF Withdraws, Deposits
  <2>3. OnTop(p) /\ o # "sentence" => OnTop(q)
    BY <2>1 DEF Withdraws, Deposits
  <2>4. "word" \in Owners
    BY DEF Owners
  <2>5. Filed(p, "word") = {} \/ (o = "word" /\ Filed(p, "word") \subseteq rs) => Filed(m, "word") = {}
    BY <2>1, <2>4 DEF Withdraws
  <2> QED BY <2>1, <2>2, <2>3, <2>5 DEF Deposits, Redeposits
<1> QED BY <1>1, <1>4, <1>5, <1>6

(* What the shell remembers of its layers is no matter of the store.          *)
LEMMA Remembered ==
  ASSUME NEW p, NEW q \in Paint, Stored(p), q.filed = p.filed, q.listed = p.listed,
         q.marks = p.marks, q.loaded = p.loaded, q.clashes = p.clashes
  PROVE  /\ Stored(q) /\ \A o \in Owners : Filed(q, o) = Filed(p, o)
         /\ OnTop(p) => OnTop(q)
<1>1. p.clashes = {} => Listing(q) /\ Marking(q)
  BY DEF Stored, Listing, Marking
<1>2. OnTop(p) => OnTop(q)
  BY DEF OnTop
<1> QED BY <1>1, <1>2 DEF Stored, Filed

(* Without a word there is nothing to be out of order.                        *)
LEMMA NoWord ==
  ASSUME NEW p, Stored(p), p.clashes = {}, Filed(p, "word") = {}
  PROVE  OnTop(p)
<1>1. p \in Paint /\ Marking(p)
  BY DEF Stored
<1>2. ASSUME NEW c \in Chapters, NEW i \in DOMAIN p.listed[c] PROVE p.filed[p.listed[c][i]] # "word"
  <2>1. p.listed[c] \in Seq(Ranges)
    BY <1>1 DEF Paint
  <2>2. p.listed[c][i] \in Ranges
    BY <2>1, LenProperties, ElementOfSeq
  <2> QED BY <2>2 DEF Filed
<1>3. ASSUME NEW i \in DOMAIN p.marks PROVE p.marks[i].owner # "word"
  <2>1. p.marks \in Seq(Mark)
    BY <1>1 DEF Paint
  <2>2. p.marks[i] \in Mark
    BY <2>1, LenProperties, ElementOfSeq
  <2>3. p.marks[i].range \in Ranges /\ p.marks[i].owner = p.filed[p.marks[i].range]
    BY <1>1, <2>2 DEF Mark, Marking
  <2> QED BY <2>3 DEF Filed
<1> QED BY <1>2, <1>3 DEF OnTop

Sound(p) ==
  /\ Stored(p)
  /\ \A h, g \in p.painted : RangeOf[h] = RangeOf[g] => h = g
  /\ p.clashes = {} => \A o \in Owners : Filed(p, o) \subseteq Layer(p, o)

(* Everything wanted is painted; nothing is but, it may be, the match.        *)
Complete(p) == \A o \in Owners : Filed(p, o) = Layer(p, o)
Bare(p) == \A o \in Owners : o # "search" => Filed(p, o) = {}

(* The host was told of its match what is so, and in the end is told.         *)
Truthful(p) ==
  /\ p.match # None <=> p.reported = TRUE
  /\ p.pending # None /\ ~p.landing => p.reported # None

(* From p to q the layers stay as complete as they are, and in their order.   *)
Keeps(p, q) ==
  /\ Sound(q) /\ p.clashes \subseteq q.clashes /\ q.views = p.views /\ q.loaded = p.loaded
  /\ p.painted \subseteq p.last => q.painted \subseteq q.last
  /\ Truthful(p) => Truthful(q)
  /\ q.clashes = {} => \A o \in Owners : Filed(p, o) = Layer(p, o) => Filed(q, o) = Layer(q, o)
Above(p, q) == q.clashes = {} /\ OnTop(p) => OnTop(q)

LEMMA KeepsOn ==
  ASSUME NEW p, NEW q, NEW s, Keeps(p, q), Keeps(q, s)
  PROVE  /\ Keeps(p, s)
         /\ Above(p, q) /\ Above(q, s) => Above(p, s)
<1>1. q.clashes \subseteq s.clashes
  BY DEF Keeps
<1> QED BY <1>1 DEF Keeps, Above

LEMMA KeepsItself ==
  ASSUME NEW p, Sound(p)
  PROVE  Keeps(p, p) /\ Above(p, p)
BY DEF Keeps, Above

LEMMA Renewing ==
  ASSUME NEW p, Sound(p), NEW rs \in SUBSET Ranges, IsFiniteSet(rs), NEW o \in Owners,
         rs \subseteq Layer(p, o)
  PROVE  LET q == Renewed(p, rs, o) IN
         /\ Keeps(p, q) /\ Same(p, q)
         /\ o # "sentence" => Above(p, q)
         /\ q.clashes = {} => Redeposits(p, rs, o, q)
<1> DEFINE q == Renewed(p, rs, o)
<1>1. /\ Stored(q) /\ Same(p, q) /\ p.clashes \subseteq q.clashes
      /\ q.clashes = {} => Redeposits(p, rs, o, q)
  BY Renewal DEF Sound
<1> HIDE DEF q
<1>2. \A u \in Owners : Layer(q, u) = Layer(p, u)
  BY <1>1 DEF Same, Layer
<1>3. ASSUME q.clashes = {}, NEW u \in Owners
      PROVE  /\ Filed(q, u) \subseteq Layer(q, u)
             /\ Filed(p, u) = Layer(p, u) => Filed(q, u) = Layer(q, u)
  <2>1. Filed(p, u) \subseteq Layer(p, u)
    BY <1>1, <1>3 DEF Sound
  <2>2. Redeposits(p, rs, o, q)
    BY <1>1, <1>3
  <2>3. CASE u = o
    BY <1>2, <2>1, <2>2, <2>3 DEF Redeposits
  <2>4. CASE u # o
    BY <1>2, <2>1, <2>2, <2>4 DEF Redeposits
  <2> QED BY <2>3, <2>4
<1>4. Sound(q)
  BY <1>1, <1>3 DEF Sound, Same
<1>5. (p.painted \subseteq p.last => q.painted \subseteq q.last) /\ (Truthful(p) => Truthful(q))
  BY <1>1 DEF Same, Truthful
<1>6. Keeps(p, q)
  BY <1>1, <1>3, <1>4, <1>5 DEF Keeps, Same
<1>7. o # "sentence" => Above(p, q)
  BY <1>1 DEF Above, Redeposits
<1> QED BY <1>1, <1>6, <1>7 DEF q

(* The search match.                                                          *)
Searches(p, q) ==
  /\ Sound(q) /\ p.clashes \subseteq q.clashes /\ Above(p, q)
  /\ q.views = p.views /\ q.loaded = p.loaded /\ q.painted = p.painted /\ q.last = p.last
  /\ q.landing = p.landing /\ q.spoken = p.spoken /\ q.word = p.word
  /\ q.clashes = {} =>
       /\ Filed(q, "search") = Layer(q, "search")
       /\ \A u \in Owners : u # "search" => Filed(q, u) = Filed(p, u) /\ Layer(q, u) = Layer(p, u)

LEMMA LayersOf ==
  ASSUME NEW p, NEW q, q.painted = p.painted, q.spoken = p.spoken, q.word = p.word
  PROVE  \A u \in Owners : u # "search" => Layer(q, u) = Layer(p, u)
BY DEF Layer, Owners

LEMMA Unmatching ==
  ASSUME NEW p, Sound(p)
  PROVE  /\ Searches(p, Unmatched(p)) /\ Unmatched(p).match = None
         /\ Unmatched(p).reported = p.reported /\ Unmatched(p).pending = p.pending
<1> DEFINE q == Unmatched(p)
<1>0. p \in Paint /\ Stored(p) /\ "search" \in Owners
  BY DEF Sound, Stored, Owners
<1>1. CASE p.match = None
  <2>1. q = p
    BY <1>1 DEF Unmatched
  <2>2. p.clashes = {} => Filed(p, "search") = Layer(p, "search")
    BY <1>0, <1>1, LayerIs DEF Sound
  <2> HIDE DEF q
  <2>3. Searches(p, q)
    BY <2>1, <2>2 DEF Searches, Above
  <2> QED BY <1>1, <2>1, <2>3 DEF q
<1>2. CASE p.match # None
  <2> DEFINE m == Removed(p, {p.match}, "search")
  <2>1. q = [m EXCEPT !.match = None]
    BY <1>2 DEF Unmatched
  <2>2. p.match \in Ranges
    BY <1>0, <1>2, RangeParts DEF Paint
  <2>3. /\ Stored(m) /\ Same(p, m) /\ p.clashes \subseteq m.clashes
        /\ m.clashes = {} => Withdraws(p, {p.match}, "search", m)
    BY <1>0, <2>2, Removal
  <2> HIDE DEF m, q
  <2>4. m \in Paint
    BY <2>3 DEF Stored
  <2>5. /\ q \in Paint /\ q.match = None /\ q.filed = m.filed /\ q.listed = m.listed
        /\ q.marks = m.marks /\ q.loaded = m.loaded /\ q.clashes = m.clashes
        /\ q.views = m.views /\ q.painted = m.painted /\ q.last = m.last /\ q.pending = m.pending
        /\ q.reported = m.reported /\ q.landing = m.landing /\ q.spoken = m.spoken /\ q.word = m.word
    BY <2>1, <2>4 DEF Paint
  <2>6. Stored(q) /\ (\A u \in Owners : Filed(q, u) = Filed(m, u)) /\ (OnTop(m) => OnTop(q))
    BY <2>3, <2>5, Remembered
  <2>7. \A u \in Owners : u # "search" => Layer(q, u) = Layer(p, u)
    BY <2>3, <2>5, LayersOf DEF Same
  <2>8. Layer(q, "search") = {}
    BY <2>5, LayerIs
  <2>9. ASSUME q.clashes = {}
        PROVE  /\ Filed(q, "search") = {}
               /\ \A u \in Owners : u # "search" => Filed(q, u) = Filed(p, u)
    <3>1. Withdraws(p, {p.match}, "search", m) /\ p.clashes = {}
      BY <2>3, <2>5, <2>9
    <3>2. Filed(p, "search") \subseteq {p.match}
      BY <1>0, <3>1, LayerIs DEF Sound
    <3>3. Filed(m, "search") = {}
      BY <3>1, <3>2 DEF Withdraws
    <3> QED BY <1>0, <2>6, <3>1, <3>3 DEF Withdraws
  <2>10. Sound(q)
    <3>1. \A h, g \in q.painted : RangeOf[h] = RangeOf[g] => h = g
      BY <2>3, <2>5 DEF Sound, Same
    <3>2. ASSUME q.clashes = {}, NEW u \in Owners PROVE Filed(q, u) \subseteq Layer(q, u)
      <4>1. p.clashes = {}
        BY <2>3, <2>5, <3>2
      <4>2. Filed(p, u) \subseteq Layer(p, u)
        BY <4>1 DEF Sound
      <4> QED BY <2>7, <2>9, <3>2, <4>2
    <3> QED BY <2>6, <3>1, <3>2 DEF Sound
  <2>11. Above(p, q)
    BY <2>3, <2>5, <2>6 DEF Above, Withdraws
  <2>12. Searches(p, q)
    BY <2>3, <2>5, <2>7, <2>8, <2>9, <2>10, <2>11 DEF Searches, Same
  <2> QED BY <2>3, <2>5, <2>12 DEF Same, q
<1> QED BY <1>1, <1>2

(* What is said of a match, and which is asked for, paints nothing.           *)
LEMMA Saying ==
  ASSUME NEW p, NEW q, NEW s \in Paint, Searches(p, q),
         s.filed = q.filed, s.listed = q.listed, s.marks = q.marks, s.views = q.views,
         s.loaded = q.loaded, s.painted = q.painted, s.last = q.last, s.match = q.match,
         s.landing = q.landing, s.spoken = q.spoken, s.word = q.word, s.clashes = q.clashes
  PROVE  Searches(p, s)
<1>1. Sound(q) /\ Stored(q)
  BY DEF Searches, Sound
<1>2. Stored(s) /\ (\A u \in Owners : Filed(s, u) = Filed(q, u)) /\ (OnTop(q) => OnTop(s))
  BY <1>1, Remembered
<1>3. \A u \in Owners : Layer(s, u) = Layer(q, u)
  BY DEF Layer
<1>4. Sound(s)
  BY <1>1, <1>2, <1>3 DEF Sound
<1>5. "search" \in Owners
  BY DEF Owners
<1>6. Above(p, s)
  BY <1>2 DEF Searches, Above
<1>7. s.clashes = {} =>
       /\ Filed(s, "search") = Layer(s, "search")
       /\ \A u \in Owners : u # "search" => Filed(s, u) = Filed(p, u) /\ Layer(s, u) = Layer(p, u)
  BY <1>2, <1>3, <1>5 DEF Searches
<1> QED BY <1>4, <1>6, <1>7 DEF Searches

(* A match that is painted is told of, and what was told is not taken back.   *)
Replies(p, m, s) ==
  /\ s.pending = m
  /\ p.reported # TRUE => (s.match # None <=> s.reported = TRUE)
  /\ p.reported # None => s.reported # None

LEMMA Searching ==
  ASSUME NEW p, Sound(p), NEW m \in Matches \union {None}
  PROVE  Searches(p, SearchApplied(p, m)) /\ Replies(p, m, SearchApplied(p, m))
<1> DEFINE s == SearchApplied(p, m)
           u == Unmatched(p)
           q == [u EXCEPT !.pending = m]
<1>1. Searches(p, u) /\ u.match = None /\ u.reported = p.reported
  BY Unmatching
<1> HIDE DEF u
<1>2. u \in Paint
  BY <1>1 DEF Searches, Sound, Stored
<1>3. /\ q \in Paint /\ q.pending = m
      /\ q.filed = u.filed /\ q.listed = u.listed /\ q.marks = u.marks /\ q.views = u.views
      /\ q.loaded = u.loaded /\ q.painted = u.painted /\ q.last = u.last /\ q.match = u.match
      /\ q.landing = u.landing /\ q.spoken = u.spoken /\ q.word = u.word /\ q.clashes = u.clashes
      /\ q.reported = u.reported
  BY <1>2 DEF Paint
<1>4. s = IF m = None THEN q
          ELSE IF m.chapter \notin q.loaded THEN q
          ELSE IF m.words = {} \/ \E h \in q.painted : RangeOf[h] = m THEN Reports(q, FALSE)
          ELSE Reports([Added(q, {m}, "search") EXCEPT !.match = m], TRUE)
  BY DEF SearchApplied, u
<1> HIDE DEF q, s
<1>5. Searches(p, q)
  BY <1>1, <1>3, Saying
<1>6. ASSUME s = q PROVE Searches(p, s) /\ Replies(p, m, s)
  BY <1>1, <1>3, <1>5, <1>6 DEF Replies
<1>7. ASSUME s = Reports(q, FALSE) PROVE Searches(p, s) /\ Replies(p, m, s)
  <2>1. /\ s \in Paint /\ s.pending = m /\ s.reported = FALSE
        /\ s.filed = q.filed /\ s.listed = q.listed /\ s.marks = q.marks /\ s.views = q.views
        /\ s.loaded = q.loaded /\ s.painted = q.painted /\ s.last = q.last /\ s.match = q.match
        /\ s.landing = q.landing /\ s.spoken = q.spoken /\ s.word = q.word /\ s.clashes = q.clashes
    BY <1>3, <1>7 DEF Reports, Paint
  <2>2. Searches(p, s)
    BY <1>5, <2>1, Saying
  <2> QED BY <1>1, <1>3, <2>1, <2>2, RangeParts DEF Replies
<1>8. ASSUME m # None, s = Reports([Added(q, {m}, "search") EXCEPT !.match = m], TRUE)
      PROVE  Searches(p, s) /\ Replies(p, m, s)
  <2> DEFINE a == Added(q, {m}, "search")
  <2>1. m \in Ranges /\ "search" \in Owners /\ Stored(q) /\ Sound(q) /\ {m} \in SUBSET Ranges
    BY <1>5, <1>8, RangeParts DEF Searches, Sound, Owners
  <2>2. q.clashes = {} => Filed(q, "search") = {}
    BY <1>1, <1>3, <2>1, LayerIs DEF Sound
  <2>3. IsFiniteSet({m})
    BY FS_Singleton
  <2>4. /\ Stored(a) /\ Same(q, a) /\ q.clashes \subseteq a.clashes
        /\ a.clashes = {} => Deposits(q, {m}, "search", a)
    BY <2>1, <2>2, <2>3, Addition
  <2>5. s = Reports([a EXCEPT !.match = m], TRUE)
    BY <1>8
  <2> HIDE DEF a
  <2>6. a \in Paint
    BY <2>4 DEF Stored
  <2>7. /\ s \in Paint /\ s.pending = a.pending /\ s.reported = TRUE /\ s.match = m
        /\ s.filed = a.filed /\ s.listed = a.listed /\ s.marks = a.marks /\ s.views = a.views
        /\ s.loaded = a.loaded /\ s.painted = a.painted /\ s.last = a.last
        /\ s.landing = a.landing /\ s.spoken = a.spoken /\ s.word = a.word /\ s.clashes = a.clashes
    BY <2>5, <2>6, <1>8 DEF Reports, Paint
  <2>8. Stored(s) /\ (\A o \in Owners : Filed(s, o) = Filed(a, o)) /\ (OnTop(a) => OnTop(s))
    BY <2>4, <2>7, Remembered
  <2>9. /\ s.views = q.views /\ s.loaded = q.loaded /\ s.painted = q.painted /\ s.last = q.last
        /\ s.landing = q.landing /\ s.spoken = q.spoken /\ s.word = q.word /\ s.pending = m
    BY <1>3, <2>4, <2>7 DEF Same
  <2>10. \A o \in Owners : o # "search" => Layer(s, o) = Layer(q, o)
    BY <2>9, LayersOf
  <2>11. Layer(s, "search") = {m}
    BY <1>8, <2>7, LayerIs
  <2>12. ASSUME s.clashes = {}
         PROVE  /\ Filed(s, "search") = Layer(s, "search")
                /\ \A o \in Owners : o # "search" => Filed(s, o) = Filed(q, o)
                /\ OnTop(q) => OnTop(s)
    <3>1. Deposits(q, {m}, "search", a) /\ q.clashes = {}
      BY <2>4, <2>7, <2>12
    <3> QED BY <2>1, <2>2, <2>8, <2>11, <3>1 DEF Deposits
  <2>13. ASSUME s.clashes = {}, NEW o \in Owners PROVE Filed(s, o) \subseteq Layer(s, o)
    <3>1. q.clashes = {}
      BY <2>4, <2>7, <2>13
    <3>2. Filed(q, o) \subseteq Layer(q, o)
      BY <2>1, <3>1 DEF Sound
    <3> QED BY <2>10, <2>12, <2>13, <3>2
  <2>14. Sound(s)
    BY <2>1, <2>8, <2>9, <2>13 DEF Sound
  <2>15. Above(p, s) /\ p.clashes \subseteq s.clashes
    BY <1>5, <2>4, <2>7, <2>12 DEF Above, Searches
  <2>16. s.clashes = {} => q.clashes = {}
    BY <2>4, <2>7
  <2>17. Searches(p, s)
    BY <1>5, <2>9, <2>10, <2>12, <2>14, <2>15, <2>16 DEF Searches
  <2> QED BY <1>8, <2>7, <2>9, <2>17, RangeParts DEF Replies
<1>9. s = q \/ s = Reports(q, FALSE) \/ (m # None /\ s = Reports([Added(q, {m}, "search") EXCEPT !.match = m], TRUE))
  BY <1>4
<1> QED BY <1>6, <1>7, <1>8, <1>9 DEF s

LEMMA SearchesKeeps ==
  ASSUME NEW p, NEW q, Sound(p), Searches(p, q), Truthful(p) => Truthful(q)
  PROVE  Keeps(p, q) /\ Above(p, q)
BY DEF Searches, Keeps

(* From p to q nothing is painted but, it may be, the match.                  *)
Spares(p, q) == q.clashes = {} => \A u \in Owners : u # "search" => Filed(q, u) = Filed(p, u)

LEMMA Retrying ==
  ASSUME NEW p, Sound(p)
  PROVE  Keeps(p, Retried(p)) /\ Above(p, Retried(p)) /\ Spares(p, Retried(p))
<1> DEFINE q == Retried(p)
<1>1. p.pending \in Matches \union {None}
  BY DEF Sound, Stored, Paint
<1>2. CASE p.pending = None \/ p.match # None
  BY <1>2, KeepsItself DEF Retried, Spares
<1>3. CASE p.pending # None /\ p.match = None
  <2>1. q = SearchApplied(p, p.pending)
    BY <1>3 DEF Retried
  <2> HIDE DEF q
  <2>2. Searches(p, q) /\ Replies(p, p.pending, q)
    BY <1>1, <2>1, Searching
  <2>3. ASSUME Truthful(p) PROVE Truthful(q)
    <3>1. p.reported # TRUE
      BY <1>3, <2>3 DEF Truthful
    <3>2. q.match # None <=> q.reported = TRUE
      BY <2>2, <3>1 DEF Replies
    <3>3. q.pending = p.pending /\ q.landing = p.landing /\ (p.reported # None => q.reported # None)
      BY <2>2 DEF Replies, Searches
    <3> QED BY <2>3, <3>2, <3>3 DEF Truthful
  <2>4. Keeps(p, q) /\ Above(p, q)
    BY <2>2, <2>3, SearchesKeeps
  <2>5. Spares(p, q)
    BY <2>2 DEF Searches, Spares
  <2> QED BY <2>4, <2>5 DEF q
<1> QED BY <1>2, <1>3

LEMMA MatchLifting ==
  ASSUME NEW p, Sound(p)
  PROVE  LET q == MatchLifted(p) IN
         /\ Keeps(p, q) /\ Above(p, q) /\ Same(p, q)
         /\ q.clashes = {} => /\ Filed(q, "search") = Layer(q, "search")
                              /\ \A u \in Owners : u # "search" => Filed(q, u) = Filed(p, u)
<1> DEFINE q == MatchLifted(p)
<1>0. "search" \in Owners /\ p \in Paint
  BY DEF Owners, Sound, Stored
<1>1. CASE p.match = None
  <2>1. q = p
    BY <1>1 DEF MatchLifted
  <2>2. p.clashes = {} => Filed(p, "search") = Layer(p, "search")
    BY <1>0, <1>1, LayerIs DEF Sound
  <2> QED BY <2>1, <2>2, KeepsItself DEF Same
<1>2. CASE p.match # None
  <2>1. q = Renewed(p, {p.match}, "search")
    BY <1>2 DEF MatchLifted
  <2>2. {p.match} \in SUBSET Ranges /\ IsFiniteSet({p.match}) /\ Layer(p, "search") = {p.match}
    <3>1. p.match \in Ranges
      BY <1>0, <1>2, RangeParts DEF Paint
    <3>2. IsFiniteSet({p.match})
      BY FS_Singleton
    <3>3. Layer(p, "search") = {p.match}
      BY <1>2, LayerIs
    <3> QED BY <3>1, <3>2, <3>3
  <2>3. /\ Keeps(p, q) /\ Same(p, q) /\ Above(p, q)
        /\ q.clashes = {} => Redeposits(p, {p.match}, "search", q)
    BY <1>0, <2>1, <2>2, Renewing
  <2> HIDE DEF q
  <2>4. ASSUME q.clashes = {}
        PROVE  /\ Filed(q, "search") = Layer(q, "search")
               /\ \A u \in Owners : u # "search" => Filed(q, u) = Filed(p, u)
    <3>1. Redeposits(p, {p.match}, "search", q) /\ p.clashes = {}
      BY <2>3, <2>4 DEF Keeps
    <3>2. Filed(p, "search") \subseteq {p.match}
      BY <1>0, <2>2, <3>1 DEF Sound
    <3>3. Layer(q, "search") = {p.match}
      BY <2>2, <2>3, LayerIs DEF Same
    <3> QED BY <3>1, <3>2, <3>3 DEF Redeposits
  <2> QED BY <2>3, <2>4 DEF q
<1> QED BY <1>1, <1>2

(* The reader's highlights.                                                   *)
ButHighlights(p, q) ==
  /\ q.last = p.last /\ q.pending = p.pending /\ q.landing = p.landing
  /\ q.spoken = p.spoken /\ q.word = p.word

LEMMA OtherLayers ==
  ASSUME NEW p, NEW q, q.match = p.match, q.spoken = p.spoken, q.word = p.word
  PROVE  \A u \in Owners : u # "user" => Layer(q, u) = Layer(p, u)
BY DEF Layer, Owners

LEMMA HighlightsRemoving ==
  ASSUME NEW p, Sound(p), NEW H \in SUBSET p.painted
  PROVE  LET q == HighlightsRemoved(p, H) IN
         /\ Keeps(p, q) /\ Above(p, q) /\ ButHighlights(p, q) /\ q.painted = p.painted \ H
<1> DEFINE q == HighlightsRemoved(p, H)
           rs == RangesOfAll(H)
           m == Removed(p, rs, "user")
<1>1. p \in Paint /\ Stored(p) /\ "user" \in Owners
  BY DEF Sound, Stored, Owners
<1>2. p.painted \in SUBSET Highlights /\ rs \in SUBSET Ranges
  <2>1. p.painted \in SUBSET Highlights
    BY <1>1 DEF Paint
  <2> QED BY <2>1, RangesAreFinite
<1>3. q = [m EXCEPT !.painted = @ \ H]
  BY DEF HighlightsRemoved
<1>4. /\ Stored(m) /\ Same(p, m) /\ p.clashes \subseteq m.clashes
      /\ m.clashes = {} => Withdraws(p, rs, "user", m)
  BY <1>1, <1>2, Removal
<1> HIDE DEF m, q
<1>5. m \in Paint
  BY <1>4 DEF Stored
<1>6. /\ q \in Paint /\ q.painted = m.painted \ H /\ q.filed = m.filed /\ q.listed = m.listed
      /\ q.marks = m.marks /\ q.loaded = m.loaded /\ q.clashes = m.clashes /\ q.views = m.views
      /\ q.last = m.last /\ q.match = m.match /\ q.pending = m.pending
      /\ q.reported = m.reported /\ q.landing = m.landing /\ q.spoken = m.spoken /\ q.word = m.word
  BY <1>3, <1>5 DEF Paint
<1>7. Stored(q) /\ (\A u \in Owners : Filed(q, u) = Filed(m, u)) /\ (OnTop(m) => OnTop(q))
  BY <1>4, <1>6, Remembered
<1>8. ButHighlights(p, q) /\ q.painted = p.painted \ H
  BY <1>4, <1>6 DEF Same, ButHighlights
<1>9. Truthful(p) => Truthful(q)
  BY <1>4, <1>6 DEF Same, Truthful
<1>10. \A u \in Owners : u # "user" => Layer(q, u) = Layer(p, u)
  BY <1>4, <1>6, OtherLayers DEF Same
<1>11. Layer(q, "user") = Layer(p, "user") \ rs
  <2>1. \A h \in p.painted : RangeOf[h] \in rs => h \in H
    BY DEF Sound, RangesOfAll
  <2>2. RangesOfAll(p.painted \ H) = RangesOfAll(p.painted) \ rs
    BY <2>1 DEF RangesOfAll
  <2> QED BY <1>8, <2>2, LayerIs
<1>12. ASSUME q.clashes = {}, NEW u \in Owners
       PROVE  /\ Filed(q, u) \subseteq Layer(q, u)
              /\ Filed(p, u) = Layer(p, u) => Filed(q, u) = Layer(q, u)
  <2>1. p.clashes = {} /\ Withdraws(p, rs, "user", m)
    BY <1>4, <1>6, <1>12
  <2>2. Filed(p, u) \subseteq Layer(p, u)
    BY <2>1 DEF Sound
  <2>3. CASE u = "user"
    BY <1>7, <1>11, <2>1, <2>2, <2>3 DEF Withdraws
  <2>4. CASE u # "user"
    BY <1>7, <1>10, <2>1, <2>2, <2>4 DEF Withdraws
  <2> QED BY <2>3, <2>4
<1>13. Sound(q)
  <2>1. \A h, g \in q.painted : RangeOf[h] = RangeOf[g] => h = g
    BY <1>8 DEF Sound
  <2> QED BY <1>7, <1>12, <2>1 DEF Sound
<1>14. Keeps(p, q)
  BY <1>4, <1>6, <1>8, <1>9, <1>12, <1>13 DEF Keeps, Same, ButHighlights
<1>15. Above(p, q)
  BY <1>4, <1>6, <1>7 DEF Above, Withdraws
<1> QED BY <1>8, <1>14, <1>15 DEF q

Chosen(H, rs) == {CHOOSE h \in H : RangeOf[h] = r : r \in rs}

LEMMA ChosenIs ==
  ASSUME NEW H \in SUBSET Highlights, NEW rs \in SUBSET RangesOfAll(H)
  PROVE  /\ Chosen(H, rs) \in SUBSET H /\ RangesOfAll(Chosen(H, rs)) = rs
         /\ \A h, g \in Chosen(H, rs) : RangeOf[h] = RangeOf[g] => h = g
<1> DEFINE C(r) == CHOOSE h \in H : RangeOf[h] = r
<1>1. ASSUME NEW r \in rs PROVE C(r) \in H /\ RangeOf[C(r)] = r
  <2>1. \E h \in H : RangeOf[h] = r
    BY DEF RangesOfAll
  <2> QED BY <2>1
<1>2. Chosen(H, rs) = {C(r) : r \in rs}
  BY DEF Chosen
<1> HIDE DEF C
<1>3. Chosen(H, rs) \in SUBSET H
  BY <1>1, <1>2
<1>4. RangesOfAll(Chosen(H, rs)) = rs
  BY <1>1, <1>2 DEF RangesOfAll
<1>5. \A h, g \in Chosen(H, rs) : RangeOf[h] = RangeOf[g] => h = g
  BY <1>1, <1>2
<1> QED BY <1>3, <1>4, <1>5

LEMMA HighlightsAdding ==
  ASSUME NEW p, Sound(p), NEW H \in SUBSET p.last
  PROVE  LET q == HighlightsAdded(p, H) IN
         /\ Keeps(p, q) /\ Above(p, q) /\ ButHighlights(p, q)
         /\ q.painted \subseteq p.painted \union H
<1> DEFINE u == IF p.match \in RangesOfAll(H) THEN Reports(Unmatched(p), FALSE) ELSE p
           free == RangesOfAll(H) \ RangesOfAll(u.painted)
           a == Added(u, free, "user")
           q == [a EXCEPT !.painted = @ \union Chosen(H, free)]
<1>0. p \in Paint /\ "user" \in Owners
  BY DEF Sound, Stored, Owners
<1>1. HighlightsAdded(p, H) = q
  BY DEF HighlightsAdded, Chosen
<1>2. /\ H \in SUBSET Highlights /\ IsFiniteSet(RangesOfAll(H)) /\ RangesOfAll(H) \in SUBSET Ranges
  <2>1. H \in SUBSET Highlights
    BY <1>0 DEF Paint
  <2> QED BY <2>1, RangesAreFinite
<1>3. Keeps(p, u) /\ Above(p, u) /\ ButHighlights(p, u) /\ u.painted = p.painted
  <2>1. CASE p.match \notin RangesOfAll(H)
    <3>1. u = p
      BY <2>1
    <3> QED BY <3>1, KeepsItself DEF ButHighlights
  <2>2. CASE p.match \in RangesOfAll(H)
    <3> DEFINE m == Unmatched(p)
    <3>1. u = Reports(m, FALSE)
      BY <2>2
    <3>2. Searches(p, m) /\ m.match = None /\ m.pending = p.pending
      BY Unmatching
    <3> HIDE DEF m, u
    <3>3. m \in Paint
      BY <3>2 DEF Searches, Sound, Stored
    <3>4. /\ u \in Paint /\ u.reported = FALSE
          /\ u.filed = m.filed /\ u.listed = m.listed /\ u.marks = m.marks /\ u.views = m.views
          /\ u.loaded = m.loaded /\ u.painted = m.painted /\ u.last = m.last /\ u.match = m.match
          /\ u.landing = m.landing /\ u.spoken = m.spoken /\ u.word = m.word
          /\ u.clashes = m.clashes /\ u.pending = m.pending
      BY <3>1, <3>3 DEF Reports, Paint
    <3>5. Searches(p, u)
      BY <3>2, <3>4, Saying
    <3>6. Truthful(u)
      BY <3>2, <3>4, RangeParts DEF Truthful
    <3>7. Keeps(p, u) /\ Above(p, u)
      BY <3>5, <3>6, SearchesKeeps
    <3> QED BY <3>2, <3>4, <3>5, <3>7 DEF Searches, ButHighlights
  <2> QED BY <2>1, <2>2
<1> HIDE DEF u
<1>4. Sound(u) /\ Stored(u)
  BY <1>3 DEF Keeps, Sound
<1>5. free \in SUBSET Ranges /\ IsFiniteSet(free) /\ free \in SUBSET RangesOfAll(H)
  BY <1>2, FS_Subset
<1>6. u.clashes = {} => free \intersect Filed(u, "user") = {}
  BY <1>0, <1>4, LayerIs DEF Sound
<1>7. free \intersect RangesOfAll(u.painted) = {}
  OBVIOUS
<1> HIDE DEF free
<1>8. /\ Stored(a) /\ Same(u, a) /\ u.clashes \subseteq a.clashes
      /\ a.clashes = {} => Deposits(u, free, "user", a)
  BY <1>0, <1>4, <1>5, <1>6, Addition
<1>9. /\ Chosen(H, free) \in SUBSET H /\ RangesOfAll(Chosen(H, free)) = free
      /\ \A h, g \in Chosen(H, free) : RangeOf[h] = RangeOf[g] => h = g
  BY <1>2, <1>5, ChosenIs
<1> DEFINE new == Chosen(H, free)
<1> HIDE DEF a, new
<1>10. q = [a EXCEPT !.painted = @ \union new]
  BY DEF new
<1>11. new \in SUBSET H /\ RangesOfAll(new) = free /\ \A h, g \in new : RangeOf[h] = RangeOf[g] => h = g
  BY <1>9 DEF new
<1> HIDE DEF q
<1>12. a \in Paint
  BY <1>8 DEF Stored
<1>13. /\ q \in Paint /\ q.painted = a.painted \union new /\ q.filed = a.filed /\ q.listed = a.listed
       /\ q.marks = a.marks /\ q.loaded = a.loaded /\ q.clashes = a.clashes /\ q.views = a.views
       /\ q.last = a.last /\ q.match = a.match /\ q.pending = a.pending
       /\ q.reported = a.reported /\ q.landing = a.landing /\ q.spoken = a.spoken /\ q.word = a.word
  BY <1>2, <1>10, <1>11, <1>12 DEF Paint
<1>14. Stored(q) /\ (\A o \in Owners : Filed(q, o) = Filed(a, o)) /\ (OnTop(a) => OnTop(q))
  BY <1>8, <1>13, Remembered
<1>15. \A o \in Owners : o # "user" => Layer(q, o) = Layer(u, o)
  BY <1>8, <1>13, OtherLayers DEF Same
<1>16. q.painted = u.painted \union new
  BY <1>8, <1>13 DEF Same
<1>17. Layer(q, "user") = Layer(u, "user") \union free
  <2>1. RangesOfAll(u.painted \union new) = RangesOfAll(u.painted) \union RangesOfAll(new)
    BY DEF RangesOfAll
  <2> QED BY <1>11, <1>16, <2>1, LayerIs
<1>18. ASSUME q.clashes = {}, NEW o \in Owners
       PROVE  /\ Filed(q, o) \subseteq Layer(q, o)
              /\ Filed(u, o) = Layer(u, o) => Filed(q, o) = Layer(q, o)
  <2>1. u.clashes = {} /\ Deposits(u, free, "user", a)
    BY <1>8, <1>13, <1>18
  <2>2. Filed(u, o) \subseteq Layer(u, o)
    BY <1>4, <2>1 DEF Sound
  <2>3. CASE o = "user"
    BY <1>14, <1>17, <2>1, <2>2, <2>3 DEF Deposits
  <2>4. CASE o # "user"
    BY <1>14, <1>15, <2>1, <2>2, <2>4 DEF Deposits
  <2> QED BY <2>3, <2>4
<1>19. Sound(q)
  <2>1. ASSUME NEW h \in q.painted, NEW g \in q.painted, RangeOf[h] = RangeOf[g] PROVE h = g
    <3>1. \A k \in new : RangeOf[k] \in free
      BY <1>11 DEF RangesOfAll
    <3>2. \A k \in u.painted : RangeOf[k] \notin free
      BY <1>7 DEF RangesOfAll
    <3> QED BY <1>4, <1>11, <1>16, <2>1, <3>1, <3>2 DEF Sound
  <2> QED BY <1>14, <1>18, <2>1 DEF Sound
<1>20. ButHighlights(p, q)
  BY <1>3, <1>8, <1>13 DEF Same, ButHighlights
<1>21. Truthful(u) => Truthful(q)
  BY <1>8, <1>13 DEF Same, Truthful
<1>22. u.painted \subseteq u.last => q.painted \subseteq q.last
  BY <1>3, <1>11, <1>16, <1>20 DEF ButHighlights
<1>23. Keeps(u, q)
  BY <1>8, <1>13, <1>18, <1>19, <1>21, <1>22 DEF Keeps, Same
<1>24. Above(u, q)
  BY <1>0, <1>8, <1>13, <1>14 DEF Above, Deposits
<1>25. Keeps(p, q) /\ Above(p, q)
  BY <1>3, <1>23, <1>24, KeepsOn
<1> QED BY <1>1, <1>3, <1>11, <1>16, <1>20, <1>25

LEMMA HighlightsApplying ==
  ASSUME NEW p, Sound(p)
  PROVE  LET q == HighlightsApplied(p) IN
         Keeps(p, q) /\ Above(p, q) /\ ButHighlights(p, q) /\ q.painted \subseteq q.last
<1> DEFINE r == HighlightsRemoved(p, p.painted \ p.last)
           q == HighlightsAdded(r, p.last \ p.painted)
<1>1. HighlightsApplied(p) = q
  BY DEF HighlightsApplied
<1>2. /\ Keeps(p, r) /\ Above(p, r) /\ ButHighlights(p, r)
      /\ r.painted = p.painted \ (p.painted \ p.last)
  BY HighlightsRemoving
<1> HIDE DEF r
<1>3. Sound(r) /\ p.last \ p.painted \in SUBSET r.last
  BY <1>2 DEF Keeps, ButHighlights
<1>4. /\ Keeps(r, q) /\ Above(r, q) /\ ButHighlights(r, q)
      /\ q.painted \subseteq r.painted \union (p.last \ p.painted)
  BY <1>3, HighlightsAdding
<1> HIDE DEF q
<1>5. Keeps(p, q) /\ Above(p, q)
  BY <1>2, <1>4, KeepsOn
<1>6. ButHighlights(p, q) /\ q.painted \subseteq q.last
  BY <1>2, <1>4 DEF ButHighlights
<1> QED BY <1>1, <1>5, <1>6

(* A highlight is drawn again over what it overlaps.                          *)
LEMMA Lifting ==
  ASSUME NEW p, Sound(p), NEW r
  PROVE  LET q == LiftedOver(p, r) IN
         /\ Keeps(p, q) /\ Above(p, q) /\ Same(p, q)
         /\ q.clashes = {} => \A u \in Owners : u # "user" => Filed(q, u) = Filed(p, u)
<1> DEFINE rs == RangesOfAll(Overlapping(p, r))
           q == LiftedOver(p, r)
<1>1. CASE q = p
  BY <1>1, KeepsItself DEF Same
<1>2. CASE q = Renewed(p, rs, "user")
  <2>1. p.painted \in SUBSET Highlights /\ Overlapping(p, r) \in SUBSET p.painted
    BY DEF Sound, Stored, Paint, Overlapping
  <2>2. rs \in SUBSET Ranges /\ IsFiniteSet(rs)
    BY <2>1, RangesAreFinite
  <2>3. rs \subseteq Layer(p, "user") /\ "user" \in Owners
    <3>1. rs \subseteq RangesOfAll(p.painted)
      BY <2>1 DEF RangesOfAll
    <3> QED BY <3>1, LayerIs DEF Owners
  <2> HIDE DEF q, rs
  <2>4. /\ Keeps(p, q) /\ Same(p, q) /\ Above(p, q)
        /\ q.clashes = {} => Redeposits(p, rs, "user", q)
    BY <1>2, <2>2, <2>3, Renewing
  <2>5. q.clashes = {} => \A u \in Owners : u # "user" => Filed(q, u) = Filed(p, u)
    BY <2>4 DEF Redeposits
  <2> QED BY <2>4, <2>5 DEF q
<1>3. q = p \/ q = Renewed(p, rs, "user")
  BY DEF LiftedOver
<1> QED BY <1>1, <1>2, <1>3

(* The sentence and the word read aloud.                                      *)
LEMMA SentenceRenewing ==
  ASSUME NEW p, Sound(p)
  PROVE  LET q == SentenceRenewed(p) IN
         /\ Keeps(p, q) /\ Same(p, q)
         /\ q.clashes = {} => /\ Filed(q, "sentence") = Layer(q, "sentence")
                              /\ \A u \in Owners : u # "sentence" => Filed(q, u) = Filed(p, u)
<1> DEFINE q == SentenceRenewed(p)
<1>0. "sentence" \in Owners /\ p \in Paint
  BY DEF Owners, Sound, Stored
<1>1. CASE p.spoken = None
  <2>1. q = p
    BY <1>1 DEF SentenceRenewed
  <2>2. p.clashes = {} => Filed(p, "sentence") = Layer(p, "sentence")
    BY <1>0, <1>1, LayerIs DEF Sound
  <2> QED BY <2>1, <2>2, KeepsItself DEF Same
<1>2. CASE p.spoken # None
  <2>1. q = Renewed(p, {p.spoken}, "sentence")
    BY <1>2 DEF SentenceRenewed
  <2>2. {p.spoken} \in SUBSET Ranges /\ IsFiniteSet({p.spoken}) /\ Layer(p, "sentence") = {p.spoken}
    <3>1. p.spoken \in Ranges
      BY <1>0, <1>2, RangeParts DEF Paint
    <3>2. IsFiniteSet({p.spoken})
      BY FS_Singleton
    <3>3. Layer(p, "sentence") = {p.spoken}
      BY <1>2, LayerIs
    <3> QED BY <3>1, <3>2, <3>3
  <2>3. /\ Keeps(p, q) /\ Same(p, q)
        /\ q.clashes = {} => Redeposits(p, {p.spoken}, "sentence", q)
    BY <1>0, <2>1, <2>2, Renewing
  <2> HIDE DEF q
  <2>4. ASSUME q.clashes = {}
        PROVE  /\ Filed(q, "sentence") = Layer(q, "sentence")
               /\ \A u \in Owners : u # "sentence" => Filed(q, u) = Filed(p, u)
    <3>1. Redeposits(p, {p.spoken}, "sentence", q) /\ p.clashes = {}
      BY <2>3, <2>4 DEF Keeps
    <3>2. Filed(p, "sentence") \subseteq {p.spoken}
      BY <1>0, <2>2, <3>1 DEF Sound
    <3>3. Layer(q, "sentence") = {p.spoken}
      BY <2>2, <2>3, LayerIs DEF Same
    <3> QED BY <3>1, <3>2, <3>3 DEF Redeposits
  <2> QED BY <2>3, <2>4 DEF q
<1> QED BY <1>1, <1>2

LEMMA WordRenewing ==
  ASSUME NEW p, Sound(p)
  PROVE  LET q == WordRepainted(p, TRUE) IN
         /\ Keeps(p, q) /\ Same(p, q)
         /\ q.clashes = {} => /\ OnTop(q) /\ Filed(q, "word") = Layer(q, "word")
                              /\ \A u \in Owners : u # "word" => Filed(q, u) = Filed(p, u)
<1> DEFINE q == WordRepainted(p, TRUE)
<1>0. "word" \in Owners /\ p \in Paint /\ Stored(p)
  BY DEF Owners, Sound, Stored
<1>1. CASE p.word = None
  <2>1. q = p
    BY <1>1 DEF WordRepainted
  <2>2. p.clashes = {} => Filed(p, "word") = {} /\ Layer(p, "word") = {}
    BY <1>0, <1>1, LayerIs DEF Sound
  <2>3. p.clashes = {} => OnTop(p)
    BY <1>0, <2>2, NoWord
  <2> QED BY <2>1, <2>2, <2>3, KeepsItself DEF Same
<1>2. CASE p.word # None
  <2>1. q = Renewed(p, {p.word}, "word")
    BY <1>2 DEF WordRepainted
  <2>2. {p.word} \in SUBSET Ranges /\ IsFiniteSet({p.word}) /\ Layer(p, "word") = {p.word}
    <3>1. p.word \in Ranges
      BY <1>0, <1>2, RangeParts DEF Paint
    <3>2. IsFiniteSet({p.word})
      BY FS_Singleton
    <3>3. Layer(p, "word") = {p.word}
      BY <1>2, LayerIs
    <3> QED BY <3>1, <3>2, <3>3
  <2>3. /\ Keeps(p, q) /\ Same(p, q)
        /\ q.clashes = {} => Redeposits(p, {p.word}, "word", q)
    BY <1>0, <2>1, <2>2, Renewing
  <2> HIDE DEF q
  <2>4. ASSUME q.clashes = {}
        PROVE  /\ OnTop(q) /\ Filed(q, "word") = Layer(q, "word")
               /\ \A u \in Owners : u # "word" => Filed(q, u) = Filed(p, u)
    <3>1. Redeposits(p, {p.word}, "word", q) /\ p.clashes = {}
      BY <2>3, <2>4 DEF Keeps
    <3>2. Filed(p, "word") \subseteq {p.word}
      BY <1>0, <2>2, <3>1 DEF Sound
    <3>3. Layer(q, "word") = {p.word}
      BY <2>2, <2>3, LayerIs DEF Same
    <3> QED BY <3>1, <3>2, <3>3 DEF Redeposits
  <2> QED BY <2>3, <2>4 DEF q
<1> QED BY <1>1, <1>2

LEMMA SpokenLifting ==
  ASSUME NEW p, Sound(p)
  PROVE  LET q == SpokenLifted(p) IN
         /\ Keeps(p, q) /\ Above(p, q) /\ Same(p, q)
         /\ q.clashes = {} =>
              /\ OnTop(q) /\ Filed(q, "sentence") = Layer(q, "sentence")
              /\ Filed(q, "word") = Layer(q, "word")
              /\ Filed(q, "user") = Filed(p, "user") /\ Filed(q, "search") = Filed(p, "search")
<1> DEFINE s == SentenceRenewed(p)
           q == WordRepainted(s, TRUE)
<1>1. SpokenLifted(p) = q
  BY DEF SpokenLifted
<1>2. /\ Keeps(p, s) /\ Same(p, s)
      /\ s.clashes = {} => /\ Filed(s, "sentence") = Layer(s, "sentence")
                           /\ \A u \in Owners : u # "sentence" => Filed(s, u) = Filed(p, u)
  BY SentenceRenewing
<1> HIDE DEF s
<1>3. Sound(s)
  BY <1>2 DEF Keeps
<1>4. /\ Keeps(s, q) /\ Same(s, q)
      /\ q.clashes = {} => /\ OnTop(q) /\ Filed(q, "word") = Layer(q, "word")
                           /\ \A u \in Owners : u # "word" => Filed(q, u) = Filed(s, u)
  BY <1>3, WordRenewing
<1> HIDE DEF q
<1>5. Keeps(p, q) /\ Same(p, q) /\ Above(p, q)
  BY <1>2, <1>4, KeepsOn DEF Same, Above
<1>6. ASSUME q.clashes = {}
      PROVE  /\ OnTop(q) /\ Filed(q, "sentence") = Layer(q, "sentence")
             /\ Filed(q, "word") = Layer(q, "word")
             /\ Filed(q, "user") = Filed(p, "user") /\ Filed(q, "search") = Filed(p, "search")
  <2>1. s.clashes = {}
    BY <1>4, <1>6 DEF Keeps
  <2>2. Layer(q, "sentence") = Layer(s, "sentence")
    BY <1>4, LayerIs DEF Same
  <2> QED BY <1>2, <1>4, <1>6, <2>1, <2>2 DEF Owners
<1> QED BY <1>1, <1>5, <1>6

(* A word whose range another layer has by now was not filed as a word.       *)
LEMMA WordClearing ==
  ASSUME NEW p, Sound(p), p.clashes = {} => Complete(p) \/ Bare(p)
  PROVE  LET q == WordCleared(p) IN Keeps(p, q) /\ Above(p, q) /\ q.word = None
<1> DEFINE q == WordCleared(p)
<1>0. "word" \in Owners /\ p \in Paint /\ Stored(p)
  BY DEF Owners, Sound, Stored
<1>1. CASE p.word = None
  BY <1>1, KeepsItself DEF WordCleared
<1>2. CASE p.word # None
  <2> DEFINE m == IF WordCollides(p, p.word) THEN p ELSE Removed(p, {p.word}, "word")
  <2>1. q = [m EXCEPT !.word = None]
    BY <1>2 DEF WordCleared
  <2>2. p.word \in Ranges /\ {p.word} \in SUBSET Ranges /\ Layer(p, "word") = {p.word}
    <3>1. p.word \in Ranges
      BY <1>0, <1>2, RangeParts DEF Paint
    <3>2. Layer(p, "word") = {p.word}
      BY <1>2, LayerIs
    <3> QED BY <3>1, <3>2
  <2>3. /\ Stored(m) /\ Same(p, m) /\ p.clashes \subseteq m.clashes
        /\ m.clashes = {} =>
             /\ Filed(m, "word") = {} /\ (OnTop(p) => OnTop(m))
             /\ \A u \in Owners : u # "word" => Filed(m, u) = Filed(p, u)
    <3>1. CASE WordCollides(p, p.word)
      <4>1. m = p
        BY <3>1
      <4>2. ASSUME p.clashes = {} PROVE Filed(p, "word") = {}
        <5>1. CASE Bare(p)
          BY <1>0, <5>1 DEF Bare
        <5>2. CASE Complete(p)
          <6>1. p.word \in Layer(p, "word")
            BY <2>2
          <6>2. p.word \in Layer(p, "sentence") \/ p.word \in Layer(p, "search") \/ p.word \in Layer(p, "user")
            BY <1>2, <3>1, LayerIs DEF WordCollides
          <6>3. p.filed[p.word] = "word"
            BY <1>0, <5>2, <6>1 DEF Complete, Filed
          <6>4. p.filed[p.word] \in {"sentence", "search", "user"}
            BY <5>2, <6>2 DEF Complete, Filed, Owners
          <6> QED BY <6>3, <6>4
        <5> QED BY <4>2, <5>1, <5>2
      <4> QED BY <1>0, <4>1, <4>2 DEF Same
    <3>2. CASE ~WordCollides(p, p.word)
      <4>1. m = Removed(p, {p.word}, "word")
        BY <3>2
      <4> HIDE DEF m
      <4>2. /\ Stored(m) /\ Same(p, m) /\ p.clashes \subseteq m.clashes
            /\ m.clashes = {} => Withdraws(p, {p.word}, "word", m)
        BY <1>0, <2>2, <4>1, Removal
      <4>3. ASSUME m.clashes = {} PROVE Filed(m, "word") = {}
        <5>1. Filed(p, "word") \subseteq {p.word}
          BY <1>0, <2>2, <4>2, <4>3 DEF Sound
        <5> QED BY <4>2, <4>3, <5>1 DEF Withdraws
      <4> QED BY <4>2, <4>3 DEF Withdraws
    <3> QED BY <3>1, <3>2
  <2> HIDE DEF m, q
  <2>4. m \in Paint
    BY <2>3 DEF Stored
  <2>5. /\ q \in Paint /\ q.word = None /\ q.painted = m.painted /\ q.filed = m.filed
        /\ q.listed = m.listed /\ q.marks = m.marks /\ q.loaded = m.loaded
        /\ q.clashes = m.clashes /\ q.views = m.views /\ q.last = m.last /\ q.match = m.match
        /\ q.pending = m.pending /\ q.reported = m.reported /\ q.landing = m.landing
        /\ q.spoken = m.spoken
    BY <2>1, <2>4 DEF Paint
  <2>6. Stored(q) /\ (\A o \in Owners : Filed(q, o) = Filed(m, o)) /\ (OnTop(m) => OnTop(q))
    BY <2>3, <2>5, Remembered
  <2>7. \A o \in Owners : o # "word" => Layer(q, o) = Layer(p, o)
    BY <2>3, <2>5 DEF Same, Layer, Owners
  <2>8. Layer(q, "word") = {}
    BY <2>5, LayerIs
  <2>9. ASSUME q.clashes = {}, NEW o \in Owners
        PROVE  /\ Filed(q, o) \subseteq Layer(q, o)
               /\ Filed(p, o) = Layer(p, o) => Filed(q, o) = Layer(q, o)
    <3>1. p.clashes = {} /\ m.clashes = {}
      BY <2>3, <2>5, <2>9
    <3>2. Filed(p, o) \subseteq Layer(p, o)
      BY <3>1 DEF Sound
    <3>3. CASE o = "word"
      BY <2>3, <2>6, <2>8, <3>1, <3>3
    <3>4. CASE o # "word"
      BY <2>3, <2>6, <2>7, <3>1, <3>2, <3>4
    <3> QED BY <3>3, <3>4
  <2>10. Sound(q)
    BY <2>3, <2>5, <2>6, <2>9 DEF Sound, Same
  <2>11. Keeps(p, q)
    BY <2>3, <2>5, <2>9, <2>10 DEF Keeps, Same, Truthful
  <2>12. Above(p, q)
    BY <2>3, <2>5, <2>6 DEF Above
  <2> QED BY <2>5, <2>11, <2>12 DEF q
<1> QED BY <1>1, <1>2

LEMMA SentenceSpeaking ==
  ASSUME NEW p, Sound(p), p.word = None, NEW r \in SpokenSentences \union {None}
  PROVE  LET q == SentenceSpoken(p, r) IN Keeps(p, q) /\ Above(p, q)
<1> DEFINE m == IF p.spoken = None THEN p ELSE Removed(p, {p.spoken}, "sentence")
           n == [m EXCEPT !.spoken = r]
           a == Added(n, {r}, "sentence")
<1>0. "sentence" \in Owners /\ "word" \in Owners /\ p \in Paint /\ Stored(p)
  BY DEF Owners, Sound, Stored
<1>1. SentenceSpoken(p, r) = IF r = None THEN n ELSE LiftedOver(a, r)
  BY DEF SentenceSpoken
<1>2. /\ Stored(m) /\ Same(p, m) /\ p.clashes \subseteq m.clashes
      /\ m.clashes = {} =>
           /\ Filed(m, "sentence") = {} /\ Filed(m, "word") = {}
           /\ \A u \in Owners : u # "sentence" => Filed(m, u) = Filed(p, u)
  <2>1. p.clashes = {} => Filed(p, "word") = {} /\ Filed(p, "sentence") \subseteq {p.spoken} \ {None}
    BY <1>0, LayerIs DEF Sound
  <2>2. CASE p.spoken = None
    BY <1>0, <2>1, <2>2 DEF Same
  <2>3. CASE p.spoken # None
    <3>1. m = Removed(p, {p.spoken}, "sentence")
      BY <2>3
    <3>2. {p.spoken} \in SUBSET Ranges
      BY <1>0, <2>3, RangeParts DEF Paint
    <3> HIDE DEF m
    <3>3. /\ Stored(m) /\ Same(p, m) /\ p.clashes \subseteq m.clashes
          /\ m.clashes = {} => Withdraws(p, {p.spoken}, "sentence", m)
      BY <1>0, <3>1, <3>2, Removal
    <3>4. ASSUME m.clashes = {}
          PROVE  /\ Filed(m, "sentence") = {} /\ Filed(m, "word") = {}
                 /\ \A u \in Owners : u # "sentence" => Filed(m, u) = Filed(p, u)
      <4>1. p.clashes = {} /\ Withdraws(p, {p.spoken}, "sentence", m)
        BY <3>3, <3>4
      <4> QED BY <1>0, <2>1, <4>1 DEF Withdraws
    <3> QED BY <3>3, <3>4
  <2> QED BY <2>2, <2>3
<1> HIDE DEF m
<1>3. m \in Paint
  BY <1>2 DEF Stored
<1>4. /\ n \in Paint /\ n.spoken = r /\ n.painted = m.painted /\ n.filed = m.filed
      /\ n.listed = m.listed /\ n.marks = m.marks /\ n.loaded = m.loaded
      /\ n.clashes = m.clashes /\ n.views = m.views /\ n.last = m.last /\ n.match = m.match
      /\ n.pending = m.pending /\ n.reported = m.reported /\ n.landing = m.landing
      /\ n.word = m.word
  BY <1>3 DEF Paint
<1> HIDE DEF n
<1>5. Stored(n) /\ (\A o \in Owners : Filed(n, o) = Filed(m, o))
  BY <1>2, <1>4, Remembered
<1>6. \A o \in Owners : o # "sentence" => Layer(n, o) = Layer(p, o)
  BY <1>2, <1>4 DEF Same, Layer, Owners
<1>7. ASSUME n.clashes = {}
      PROVE  /\ p.clashes = {} /\ Filed(n, "sentence") = {} /\ Filed(n, "word") = {}
             /\ \A o \in Owners : o # "sentence" => Filed(n, o) = Filed(p, o)
  BY <1>0, <1>2, <1>4, <1>5, <1>7
<1>8. ASSUME n.clashes = {}, NEW o \in Owners, o # "sentence"
      PROVE  Filed(n, o) \subseteq Layer(n, o) /\ (Filed(p, o) = Layer(p, o) => Filed(n, o) = Layer(n, o))
  <2>1. Filed(p, o) \subseteq Layer(p, o)
    BY <1>7, <1>8 DEF Sound
  <2> QED BY <1>6, <1>7, <1>8, <2>1
<1>9. /\ Sound(n) /\ p.clashes \subseteq n.clashes /\ n.views = p.views /\ n.loaded = p.loaded
      /\ n.painted = p.painted /\ n.last = p.last /\ (Truthful(p) => Truthful(n))
  <2>1. /\ p.clashes \subseteq n.clashes /\ n.views = p.views /\ n.loaded = p.loaded
        /\ n.painted = p.painted /\ n.last = p.last /\ (Truthful(p) => Truthful(n))
    BY <1>2, <1>4 DEF Same, Truthful
  <2>2. \A h, g \in n.painted : RangeOf[h] = RangeOf[g] => h = g
    BY <2>1 DEF Sound
  <2>3. n.clashes = {} => \A o \in Owners : Filed(n, o) \subseteq Layer(n, o)
    BY <1>7, <1>8
  <2> QED BY <1>5, <2>1, <2>2, <2>3 DEF Sound
<1>10. CASE r = None
  <2>1. Layer(n, "sentence") = {}
    BY <1>4, <1>10, LayerIs
  <2>2. n.clashes = {} => \A o \in Owners : Filed(p, o) = Layer(p, o) => Filed(n, o) = Layer(n, o)
    BY <1>7, <1>8, <2>1
  <2>3. Keeps(p, n)
    BY <1>9, <2>2 DEF Keeps
  <2>4. Above(p, n)
    BY <1>5, <1>7, NoWord DEF Above
  <2> QED BY <1>1, <1>10, <2>3, <2>4
<1>11. CASE r # None
  <2>1. {r} \in SUBSET Ranges
    BY <1>11, RangeParts
  <2>2. IsFiniteSet({r})
    BY FS_Singleton
  <2>3. n.clashes = {} => {r} \intersect Filed(n, "sentence") = {}
    BY <1>7
  <2>4. /\ Stored(a) /\ Same(n, a) /\ n.clashes \subseteq a.clashes
        /\ a.clashes = {} => Deposits(n, {r}, "sentence", a)
    BY <1>0, <1>5, <2>1, <2>2, <2>3, Addition
  <2> HIDE DEF a
  <2>5. \A o \in Owners : Layer(a, o) = Layer(n, o)
    BY <2>4 DEF Same, Layer
  <2>6. Layer(a, "sentence") = {r}
    BY <1>4, <1>11, <2>4, LayerIs DEF Same
  <2>7. ASSUME a.clashes = {}
        PROVE  /\ Filed(a, "sentence") = Layer(a, "sentence") /\ OnTop(a)
               /\ \A o \in Owners : o # "sentence" => Filed(a, o) = Filed(n, o)
    BY <1>7, <2>4, <2>6, <2>7 DEF Deposits
  <2>8. ASSUME a.clashes = {}, NEW o \in Owners
        PROVE  Filed(a, o) \subseteq Layer(a, o) /\ (Filed(p, o) = Layer(p, o) => Filed(a, o) = Layer(a, o))
    <3>1. n.clashes = {}
      BY <2>4, <2>8
    <3>2. CASE o = "sentence"
      BY <2>7, <2>8, <3>2
    <3>3. CASE o # "sentence"
      BY <1>8, <2>5, <2>7, <2>8, <3>1, <3>3
    <3> QED BY <3>2, <3>3
  <2>9. Sound(a)
    BY <1>9, <2>4, <2>8 DEF Sound, Same
  <2>10. Keeps(p, a)
    BY <1>9, <2>4, <2>8, <2>9 DEF Keeps, Same, Truthful
  <2>11. Above(p, a)
    BY <2>7 DEF Above
  <2>12. Keeps(a, LiftedOver(a, r)) /\ Above(a, LiftedOver(a, r))
    BY <2>9, Lifting
  <2>13. Keeps(p, LiftedOver(a, r)) /\ Above(p, LiftedOver(a, r))
    BY <2>10, <2>11, <2>12, KeepsOn
  <2> QED BY <1>1, <1>11, <2>13 DEF a
<1> QED BY <1>10, <1>11

LEMMA WordSpeaking ==
  ASSUME NEW p, Sound(p), p.word = None, NEW r \in SpokenWords
  PROVE  LET q == WordSpoken(p, r) IN Keeps(p, q) /\ Above(p, q)
<1> DEFINE n == [p EXCEPT !.word = r]
           a == Added(n, {r}, "word")
<1>0. "word" \in Owners /\ p \in Paint /\ Stored(p) /\ r \in Ranges /\ r # None
  BY RangeParts DEF Owners, Sound, Stored
<1>1. /\ n \in Paint /\ n.word = r /\ n.painted = p.painted /\ n.filed = p.filed
      /\ n.listed = p.listed /\ n.marks = p.marks /\ n.loaded = p.loaded
      /\ n.clashes = p.clashes /\ n.views = p.views /\ n.last = p.last /\ n.match = p.match
      /\ n.pending = p.pending /\ n.reported = p.reported /\ n.landing = p.landing
      /\ n.spoken = p.spoken
  BY <1>0 DEF Paint
<1>2. WordSpoken(p, r) = IF WordCollides(p, r) THEN LiftedOver(p, r) ELSE LiftedOver(a, r)
  <2>1. WordRepainted(n, FALSE) = a
    BY <1>0, <1>1 DEF WordRepainted
  <2> QED BY <2>1 DEF WordSpoken
<1>3. CASE WordCollides(p, r)
  BY <1>2, <1>3, Lifting
<1>4. CASE ~WordCollides(p, r)
  <2> HIDE DEF n
  <2>1. Stored(n) /\ (\A o \in Owners : Filed(n, o) = Filed(p, o)) /\ (OnTop(p) => OnTop(n))
    BY <1>0, <1>1, Remembered
  <2>2. p.clashes = {} => Filed(n, "word") = {}
    BY <1>0, <2>1, LayerIs DEF Sound
  <2>3. {r} \in SUBSET Ranges /\ (n.clashes = {} => {r} \intersect Filed(n, "word") = {})
    BY <1>0, <1>1, <2>2
  <2>4. IsFiniteSet({r})
    BY FS_Singleton
  <2>5. /\ Stored(a) /\ Same(n, a) /\ n.clashes \subseteq a.clashes
        /\ a.clashes = {} => Deposits(n, {r}, "word", a)
    BY <1>0, <2>1, <2>3, <2>4, Addition
  <2> HIDE DEF a
  <2>6. \A o \in Owners : o # "word" => Layer(a, o) = Layer(p, o)
    BY <1>1, <2>5 DEF Same, Layer, Owners
  <2>7. Layer(a, "word") = {r}
    BY <1>0, <1>1, <2>5, LayerIs DEF Same
  <2>8. ASSUME a.clashes = {}
        PROVE  /\ p.clashes = {} /\ Filed(a, "word") = Layer(a, "word") /\ (OnTop(p) => OnTop(a))
               /\ \A o \in Owners : o # "word" => Filed(a, o) = Filed(p, o)
    <3>1. p.clashes = {} /\ Deposits(n, {r}, "word", a)
      BY <1>1, <2>5, <2>8
    <3> QED BY <2>1, <2>2, <2>7, <3>1 DEF Deposits
  <2>9. ASSUME a.clashes = {}, NEW o \in Owners
        PROVE  Filed(a, o) \subseteq Layer(a, o) /\ (Filed(p, o) = Layer(p, o) => Filed(a, o) = Layer(a, o))
    <3>1. Filed(p, o) \subseteq Layer(p, o)
      BY <2>8, <2>9 DEF Sound
    <3>2. CASE o = "word"
      BY <2>8, <2>9, <3>2
    <3>3. CASE o # "word"
      BY <2>6, <2>8, <2>9, <3>1, <3>3
    <3> QED BY <3>2, <3>3
  <2>10. Sound(a)
    BY <1>1, <2>5, <2>9 DEF Sound, Same
  <2>11. Keeps(p, a)
    BY <1>1, <2>5, <2>9, <2>10 DEF Keeps, Same, Truthful
  <2>12. Above(p, a)
    BY <2>8 DEF Above
  <2>13. Keeps(a, LiftedOver(a, r)) /\ Above(a, LiftedOver(a, r))
    BY <2>10, Lifting
  <2>14. Keeps(p, LiftedOver(a, r)) /\ Above(p, LiftedOver(a, r))
    BY <2>11, <2>12, <2>13, KeepsOn
  <2> QED BY <1>2, <1>4, <2>14 DEF a, n
<1> QED BY <1>3, <1>4

(* All layers.                                                                *)
LEMMA Repainting ==
  ASSUME NEW p, Sound(p)
  PROVE  Keeps(p, Repainted(p)) /\ Above(p, Repainted(p))
<1> DEFINE a == HighlightsRemoved(p, p.painted)
           b == HighlightsApplied(a)
           c == MatchLifted(b)
           d == SpokenLifted(c)
           q == LiftedOver(d, p.spoken)
<1>1. Repainted(p) = q
  BY DEF Repainted
<1>2. Keeps(p, a) /\ Above(p, a)
  BY HighlightsRemoving
<1> HIDE DEF a
<1>3. Keeps(a, b) /\ Above(a, b)
  BY <1>2, HighlightsApplying DEF Keeps
<1> HIDE DEF b
<1>4. Keeps(b, c) /\ Above(b, c)
  BY <1>3, MatchLifting DEF Keeps
<1> HIDE DEF c
<1>5. Keeps(c, d) /\ Above(c, d)
  BY <1>4, SpokenLifting DEF Keeps
<1> HIDE DEF d
<1>6. Keeps(d, q) /\ Above(d, q)
  BY <1>5, Lifting DEF Keeps
<1> HIDE DEF q
<1>7. Keeps(p, b) /\ Above(p, b)
  BY <1>2, <1>3, KeepsOn
<1>8. Keeps(p, c) /\ Above(p, c)
  BY <1>4, <1>7, KeepsOn
<1>9. Keeps(p, d) /\ Above(p, d)
  BY <1>5, <1>8, KeepsOn
<1>10. Keeps(p, q) /\ Above(p, q)
  BY <1>6, <1>9, KeepsOn
<1> QED BY <1>1, <1>10

(* A layer that has nothing filed is complete once all of it is added.        *)
LEMMA Filling ==
  ASSUME NEW p, Sound(p), NEW o \in Owners, NEW r \in Ranges, Layer(p, o) = {r},
         p.clashes = {} => Filed(p, o) = {}
  PROVE  LET q == Added(p, {r}, o) IN
         /\ Sound(q) /\ Same(p, q) /\ p.clashes \subseteq q.clashes
         /\ q.clashes = {} => /\ Filed(q, o) = Layer(q, o)
                              /\ \A u \in Owners : u # o => Filed(q, u) = Filed(p, u)
<1> DEFINE q == Added(p, {r}, o)
<1>1. IsFiniteSet({r}) /\ {r} \in SUBSET Ranges /\ Stored(p)
  BY FS_Singleton DEF Sound
<1>2. /\ Stored(q) /\ Same(p, q) /\ p.clashes \subseteq q.clashes
      /\ q.clashes = {} => Deposits(p, {r}, o, q)
  BY <1>1, Addition
<1> HIDE DEF q
<1>3. \A u \in Owners : Layer(q, u) = Layer(p, u)
  BY <1>2 DEF Same, Layer
<1>4. ASSUME q.clashes = {}
      PROVE  /\ Filed(q, o) = Layer(q, o) /\ p.clashes = {}
             /\ \A u \in Owners : u # o => Filed(q, u) = Filed(p, u)
  BY <1>2, <1>3, <1>4 DEF Deposits
<1>5. ASSUME q.clashes = {}, NEW u \in Owners PROVE Filed(q, u) \subseteq Layer(q, u)
  <2>1. Filed(p, u) \subseteq Layer(p, u)
    BY <1>4, <1>5 DEF Sound
  <2> QED BY <1>3, <1>4, <1>5, <2>1
<1>6. Sound(q)
  BY <1>2, <1>5 DEF Sound, Same
<1> QED BY <1>2, <1>4, <1>6 DEF q

LEMMA RebuiltIs ==
  ASSUME NEW p, Sound(p), p.clashes = {} => Bare(p)
  PROVE  LET q == Rebuilt(p) IN
         /\ Sound(q) /\ p.clashes \subseteq q.clashes /\ q.views = p.views /\ q.loaded = p.loaded
         /\ q.painted \subseteq q.last /\ (Truthful(p) => Truthful(q))
         /\ q.clashes = {} => Complete(q) /\ OnTop(q)
<1> DEFINE s == IF p.spoken = None THEN p ELSE Added(p, {p.spoken}, "sentence")
           w == WordRepainted(s, FALSE)
           x == [w EXCEPT !.painted = {}]
           u == HighlightsApplied(x)
           m == MatchLifted(u)
           l == SpokenLifted(m)
           q == LiftedOver(l, p.spoken)
<1>0. /\ "sentence" \in Owners /\ "word" \in Owners /\ "user" \in Owners /\ "search" \in Owners
      /\ p \in Paint /\ Stored(p)
      /\ \A o \in Owners : o \in {"sentence", "word", "user", "search"}
  BY DEF Owners, Sound, Stored
<1>1. Rebuilt(p) = q
  BY DEF Rebuilt
<1>2. /\ Sound(s) /\ Same(p, s) /\ p.clashes \subseteq s.clashes
      /\ s.clashes = {} => /\ Filed(s, "sentence") = Layer(s, "sentence")
                           /\ Filed(s, "word") = {} /\ Filed(s, "user") = {}
  <2>1. p.clashes = {} => Filed(p, "sentence") = {} /\ Filed(p, "word") = {} /\ Filed(p, "user") = {}
    BY <1>0 DEF Bare
  <2>2. CASE p.spoken = None
    <3>1. Layer(p, "sentence") = {}
      BY <2>2, LayerIs
    <3> QED BY <2>1, <2>2, <3>1 DEF Same
  <2>3. CASE p.spoken # None
    <3>1. p.spoken \in Ranges
      BY <1>0, <2>3, RangeParts DEF Paint
    <3>2. Layer(p, "sentence") = {p.spoken}
      BY <2>3, LayerIs
    <3>3. s = Added(p, {p.spoken}, "sentence")
      BY <2>3
    <3> HIDE DEF s
    <3>4. /\ Sound(s) /\ Same(p, s) /\ p.clashes \subseteq s.clashes
          /\ s.clashes = {} => /\ Filed(s, "sentence") = Layer(s, "sentence")
                               /\ \A o \in Owners : o # "sentence" => Filed(s, o) = Filed(p, o)
      BY <1>0, <2>1, <3>1, <3>2, <3>3, Filling
    <3> QED BY <1>0, <2>1, <3>4
  <2> QED BY <2>2, <2>3
<1> HIDE DEF s
<1>3. /\ Sound(w) /\ Same(s, w) /\ s.clashes \subseteq w.clashes
      /\ w.clashes = {} => /\ Filed(w, "sentence") = Layer(w, "sentence")
                           /\ Filed(w, "word") = Layer(w, "word") /\ Filed(w, "user") = {}
  <2>1. s \in Paint
    BY <1>2 DEF Sound, Stored
  <2>2. CASE s.word = None
    <3>1. Layer(s, "word") = {} /\ w = s
      BY <2>2, LayerIs DEF WordRepainted
    <3> QED BY <1>2, <3>1 DEF Same
  <2>3. CASE s.word # None
    <3>1. s.word \in Ranges
      BY <2>1, <2>3, RangeParts DEF Paint
    <3>2. Layer(s, "word") = {s.word}
      BY <2>3, LayerIs
    <3>3. w = Added(s, {s.word}, "word")
      BY <2>3 DEF WordRepainted
    <3> HIDE DEF w
    <3>4. /\ Sound(w) /\ Same(s, w) /\ s.clashes \subseteq w.clashes
          /\ w.clashes = {} => /\ Filed(w, "word") = Layer(w, "word")
                               /\ \A o \in Owners : o # "word" => Filed(w, o) = Filed(s, o)
      BY <1>0, <1>2, <3>1, <3>2, <3>3, Filling
    <3>5. Layer(w, "sentence") = Layer(s, "sentence")
      BY <3>4, LayerIs DEF Same
    <3>6. w.clashes = {} => s.clashes = {}
      BY <3>4
    <3> QED BY <1>0, <1>2, <3>4, <3>5, <3>6
  <2> QED BY <2>2, <2>3
<1> HIDE DEF w
<1>4. Same(p, w) /\ p.clashes \subseteq w.clashes
  BY <1>2, <1>3 DEF Same
<1>5. w \in Paint /\ Stored(w)
  BY <1>3 DEF Sound, Stored
<1>6. /\ x \in Paint /\ x.painted = {} /\ x.word = w.word /\ x.filed = w.filed
      /\ x.listed = w.listed /\ x.marks = w.marks /\ x.loaded = w.loaded
      /\ x.clashes = w.clashes /\ x.views = w.views /\ x.last = w.last /\ x.match = w.match
      /\ x.pending = w.pending /\ x.reported = w.reported /\ x.landing = w.landing
      /\ x.spoken = w.spoken
  BY <1>5 DEF Paint
<1> HIDE DEF x
<1>7. Stored(x) /\ (\A o \in Owners : Filed(x, o) = Filed(w, o))
  BY <1>5, <1>6, Remembered
<1>8. /\ Layer(x, "user") = {} /\ \A o \in Owners : o # "user" => Layer(x, o) = Layer(w, o)
  <2>1. RangesOfAll({}) = {}
    BY DEF RangesOfAll
  <2>2. Layer(x, "user") = {}
    BY <1>6, <2>1, LayerIs
  <2> QED BY <1>6, <2>2, OtherLayers
<1>9. Sound(x)
  <2>1. ASSUME x.clashes = {}, NEW o \in Owners PROVE Filed(x, o) \subseteq Layer(x, o)
    <3>1. w.clashes = {} /\ Filed(w, o) \subseteq Layer(w, o)
      BY <1>3, <1>6, <2>1 DEF Sound
    <3> QED BY <1>3, <1>7, <1>8, <3>1
  <2> QED BY <1>6, <1>7, <2>1 DEF Sound
<1>10. x.clashes = {} => \A o \in {"sentence", "word", "user"} : Filed(x, o) = Layer(x, o)
  BY <1>0, <1>3, <1>6, <1>7, <1>8
<1>11. Keeps(x, u) /\ u.painted \subseteq u.last
  BY <1>9, HighlightsApplying
<1> HIDE DEF u
<1>12. /\ Keeps(u, m)
       /\ m.clashes = {} => Filed(m, "search") = Layer(m, "search")
  BY <1>11, MatchLifting DEF Keeps
<1> HIDE DEF m
<1>13. Keeps(m, l) /\ (l.clashes = {} => OnTop(l))
  BY <1>12, SpokenLifting DEF Keeps
<1> HIDE DEF l
<1>14. Keeps(l, q) /\ Above(l, q)
  BY <1>13, Lifting DEF Keeps
<1> HIDE DEF q
<1>15. Keeps(x, m)
  BY <1>11, <1>12, KeepsOn
<1>16. Keeps(m, q)
  BY <1>13, <1>14, KeepsOn
<1>17. ASSUME q.clashes = {} PROVE Complete(q) /\ OnTop(q)
  <2>1. l.clashes = {} /\ m.clashes = {} /\ x.clashes = {}
    BY <1>14, <1>15, <1>16, <1>17 DEF Keeps
  <2>2. \A o \in {"sentence", "word", "user"} : Filed(m, o) = Layer(m, o)
    BY <1>0, <1>10, <1>15, <2>1 DEF Keeps
  <2>3. \A o \in Owners : Filed(m, o) = Layer(m, o)
    BY <1>0, <1>12, <2>1, <2>2
  <2>4. Complete(q)
    BY <1>16, <1>17, <2>3 DEF Keeps, Complete
  <2> QED BY <1>13, <1>14, <1>17, <2>1, <2>4 DEF Above
<1>18. Keeps(x, q) /\ u.painted \subseteq u.last
  BY <1>11, <1>15, <1>16, KeepsOn
<1>19. x.painted \subseteq x.last
  BY <1>6
<1>20. Truthful(p) => Truthful(x)
  BY <1>4, <1>6 DEF Same, Truthful
<1>21. /\ Sound(q) /\ p.clashes \subseteq q.clashes /\ q.views = p.views /\ q.loaded = p.loaded
       /\ q.painted \subseteq q.last /\ (Truthful(p) => Truthful(q))
  BY <1>4, <1>6, <1>18, <1>19, <1>20 DEF Keeps, Same
<1> QED BY <1>1, <1>17, <1>21

(* A view that renders: every range that is listed for it is filed, so that   *)
(* every one is attached.                                                     *)
SoundPlaces(p, c) == {i \in DOMAIN p.listed[c] : \A j \in 1..i : p.filed[p.listed[c][j]] # None}
Loading(p, c) == [p EXCEPT !.loaded = @ \union {c}]

LEMMA Prefix ==
  ASSUME NEW n \in Nat, NEW S \in SUBSET (1..n), \A i \in S : \A j \in 1..i : j \in S
  PROVE  Cardinality(S) \in 0..n /\ \A i \in 1..Cardinality(S) : i \in S
<1>1. IsFiniteSet(1..n) /\ Cardinality(1..n) = n
  BY FS_Interval
<1>2. Cardinality(S) \in Nat /\ Cardinality(S) <= n
  BY <1>1, FS_Subset, FS_CardinalityType
<1>3. ASSUME NEW i \in 1..Cardinality(S), i \notin S PROVE FALSE
  <2>1. S \in SUBSET (1..(i - 1))
    <3>1. ASSUME NEW k \in S PROVE k \in 1..(i - 1)
      <4>1. ~(i \in 1..k)
        BY <1>3
      <4> QED BY <1>2, <4>1
    <3> QED BY <3>1
  <2>2. IsFiniteSet(1..(i - 1)) /\ Cardinality(1..(i - 1)) = i - 1
    <3>1. i - 1 \in Int /\ 1 \in Int /\ i - 1 >= 0
      BY <1>2
    <3>2. /\ IsFiniteSet(1..(i - 1))
          /\ Cardinality(1..(i - 1)) = IF 1 > i - 1 THEN 0 ELSE (i - 1) - 1 + 1
      BY <3>1, FS_Interval
    <3>3. (IF 1 > i - 1 THEN 0 ELSE (i - 1) - 1 + 1) = i - 1
      BY <3>1
    <3> QED BY <3>2, <3>3
  <2>3. Cardinality(S) <= i - 1
    BY <2>1, <2>2, FS_Subset
  <2> QED BY <1>2, <2>3
<1> QED BY <1>2, <1>3

LEMMA SoundPrefix ==
  ASSUME NEW p \in Paint, NEW c \in Chapters
  PROVE  LET t == SubSeq(p.listed[c], 1, Cardinality(SoundPlaces(p, c))) IN
         /\ t \in Seq(Ranges) /\ \A i \in DOMAIN t : p.filed[t[i]] \in Owners
         /\ (\A r \in Range(p.listed[c]) : p.filed[r] # None) => t = p.listed[c]
<1> DEFINE s == p.listed[c]
           S == SoundPlaces(p, c)
           k == Cardinality(S)
           t == SubSeq(s, 1, k)
<1>1. s \in Seq(Ranges) /\ Len(s) \in Nat /\ DOMAIN s = 1..Len(s)
  <2>1. s \in Seq(Ranges)
    BY DEF Paint
  <2> QED BY <2>1, LenProperties
<1>2. \A i \in 1..Len(s) : s[i] \in Ranges
  BY <1>1, ElementOfSeq
<1>3. S \in SUBSET (1..Len(s)) /\ \A i \in S : \A j \in 1..i : p.filed[s[j]] # None
  BY <1>1 DEF SoundPlaces
<1>4. \A i \in S : \A j \in 1..i : j \in S
  <2>1. ASSUME NEW i \in S, NEW j \in 1..i PROVE j \in S
    <3>1. i \in 1..Len(s) /\ j \in 1..Len(s) /\ \A l \in 1..j : l \in 1..i
      BY <1>1, <1>3
    <3> QED BY <1>1, <1>3, <3>1 DEF SoundPlaces
  <2> QED BY <2>1
<1> HIDE DEF S
<1>5. k \in 0..Len(s) /\ \A i \in 1..k : i \in S
  BY <1>1, <1>3, <1>4, Prefix
<1>6. \A i \in 1..k : i \in 1..Len(s) /\ s[i] \in Ranges
  BY <1>1, <1>2, <1>5
<1>7. /\ t \in Seq(Ranges) /\ Len(t) = k
      /\ \A i \in 1..k : t[i] = s[i]
  <2>1. k \in Int /\ 1 \in Int /\ k \in Nat
    BY <1>1, <1>5
  <2> HIDE DEF s, k
  <2>2. /\ t \in Seq(Ranges) /\ Len(t) = IF 1 <= k THEN k - 1 + 1 ELSE 0
        /\ \A i \in 1..(k - 1 + 1) : t[i] = s[1 + i - 1]
    BY <1>6, <2>1, SubSeqProperties
  <2>3. k - 1 + 1 = k /\ \A i \in 1..k : 1 + i - 1 = i
    BY <2>1
  <2> HIDE DEF t
  <2>4. Len(t) = k
    BY <2>1, <2>2, <2>3
  <2> QED BY <2>2, <2>3, <2>4
<1>8. t \in Seq(Ranges) /\ DOMAIN t = 1..k
  <2> HIDE DEF t, k
  <2> QED BY <1>7, LenProperties
<1>9. \A i \in DOMAIN t : p.filed[t[i]] \in Owners
  <2>1. ASSUME NEW i \in 1..k PROVE p.filed[t[i]] \in Owners
    <3>1. i \in S /\ i \in 1..i /\ t[i] = s[i] /\ s[i] \in Ranges
      BY <1>1, <1>2, <1>3, <1>5, <1>7
    <3>2. p.filed[s[i]] # None
      BY <1>3, <3>1
    <3>3. p.filed \in [Ranges -> Owners \union {None}]
      BY DEF Paint
    <3> QED BY <3>1, <3>2, <3>3
  <2> QED BY <1>7, <2>1
<1>10. ASSUME \A r \in Range(s) : p.filed[r] # None PROVE t = s
  <2>1. \A i \in 1..Len(s) : p.filed[s[i]] # None
    BY <1>1, <1>10 DEF Range
  <2>2. S = 1..Len(s)
    <3>1. ASSUME NEW i \in 1..Len(s) PROVE i \in S
      <4>1. \A j \in 1..i : j \in 1..Len(s)
        BY <1>1
      <4> QED BY <1>1, <2>1, <4>1 DEF S, SoundPlaces
    <3> QED BY <1>3, <3>1
  <2>3. k = Len(s)
    BY <1>1, <2>2, FS_Interval
  <2> HIDE DEF k, s
  <2> QED BY <1>1, <2>3, SubSeqFull
<1> HIDE DEF t
<1>11. /\ t \in Seq(Ranges) /\ \A i \in DOMAIN t : p.filed[t[i]] \in Owners
       /\ (\A r \in Range(s) : p.filed[r] # None) => t = s
  BY <1>8, <1>9, <1>10
<1> QED BY <1>11 DEF t, S

LEMMA Injecting ==
  ASSUME NEW p, Sound(p), NEW c \in Chapters, c \notin p.loaded
  PROVE  LET q == Injected(Loading(p, c), c) IN
         /\ Sound(q) /\ q.clashes = p.clashes /\ q.views = p.views /\ q.loaded = p.loaded \union {c}
         /\ q.painted = p.painted /\ q.last = p.last /\ (Truthful(p) => Truthful(q))
         /\ \A o \in Owners : Filed(q, o) = Filed(p, o) /\ Layer(q, o) = Layer(p, o)
         /\ q.clashes = {} /\ OnTop(p) => OnTop(q)
<1> DEFINE n == Loading(p, c)
           t == SubSeq(n.listed[c], 1, Cardinality(SoundPlaces(n, c)))
           q == Injected(n, c)
           l == Len(p.marks)
<1>1. p \in Paint /\ Stored(p)
  BY DEF Sound, Stored
<1>2. /\ n \in Paint /\ n.loaded = p.loaded \union {c} /\ n.filed = p.filed /\ n.listed = p.listed
      /\ n.marks = p.marks /\ n.clashes = p.clashes /\ n.views = p.views /\ n.last = p.last
      /\ n.match = p.match /\ n.pending = p.pending /\ n.reported = p.reported
      /\ n.landing = p.landing /\ n.spoken = p.spoken /\ n.word = p.word /\ n.painted = p.painted
  BY <1>1 DEF Loading, Paint
<1>3. q = [n EXCEPT !.marks = Attached(n.marks, t, n.filed)]
  BY <1>2 DEF Injected, SoundPlaces, Paint
<1>4. /\ t \in Seq(Ranges) /\ \A i \in DOMAIN t : n.filed[t[i]] \in Owners
      /\ (\A r \in Range(n.listed[c]) : n.filed[r] # None) => t = n.listed[c]
  BY <1>2, SoundPrefix
<1> HIDE DEF n, t, q
<1>5. Attached(n.marks, t, n.filed) \in Seq(Mark)
  <2>1. n.marks \in Seq(Mark)
    BY <1>2 DEF Paint
  <2> QED BY <1>4, <2>1, AttachedIs
<1>6. /\ q \in Paint /\ q.marks = Attached(p.marks, t, q.filed)
      /\ q.loaded = p.loaded \union {c} /\ q.filed = p.filed /\ q.listed = p.listed
      /\ q.clashes = p.clashes /\ q.views = p.views /\ q.last = p.last
      /\ q.match = p.match /\ q.pending = p.pending /\ q.reported = p.reported
      /\ q.landing = p.landing /\ q.spoken = p.spoken /\ q.word = p.word /\ q.painted = p.painted
  BY <1>2, <1>3, <1>5 DEF Paint
<1>7. \A o \in Owners : Filed(q, o) = Filed(p, o) /\ Layer(q, o) = Layer(p, o)
  BY <1>6 DEF Filed, Layer
<1>8. ASSUME q.clashes = {} PROVE Listing(q) /\ Marking(q) /\ (OnTop(p) => OnTop(q))
  <2>1. Listing(p) /\ Marking(p)
    BY <1>1, <1>6, <1>8 DEF Stored
  <2>2. Listing(q)
    BY <1>6, <2>1 DEF Listing
  <2>3. /\ Once(p.listed[c]) /\ p.listed[c] \in Seq(Ranges)
        /\ Range(p.listed[c]) = {r \in Ranges : r.chapter = c /\ p.filed[r] # None}
    BY <1>1, <2>1 DEF Listing, Paint
  <2>4. t = p.listed[c]
    BY <1>2, <1>4, <2>3
  <2>5. /\ Once(t) /\ t \in Seq(Ranges) /\ \A j \in DOMAIN t : t[j] \in Range(t)
        /\ Range(t) = {r \in Ranges : r.chapter = c /\ q.filed[r] # None}
    BY <1>6, <2>3, <2>4 DEF Range
  <2>6. \A j \in DOMAIN t : q.filed[t[j]] \in Owners
    BY <1>2, <1>4, <1>6
  <2>7. p.marks \in Seq(Mark)
    BY <1>1 DEF Paint
  <2>8. Trails(p, t, q)
    BY <1>6, <2>5, <2>6, <2>7, Trailing
  <2>9. /\ l \in Nat /\ Len(t) \in Nat /\ DOMAIN p.marks = 1..l /\ DOMAIN t = 1..Len(t)
        /\ DOMAIN q.marks = 1..(l + Len(t))
        /\ \A i \in 1..l : p.marks[i].range \notin Range(t) => q.marks[i] = p.marks[i]
        /\ \A j \in 1..Len(t) :
             /\ q.marks[l + j].range = t[j] /\ q.marks[l + j].owner = q.filed[t[j]]
             /\ q.marks[l + j].held
        /\ \A k \in 1..(l + Len(t)) : k \in 1..l \/ (k > l /\ k - l \in 1..Len(t))
    BY <2>8 DEF Trails
  <2>10. ASSUME NEW i \in 1..l
         PROVE  /\ q.marks[i] = p.marks[i] /\ i \in DOMAIN q.marks /\ i \in DOMAIN p.marks
                /\ p.marks[i].range \in Ranges /\ p.marks[i].range.chapter # c
    <3>1. i \in DOMAIN p.marks /\ p.marks[i] \in Mark
      BY <2>7, <2>9, ElementOfSeq
    <3>2. p.marks[i].range \in Ranges /\ p.marks[i].range.chapter \in p.loaded
      BY <2>1, <3>1 DEF Mark, Marking
    <3>3. p.marks[i].range \notin Range(t)
      BY <2>5, <3>2
    <3>4. i \in 1..(l + Len(t))
      BY <2>9
    <3> QED BY <2>9, <3>1, <3>2, <3>3, <3>4
  <2>11. ASSUME NEW k \in DOMAIN q.marks, k \notin 1..l
         PROVE  \E j \in DOMAIN t : /\ k = l + j /\ q.marks[k].range = t[j] /\ q.marks[k].held
                                    /\ q.marks[k].owner = q.filed[t[j]] /\ t[j].chapter = c
    <3>1. k - l \in 1..Len(t) /\ k = l + (k - l)
      BY <2>9, <2>11
    <3>2. t[k - l].chapter = c
      BY <2>5, <2>9, <3>1
    <3> QED BY <2>9, <3>1, <3>2
  <2>12. Marking(q)
    <3>1. ASSUME NEW i \in DOMAIN q.marks, NEW k \in DOMAIN q.marks, q.marks[i].range = q.marks[k].range
          PROVE  i = k
      <4>1. CASE i \in 1..l /\ k \in 1..l
        <5>1. p.marks[i].range = p.marks[k].range
          BY <2>10, <3>1, <4>1
        <5> QED BY <2>1, <2>9, <4>1, <5>1 DEF Marking
      <4>2. CASE i \notin 1..l /\ k \notin 1..l
        BY <2>5, <2>11, <3>1, <4>2 DEF Once
      <4>3. CASE i \in 1..l /\ k \notin 1..l
        BY <2>10, <2>11, <3>1, <4>3
      <4>4. CASE i \notin 1..l /\ k \in 1..l
        BY <2>10, <2>11, <3>1, <4>4
      <4> QED BY <4>1, <4>2, <4>3, <4>4
    <3>2. ASSUME NEW i \in DOMAIN q.marks
          PROVE  /\ q.marks[i].held /\ q.marks[i].owner = q.filed[q.marks[i].range]
                 /\ q.marks[i].range.chapter \in q.loaded
      <4>1. CASE i \in 1..l
        BY <1>6, <2>1, <2>10, <4>1 DEF Marking
      <4>2. CASE i \notin 1..l
        BY <1>6, <2>11, <4>2
      <4> QED BY <4>1, <4>2
    <3>3. ASSUME NEW r \in Ranges, r.chapter \in q.loaded, q.filed[r] # None
          PROVE  \E i \in DOMAIN q.marks : q.marks[i].range = r
      <4>1. CASE r.chapter = c
        <5>1. r \in Range(t)
          BY <2>5, <3>3, <4>1
        <5>2. PICK j \in DOMAIN t : t[j] = r
          BY <5>1 DEF Range
        <5>3. l + j \in DOMAIN q.marks /\ q.marks[l + j].range = r
          BY <2>9, <5>2
        <5> QED BY <5>3
      <4>2. CASE r.chapter # c
        <5>1. PICK i \in DOMAIN p.marks : p.marks[i].range = r
          BY <1>6, <2>1, <3>3, <4>2 DEF Marking
        <5> QED BY <2>9, <2>10, <5>1
      <4> QED BY <4>1, <4>2
    <3> QED BY <3>1, <3>2, <3>3 DEF Marking
  <2>13. ASSUME OnTop(p) PROVE OnTop(q)
    <3>1. ASSUME NEW i \in DOMAIN q.marks, NEW k \in DOMAIN q.marks,
                 q.marks[i].owner = "word", q.marks[k].owner = "sentence",
                 q.marks[i].range.chapter = q.marks[k].range.chapter
          PROVE  k < i
      <4>1. CASE i \in 1..l /\ k \in 1..l
        <5>1. /\ p.marks[i].owner = "word" /\ p.marks[k].owner = "sentence"
              /\ p.marks[i].range.chapter = p.marks[k].range.chapter
          BY <2>10, <3>1, <4>1
        <5> QED BY <2>9, <2>13, <4>1, <5>1 DEF OnTop
      <4>2. CASE i \notin 1..l /\ k \notin 1..l
        <5>1. PICK a \in DOMAIN t : i = l + a /\ q.filed[t[a]] = "word"
          BY <2>11, <3>1, <4>2
        <5>2. PICK b \in DOMAIN t : k = l + b /\ q.filed[t[b]] = "sentence"
          BY <2>11, <3>1, <4>2
        <5>3. b < a
          BY <1>6, <2>4, <2>13, <5>1, <5>2 DEF OnTop
        <5> QED BY <2>9, <5>1, <5>2, <5>3
      <4>3. CASE i \in 1..l /\ k \notin 1..l
        BY <2>10, <2>11, <3>1, <4>3
      <4>4. CASE i \notin 1..l /\ k \in 1..l
        BY <2>10, <2>11, <3>1, <4>4
      <4> QED BY <4>1, <4>2, <4>3, <4>4
    <3> QED BY <1>6, <2>13, <3>1 DEF OnTop
  <2> QED BY <2>2, <2>12, <2>13
<1>9. Sound(q)
  <2>1. Stored(q)
    BY <1>6, <1>8 DEF Stored
  <2>2. q.clashes = {} => \A o \in Owners : Filed(q, o) \subseteq Layer(q, o)
    BY <1>6, <1>7 DEF Sound
  <2> QED BY <1>6, <2>1, <2>2 DEF Sound
<1>10. Truthful(p) => Truthful(q)
  BY <1>6 DEF Truthful
<1> QED BY <1>6, <1>7, <1>8, <1>9, <1>10 DEF n, q

(* What a step leaves of the layers when it paints nothing.                   *)
Stays(p, q) ==
  /\ Sound(q) /\ q.clashes = p.clashes /\ q.painted = p.painted /\ q.last = p.last
  /\ Truthful(p) => Truthful(q)
  /\ \A o \in Owners : Filed(q, o) = Filed(p, o) /\ Layer(q, o) = Layer(p, o)
  /\ q.clashes = {} /\ OnTop(p) => OnTop(q)

SameMemory(p, q) ==
  /\ q.clashes = p.clashes /\ q.painted = p.painted /\ q.last = p.last /\ q.match = p.match
  /\ q.pending = p.pending /\ q.reported = p.reported /\ q.landing = p.landing
  /\ q.spoken = p.spoken /\ q.word = p.word

LEMMA Staying ==
  ASSUME NEW p, Sound(p), NEW q, SameMemory(p, q), q.filed = p.filed,
         Stored(q), q.clashes = {} /\ OnTop(p) => OnTop(q)
  PROVE  Stays(p, q)
<1>1. \A o \in Owners : Filed(q, o) = Filed(p, o) /\ Layer(q, o) = Layer(p, o)
  BY DEF Filed, Layer, SameMemory
<1>2. Truthful(p) => Truthful(q)
  BY DEF Truthful, SameMemory
<1>3. Sound(q)
  BY <1>1 DEF Sound, SameMemory
<1> QED BY <1>1, <1>2, <1>3 DEF Stays, SameMemory

(* The views are taken down, and others, it may be, are to render.            *)
LEMMA TakingDown ==
  ASSUME NEW p, Sound(p), NEW V \in SUBSET Chapters
  PROVE  LET q == [p EXCEPT !.views = V, !.loaded = {}, !.marks = <<>>] IN
         Stays(p, q) /\ q.views = V /\ q.loaded = {}
<1> DEFINE q == [p EXCEPT !.views = V, !.loaded = {}, !.marks = <<>>]
<1>1. p \in Paint /\ Stored(p)
  BY DEF Sound, Stored
<1>2. <<>> \in Seq(Mark)
  BY EmptySeq
<1>3. /\ q \in Paint /\ q.views = V /\ q.loaded = {} /\ q.marks = <<>> /\ q.filed = p.filed
      /\ q.listed = p.listed /\ SameMemory(p, q)
  BY <1>1, <1>2 DEF Paint, SameMemory
<1> HIDE DEF q
<1>4. DOMAIN q.marks = {}
  <2>1. Len(<<>>) = 0 /\ DOMAIN q.marks = 1..Len(q.marks)
    BY <1>2, <1>3, LenProperties, EmptySeq
  <2> QED BY <1>3, <2>1
<1>5. p.clashes = {} => Listing(q) /\ Marking(q)
  BY <1>1, <1>3, <1>4 DEF Stored, Listing, Marking
<1>6. Stored(q)
  BY <1>3, <1>5 DEF Stored, SameMemory
<1>7. OnTop(p) => OnTop(q)
  BY <1>3, <1>4 DEF OnTop
<1>8. Stays(p, q)
  BY <1>3, <1>6, <1>7, Staying
<1> QED BY <1>3, <1>8 DEF q

LEMMA ScrollingIn ==
  ASSUME NEW p, Sound(p), NEW c \in Chapters
  PROVE  LET q == [p EXCEPT !.views = @ \union {c}] IN
         Stays(p, q) /\ q.views = p.views \union {c} /\ q.loaded = p.loaded
<1> DEFINE q == [p EXCEPT !.views = @ \union {c}]
<1>1. p \in Paint /\ Stored(p)
  BY DEF Sound, Stored
<1>2. /\ q \in Paint /\ q.views = p.views \union {c} /\ q.loaded = p.loaded /\ q.marks = p.marks
      /\ q.filed = p.filed /\ q.listed = p.listed /\ SameMemory(p, q)
  BY <1>1 DEF Paint, SameMemory
<1> HIDE DEF q
<1>3. Stored(q) /\ (OnTop(p) => OnTop(q))
  BY <1>1, <1>2, Remembered DEF SameMemory
<1>4. Stays(p, q)
  BY <1>2, <1>3, Staying
<1> QED BY <1>2, <1>4 DEF q

LEMMA ScrollingOut ==
  ASSUME NEW p, Sound(p), NEW c \in Chapters
  PROVE  LET q == [p EXCEPT !.views = @ \ {c}, !.loaded = @ \ {c},
                            !.marks = At(@, {i \in DOMAIN @ : @[i].range.chapter # c})] IN
         Stays(p, q) /\ q.views = p.views \ {c} /\ q.loaded = p.loaded \ {c}
<1> DEFINE I == {i \in DOMAIN p.marks : p.marks[i].range.chapter # c}
           q == [p EXCEPT !.views = @ \ {c}, !.loaded = @ \ {c},
                          !.marks = At(@, {i \in DOMAIN @ : @[i].range.chapter # c})]
<1>1. p \in Paint /\ Stored(p) /\ p.marks \in Seq(Mark)
  BY DEF Sound, Stored, Paint
<1>2. q = [p EXCEPT !.views = p.views \ {c}, !.loaded = p.loaded \ {c}, !.marks = At(p.marks, I)]
  BY <1>1 DEF Paint
<1>3. I \in SUBSET DOMAIN p.marks
  OBVIOUS
<1>4. At(p.marks, I) \in Seq(Mark) /\ Picks(p.marks, I, At(p.marks, I))
  BY <1>1, <1>3, AtIs
<1> HIDE DEF q
<1>5. /\ q \in Paint /\ q.views = p.views \ {c} /\ q.loaded = p.loaded \ {c}
      /\ q.marks = At(p.marks, I) /\ q.filed = p.filed /\ q.listed = p.listed /\ SameMemory(p, q)
  BY <1>1, <1>2, <1>4 DEF Paint, SameMemory
<1>6. /\ Cardinality(I) \in Nat /\ DOMAIN q.marks = 1..Cardinality(I)
      /\ \A k \in 1..Cardinality(I) : Nth(I, k) \in I /\ q.marks[k] = p.marks[Nth(I, k)]
      /\ \A k, l \in 1..Cardinality(I) : k < l => Nth(I, k) < Nth(I, l)
      /\ \A i \in I : \E k \in 1..Cardinality(I) : Nth(I, k) = i
  BY <1>4, <1>5 DEF Picks
<1>7. \A i \in I : i \in Nat /\ i \in DOMAIN p.marks /\ p.marks[i].range.chapter # c
  BY <1>1, <1>3, LenProperties
<1>8. \A i \in DOMAIN p.marks : p.marks[i].range.chapter # c => i \in I
  OBVIOUS
<1> HIDE DEF I
<1>9. ASSUME NEW k \in DOMAIN q.marks, NEW l \in DOMAIN q.marks
      PROVE  /\ k \in Nat /\ l \in Nat
             /\ Nth(I, k) \in DOMAIN p.marks /\ Nth(I, l) \in DOMAIN p.marks
             /\ q.marks[k] = p.marks[Nth(I, k)] /\ q.marks[l] = p.marks[Nth(I, l)]
             /\ Nth(I, k) = Nth(I, l) => k = l
             /\ Nth(I, k) < Nth(I, l) => k < l
             /\ q.marks[k].range.chapter # c
  <2>1. Nth(I, k) \in I /\ Nth(I, l) \in I /\ k \in Nat /\ l \in Nat
    BY <1>6
  <2>2. Nth(I, k) \in Nat /\ Nth(I, l) \in Nat
    BY <1>7, <2>1
  <2>3. /\ k < l => Nth(I, k) < Nth(I, l)
        /\ l < k => Nth(I, l) < Nth(I, k)
    BY <1>6
  <2> QED BY <1>6, <1>7, <2>1, <2>2, <2>3
<1>10. ASSUME p.clashes = {} PROVE Listing(q) /\ Marking(q)
  <2>1. Listing(p) /\ Marking(p)
    BY <1>1, <1>10 DEF Stored
  <2>2. \A k, l \in DOMAIN q.marks : q.marks[k].range = q.marks[l].range => k = l
    BY <1>9, <2>1 DEF Marking
  <2>3. \A k \in DOMAIN q.marks : /\ q.marks[k].held /\ q.marks[k].owner = q.filed[q.marks[k].range]
                                  /\ q.marks[k].range.chapter \in q.loaded
    BY <1>5, <1>9, <2>1 DEF Marking
  <2>4. ASSUME NEW r \in Ranges, r.chapter \in q.loaded, q.filed[r] # None
        PROVE  \E k \in DOMAIN q.marks : q.marks[k].range = r
    <3>1. PICK i \in DOMAIN p.marks : p.marks[i].range = r
      BY <1>5, <2>1, <2>4 DEF Marking
    <3>2. i \in I
      BY <1>5, <1>8, <2>4, <3>1
    <3> QED BY <1>6, <3>1, <3>2
  <2>5. Listing(q)
    BY <1>5, <2>1 DEF Listing
  <2> QED BY <2>2, <2>3, <2>4, <2>5 DEF Marking
<1>11. Stored(q)
  BY <1>5, <1>10 DEF Stored, SameMemory
<1>12. OnTop(p) => OnTop(q)
  BY <1>5, <1>9 DEF OnTop
<1>13. Stays(p, q)
  BY <1>5, <1>11, <1>12, Staying
<1> QED BY <1>5, <1>13 DEF q

LEMMA Unpainting ==
  ASSUME NEW p, Sound(p)
  PROVE  LET q == Unpainted(p) IN
         /\ Sound(q) /\ Bare(q) /\ q.clashes = p.clashes /\ q.painted = p.painted /\ q.last = p.last
         /\ q.views = {} /\ q.loaded = {} /\ (Truthful(p) => Truthful(q))
         /\ OnTop(q) /\ \A o \in Owners : Filed(q, o) = {}
<1> DEFINE q == Unpainted(p)
<1>1. p \in Paint
  BY DEF Sound, Stored
<1>2. <<>> \in Seq(Mark) /\ <<>> \in Seq(Ranges)
  BY EmptySeq
<1>3. /\ q \in Paint /\ q.views = {} /\ q.loaded = {} /\ q.marks = <<>> /\ SameMemory(p, q)
      /\ \A r \in Ranges : q.filed[r] = None
      /\ \A c \in Chapters : q.listed[c] = <<>>
  BY <1>1, <1>2 DEF Unpainted, Paint, SameMemory
<1> HIDE DEF q
<1>4. DOMAIN <<>> = {}
  <2>1. Len(<<>>) = 0 /\ DOMAIN <<>> = 1..Len(<<>>)
    BY <1>2, LenProperties, EmptySeq
  <2> QED BY <2>1
<1>5. \A o \in Owners : Filed(q, o) = {}
  BY <1>3, RangeParts DEF Filed
<1>6. Listing(q) /\ Marking(q) /\ OnTop(q)
  BY <1>3, <1>4 DEF Listing, Marking, OnTop, Once, Range
<1>7. Sound(q)
  BY <1>3, <1>5, <1>6 DEF Sound, Stored, SameMemory
<1>8. Bare(q)
  BY <1>5 DEF Bare
<1>9. Truthful(p) => Truthful(q)
  BY <1>3 DEF Truthful, SameMemory
<1> QED BY <1>3, <1>5, <1>6, <1>7, <1>8, <1>9 DEF q, SameMemory

-----------------------------------------------------------------------------
(* The displays.                                                              *)

Guarded(d) == d.kind \in {"rebuild", "reanchor"}
Under(w) == {w.current} \ {None}
Ascends(s) == \A i, j \in DOMAIN s : i < j /\ Guarded(s[i]) /\ Guarded(s[j]) => s[i].id < s[j].id
Ahead(S, U) == \A d \in S, e \in U : Guarded(d) /\ Guarded(e) => d.id < e.id
Numbered(S, t) == \A d \in S : Guarded(d) => d.id \in 1..t

(* A display is waited for in the order in which it was asked for.            *)
InTurn(w, t) ==
  /\ Ascends(w.late) /\ Ascends(w.queue)
  /\ Ahead(Range(w.due), Range(w.late) \union Under(w) \union Range(w.queue))
  /\ Ahead(Range(w.late), Under(w) \union Range(w.queue))
  /\ Ahead(Under(w), Range(w.queue))
  /\ Numbered(Range(w.due) \union Range(w.late) \union Under(w) \union Range(w.queue), t)

Pending(w) ==
  /\ w.due = <<>> \/ Len(w.due) = 1
  /\ \A d \in Range(w.due) \union Range(w.late) : d.kind # "move"
  /\ w.late # <<>> => w.current = None /\ \E d \in Range(w.queue) : d.kind = "rebuild"

InOrder(w, t) == w \in Shows /\ Pending(w) /\ InTurn(w, t)

(* Whether a rebuild has yet to paint what the layers want.                   *)
ToBePainted(w) == Rebuilding(w) \/ \E d \in Range(w.due) : d.kind = "rebuild"

(* Sequences of displays, by their values and by their order.                 *)
LEMMA NoDisplay ==
  /\ <<>> \in Seq(Display) /\ Range(<<>>) = {} /\ Ascends(<<>>)
<1>1. <<>> \in Seq(Display) /\ Len(<<>>) = 0
  BY EmptySeq
<1>2. DOMAIN <<>> = {}
  <2>1. DOMAIN <<>> = 1..Len(<<>>)
    BY <1>1, LenProperties
  <2> QED BY <1>1, <2>1
<1> QED BY <1>1, <1>2 DEF Range, Ascends

LEMMA Appending ==
  ASSUME NEW s \in Seq(Display), NEW d \in Display
  PROVE  /\ Append(s, d) \in Seq(Display) /\ Range(Append(s, d)) = Range(s) \union {d}
         /\ Ascends(s) /\ Ahead(Range(s), {d}) => Ascends(Append(s, d))
<1> DEFINE q == Append(s, d)
<1>1. Len(s) \in Nat /\ DOMAIN s = 1..Len(s)
  BY LenProperties
<1>2. /\ q \in Seq(Display) /\ Len(q) = Len(s) + 1
      /\ \A i \in 1..Len(s) : q[i] = s[i]
      /\ q[Len(s) + 1] = d
  BY AppendProperties
<1> HIDE DEF q
<1>3. DOMAIN q = 1..(Len(s) + 1)
  BY <1>2, LenProperties
<1>4. \A i \in 1..(Len(s) + 1) : i \in 1..Len(s) \/ i = Len(s) + 1
  BY <1>1
<1>5. Range(q) = Range(s) \union {d}
  <2>1. \A i \in 1..Len(s) : i \in 1..(Len(s) + 1)
    BY <1>1
  <2>2. Len(s) + 1 \in 1..(Len(s) + 1)
    BY <1>1
  <2>3. Range(q) \subseteq Range(s) \union {d}
    BY <1>1, <1>2, <1>3, <1>4 DEF Range
  <2>4. Range(s) \subseteq Range(q)
    BY <1>1, <1>2, <1>3, <2>1 DEF Range
  <2>5. d \in Range(q)
    BY <1>2, <1>3, <2>2 DEF Range
  <2> QED BY <2>3, <2>4, <2>5
<1>6. ASSUME Ascends(s), Ahead(Range(s), {d}), NEW i \in DOMAIN q, NEW j \in DOMAIN q,
             i < j, Guarded(q[i]), Guarded(q[j])
      PROVE  q[i].id < q[j].id
  <2>1. i \in 1..Len(s)
    BY <1>1, <1>3, <1>4, <1>6
  <2>2. q[i] = s[i] /\ s[i] \in Range(s)
    BY <1>1, <1>2, <2>1 DEF Range
  <2>3. CASE j \in 1..Len(s)
    BY <1>1, <1>2, <1>6, <2>1, <2>3 DEF Ascends
  <2>4. CASE j = Len(s) + 1
    BY <1>2, <1>6, <2>2, <2>4 DEF Ahead
  <2> QED BY <1>3, <1>4, <2>3, <2>4
<1>7. Ascends(s) /\ Ahead(Range(s), {d}) => Ascends(q)
  BY <1>6 DEF Ascends
<1> QED BY <1>2, <1>5, <1>7 DEF q

LEMMA OneDisplay ==
  ASSUME NEW d \in Display
  PROVE  /\ <<d>> \in Seq(Display) /\ Range(<<d>>) = {d} /\ Ascends(<<d>>) /\ Len(<<d>>) = 1
         /\ Append(<<>>, d) = <<d>>
<1>1. Append(<<>>, d) = <<d>>
  OBVIOUS
<1>2. <<>> \in Seq(Display) /\ Range(<<>>) = {} /\ Ascends(<<>>) /\ Len(<<>>) = 0
  BY NoDisplay, EmptySeq
<1>3. Ahead({}, {d})
  BY DEF Ahead
<1>4. /\ Append(<<>>, d) \in Seq(Display) /\ Range(Append(<<>>, d)) = {d}
      /\ Ascends(Append(<<>>, d))
  BY <1>2, <1>3, Appending
<1> QED BY <1>1, <1>4

LEMMA Heading ==
  ASSUME NEW s \in Seq(Display), s # <<>>
  PROVE  /\ Head(s) \in Display /\ Tail(s) \in Seq(Display)
         /\ Range(s) = {Head(s)} \union Range(Tail(s))
         /\ Ascends(s) => Ascends(Tail(s)) /\ Ahead({Head(s)}, Range(Tail(s)))
         /\ Len(s) = 1 => Tail(s) = <<>>
<1> DEFINE t == Tail(s)
<1>1. Len(s) \in Nat /\ Len(s) # 0 /\ DOMAIN s = 1..Len(s)
  BY LenProperties, EmptySeq
<1>2. /\ Head(s) \in Display /\ t \in Seq(Display) /\ Len(t) = Len(s) - 1
      /\ \A i \in 1..Len(t) : t[i] = s[i + 1]
  BY HeadTailProperties
<1>3. Head(s) = s[1]
  OBVIOUS
<1> HIDE DEF t
<1>4. DOMAIN t = 1..Len(t)
  BY <1>2, LenProperties
<1>5. \A i \in 1..Len(t) : i + 1 \in 1..Len(s)
  BY <1>1, <1>2
<1>6. \A i \in 1..Len(s) : i = 1 \/ (i - 1 \in 1..Len(t) /\ (i - 1) + 1 = i)
  BY <1>1, <1>2
<1>7. 1 \in 1..Len(s)
  BY <1>1
<1>8. Range(s) = {Head(s)} \union Range(t)
  <2>1. ASSUME NEW i \in 1..Len(s) PROVE s[i] \in {Head(s)} \union Range(t)
    <3>1. CASE i = 1
      BY <1>3, <3>1
    <3>2. CASE i - 1 \in 1..Len(t) /\ (i - 1) + 1 = i
      BY <1>2, <1>4, <3>2 DEF Range
    <3> QED BY <1>6, <3>1, <3>2
  <2>2. Range(t) \subseteq Range(s)
    BY <1>1, <1>2, <1>4, <1>5 DEF Range
  <2>3. Head(s) \in Range(s)
    BY <1>1, <1>3, <1>7 DEF Range
  <2>4. Range(s) \subseteq {Head(s)} \union Range(t)
    BY <1>1, <2>1 DEF Range
  <2> QED BY <2>2, <2>3, <2>4
<1>9. ASSUME Ascends(s) PROVE Ascends(t) /\ Ahead({Head(s)}, Range(t))
  <2>1. \A i, j \in 1..Len(t) : i < j => i + 1 < j + 1
    BY <1>1, <1>2
  <2>2. Ascends(t)
    BY <1>1, <1>2, <1>4, <1>5, <1>9, <2>1 DEF Ascends
  <2>3. ASSUME NEW i \in 1..Len(t), Guarded(Head(s)), Guarded(t[i]) PROVE Head(s).id < t[i].id
    <3>1. 1 < i + 1
      BY <1>1, <1>2
    <3>2. t[i] = s[i + 1] /\ i + 1 \in DOMAIN s /\ 1 \in DOMAIN s
      BY <1>1, <1>2, <1>5, <1>7
    <3> QED BY <1>3, <1>9, <2>3, <3>1, <3>2 DEF Ascends
  <2>4. Ahead({Head(s)}, Range(t))
    BY <1>4, <2>3 DEF Ahead, Range
  <2> QED BY <2>2, <2>4
<1>10. Len(s) = 1 => t = <<>>
  BY <1>2, EmptySeq
<1> QED BY <1>2, <1>8, <1>9, <1>10 DEF t

LEMMA Joining ==
  ASSUME NEW s \in Seq(Display), NEW t \in Seq(Display)
  PROVE  /\ s \o t \in Seq(Display) /\ Range(s \o t) = Range(s) \union Range(t)
         /\ Ascends(s) /\ Ascends(t) /\ Ahead(Range(s), Range(t)) => Ascends(s \o t)
<1> DEFINE q == s \o t
<1>1. q \in Seq(Display) /\ Joins(s, t, q) /\ Range(q) = Range(s) \union Range(t)
  BY Joined, JoinedOnce
<1> HIDE DEF q
<1>2. /\ Len(s) \in Nat /\ Len(t) \in Nat /\ DOMAIN s = 1..Len(s) /\ DOMAIN t = 1..Len(t)
      /\ DOMAIN q = 1..(Len(s) + Len(t))
      /\ \A i \in 1..Len(s) : q[i] = s[i]
      /\ \A k \in 1..(Len(s) + Len(t)) :
           k \in 1..Len(s) \/ (k > Len(s) /\ k - Len(s) \in 1..Len(t) /\ q[k] = t[k - Len(s)])
  BY <1>1 DEF Joins
<1>3. ASSUME Ascends(s), Ascends(t), Ahead(Range(s), Range(t)),
             NEW i \in DOMAIN q, NEW j \in DOMAIN q, i < j, Guarded(q[i]), Guarded(q[j])
      PROVE  q[i].id < q[j].id
  <2>1. CASE i \in 1..Len(s) /\ j \in 1..Len(s)
    BY <1>2, <1>3, <2>1 DEF Ascends
  <2>2. CASE i \in 1..Len(s) /\ j \notin 1..Len(s)
    <3>1. q[i] \in Range(s) /\ q[j] \in Range(t)
      BY <1>2, <2>2 DEF Range
    <3> QED BY <1>3, <3>1 DEF Ahead
  <2>3. CASE i \notin 1..Len(s)
    <3>1. j \notin 1..Len(s)
      BY <1>2, <1>3, <2>3
    <3> DEFINE k == i - Len(s)
               l == j - Len(s)
    <3>2. k < l
      BY <1>2, <1>3
    <3>3. k \in DOMAIN t /\ l \in DOMAIN t /\ q[i] = t[k] /\ q[j] = t[l]
      BY <1>2, <2>3, <3>1
    <3> HIDE DEF k, l
    <3> QED BY <1>3, <3>2, <3>3 DEF Ascends
  <2> QED BY <2>1, <2>2, <2>3
<1>4. Ascends(s) /\ Ascends(t) /\ Ahead(Range(s), Range(t)) => Ascends(q)
  BY <1>3 DEF Ascends
<1> QED BY <1>1, <1>4 DEF q

LEMMA Picking ==
  ASSUME NEW s \in Seq(Display), NEW I \in SUBSET DOMAIN s
  PROVE  /\ At(s, I) \in Seq(Display) /\ \A d \in Range(At(s, I)) : \E i \in I : d = s[i]
         /\ Ascends(s) => Ascends(At(s, I))
<1> DEFINE q == At(s, I)
<1>1. q \in Seq(Display) /\ Picks(s, I, q)
  BY AtIs
<1> HIDE DEF q
<1>2. /\ DOMAIN q = 1..Cardinality(I)
      /\ \A k \in 1..Cardinality(I) : Nth(I, k) \in I /\ q[k] = s[Nth(I, k)]
      /\ \A k, l \in 1..Cardinality(I) : k < l => Nth(I, k) < Nth(I, l)
  BY <1>1 DEF Picks
<1>3. \A d \in Range(q) : \E i \in I : d = s[i]
  BY <1>2 DEF Range
<1>4. Ascends(s) => Ascends(q)
  BY <1>2 DEF Ascends
<1> QED BY <1>1, <1>3, <1>4 DEF q

(* From w to q nothing becomes due to be painted, nor is it forgotten.        *)
GoesOn(w, q, t) ==
  /\ InOrder(q, t) /\ (ToBePainted(q) <=> ToBePainted(w))
  /\ q.opening = w.opening /\ q.located = w.located

LEMMA ShowsAre ==
  ASSUME NEW w \in Shows
  PROVE  /\ w.queue \in Seq(Display) /\ w.due \in Seq(Display) /\ w.late \in Seq(Display)
         /\ w.current \in Display \union {None} /\ w.opening \in BOOLEAN /\ w.located \in BOOLEAN
         /\ \A d \in Range(w.queue) \union Range(w.due) \union Range(w.late) \union Under(w) :
              d \in Display /\ d.id \in Nat
<1>1. /\ w.queue \in Seq(Display) /\ w.due \in Seq(Display) /\ w.late \in Seq(Display)
      /\ w.current \in Display \union {None} /\ w.opening \in BOOLEAN /\ w.located \in BOOLEAN
  BY DEF Shows
<1>2. ASSUME NEW s \in Seq(Display) PROVE Range(s) \subseteq Display
  BY LenProperties, ElementOfSeq DEF Range
<1>3. \A d \in Display : d.id \in Nat
  BY PageBoundAssumption DEF Display
<1>4. Range(w.queue) \subseteq Display /\ Range(w.due) \subseteq Display /\ Range(w.late) \subseteq Display
  BY <1>1, <1>2
<1>5. Under(w) \subseteq Display
  BY <1>1 DEF Under
<1> QED BY <1>1, <1>3, <1>4, <1>5

(* What else a page shows is no matter of its displays.                       *)
LEMMA Noting ==
  ASSUME NEW w, NEW t, NEW q \in Shows, InOrder(w, t), q.queue = w.queue, q.due = w.due,
         q.late = w.late, q.current = w.current
  PROVE  InOrder(q, t) /\ (ToBePainted(q) <=> ToBePainted(w))
BY DEF InOrder, Pending, InTurn, Under, ToBePainted, Rebuilding

LEMMA Settling ==
  ASSUME NEW w, NEW t, InOrder(w, t), w.due = <<>>
  PROVE  LET q == Settled(w) IN
         /\ GoesOn(w, q, t) /\ q.current = None /\ q.queue = w.queue /\ q.late = w.late
         /\ q.report = w.report
<1> DEFINE q == Settled(w)
<1>1. /\ w \in Shows /\ w.queue \in Seq(Display) /\ w.late \in Seq(Display)
      /\ w.current \in Display \union {None} /\ Range(<<>>) = {}
  BY ShowsAre, NoDisplay DEF InOrder
<1>2. CASE w.current = None \/ w.current.kind = "move"
  <2>1. /\ q \in Shows /\ q.due = <<>> /\ q.current = None /\ q.queue = w.queue /\ q.late = w.late
        /\ q.opening = w.opening /\ q.located = w.located /\ q.report = w.report
    BY <1>1, <1>2 DEF Settled, Shows
  <2> HIDE DEF q
  <2>2. Under(q) = {}
    BY <2>1 DEF Under
  <2>3. Pending(q)
    BY <2>1 DEF InOrder, Pending
  <2>4. InTurn(q, t)
    BY <2>1, <2>2 DEF InOrder, InTurn, Ahead, Numbered
  <2>5. ToBePainted(q) <=> ToBePainted(w)
    BY <1>1, <1>2, <2>1 DEF ToBePainted, Rebuilding
  <2> QED BY <2>1, <2>3, <2>4, <2>5 DEF q, InOrder, GoesOn
<1>3. CASE w.current # None /\ w.current.kind # "move"
  <2> DEFINE d == w.current
  <2>1. d \in Display /\ Append(w.due, d) = <<d>>
    BY <1>1, <1>3, OneDisplay
  <2>2. <<d>> \in Seq(Display) /\ Range(<<d>>) = {d} /\ Len(<<d>>) = 1
    BY <2>1, OneDisplay
  <2>3. /\ q \in Shows /\ q.due = <<d>> /\ q.current = None /\ q.queue = w.queue /\ q.late = w.late
        /\ q.opening = w.opening /\ q.located = w.located /\ q.report = w.report
    BY <1>1, <1>3, <2>1, <2>2 DEF Settled, Shows
  <2> HIDE DEF q
  <2>4. Under(q) = {} /\ Under(w) = {d} /\ w.late = <<>>
    BY <1>3, <2>3 DEF Under, InOrder, Pending
  <2>5. Pending(q)
    BY <1>1, <1>3, <2>2, <2>3, <2>4 DEF Pending
  <2>6. InTurn(q, t)
    BY <1>1, <2>2, <2>3, <2>4 DEF InOrder, InTurn, Ahead, Numbered
  <2>7. ToBePainted(q) <=> ToBePainted(w)
    BY <1>1, <1>3, <2>2, <2>3 DEF ToBePainted, Rebuilding
  <2> QED BY <2>3, <2>5, <2>6, <2>7 DEF q, InOrder, GoesOn
<1> QED BY <1>2, <1>3

(* A display that is asked for comes after all others.                        *)
LEMMA Showing ==
  ASSUME NEW w, NEW t \in Nat, NEW u \in Nat, t <= u, InOrder(w, t), w.due = <<>>,
         NEW kind, NEW c, NEW id, kind # "rebuild",
         [kind |-> kind, chapter |-> c, id |-> id] \in Display,
         kind = "reanchor" => t < id /\ id <= u
  PROVE  GoesOn(w, Displayed(w, kind, c, id), u)
<1> DEFINE s == Settled(w)
           d == [kind |-> kind, chapter |-> c, id |-> id]
           q == Displayed(w, kind, c, id)
<1>1. GoesOn(w, s, t) /\ s.current = None
  BY Settling
<1>2. q = [s EXCEPT !.queue = Append(@, d)]
  BY DEF Displayed
<1>3. d.kind = kind /\ d.id = id /\ d \in Display
  OBVIOUS
<1> HIDE DEF s, d, q
<1>4. InOrder(s, t) /\ s \in Shows /\ s.queue \in Seq(Display)
  BY <1>1, ShowsAre DEF GoesOn, InOrder
<1>5. /\ Append(s.queue, d) \in Seq(Display) /\ Range(Append(s.queue, d)) = Range(s.queue) \union {d}
      /\ Ascends(s.queue) /\ Ahead(Range(s.queue), {d}) => Ascends(Append(s.queue, d))
  BY <1>3, <1>4, Appending
<1>6. /\ q \in Shows /\ q.queue = Append(s.queue, d) /\ q.current = None /\ q.due = s.due
      /\ q.late = s.late /\ q.opening = s.opening /\ q.located = s.located
  BY <1>1, <1>2, <1>4, <1>5 DEF Shows
<1>7. Under(q) = {} /\ Under(s) = {}
  BY <1>1, <1>6 DEF Under
<1>8. Pending(q)
  BY <1>4, <1>5, <1>6 DEF InOrder, Pending
<1>9. Guarded(d) => t < d.id /\ d.id <= u
  BY <1>3 DEF Guarded
<1>10. Numbered(Range(s.due) \union Range(s.late) \union Range(s.queue), t)
  BY <1>4, <1>7 DEF InOrder, InTurn, Numbered
<1>11. id \in Nat
  BY <1>3, PageBoundAssumption DEF Display
<1>12. Ahead(Range(s.due) \union Range(s.late) \union Range(s.queue), {d})
  BY <1>3, <1>9, <1>10, <1>11 DEF Ahead, Numbered
<1>13. InTurn(q, u)
  <2>1. Ascends(q.late) /\ Ascends(q.queue)
    BY <1>4, <1>5, <1>6, <1>12 DEF InOrder, InTurn, Ahead
  <2>2. Ahead(Range(q.due), Range(q.late) \union Under(q) \union Range(q.queue))
    BY <1>4, <1>5, <1>6, <1>7, <1>12 DEF InOrder, InTurn, Ahead
  <2>3. Ahead(Range(q.late), Under(q) \union Range(q.queue))
    BY <1>4, <1>5, <1>6, <1>7, <1>12 DEF InOrder, InTurn, Ahead
  <2>4. Ahead(Under(q), Range(q.queue))
    BY <1>7 DEF Ahead
  <2>5. ASSUME NEW e \in Range(q.due) \union Range(q.late) \union Under(q) \union Range(q.queue), Guarded(e)
        PROVE  e.id \in 1..u
    <3>1. CASE e = d
      BY <1>3, <1>9, <1>11, <2>5, <3>1
    <3>2. CASE e # d
      <4>1. e \in Range(s.due) \union Range(s.late) \union Range(s.queue)
        BY <1>5, <1>6, <1>7, <2>5, <3>2
      <4>2. e.id \in 1..t
        BY <1>10, <2>5, <4>1 DEF Numbered
      <4> QED BY <4>2
    <3> QED BY <3>1, <3>2
  <2> QED BY <2>1, <2>2, <2>3, <2>4, <2>5 DEF InTurn, Numbered
<1>14. ToBePainted(q) <=> ToBePainted(s)
  BY <1>3, <1>5, <1>6, <1>1 DEF ToBePainted, Rebuilding
<1>15. GoesOn(w, q, u)
  BY <1>1, <1>6, <1>8, <1>13, <1>14 DEF GoesOn, InOrder
<1> QED BY <1>15 DEF q

LEMMA FollowingAlong ==
  ASSUME NEW w, NEW t \in Nat, InOrder(w, t), w.due = <<>>, NEW r \in Ranges \union {None},
         NEW x, NEW q \in MayFollow(w, r, x)
  PROVE  GoesOn(w, q, t)
<1>1. CASE q = w
  BY <1>1 DEF GoesOn
<1>2. CASE q # w
  <2>1. r # None /\ q = Displayed(w, "move", r.chapter, 0)
    BY <1>2 DEF MayFollow
  <2>2. r.chapter \in Chapters
    BY <2>1, RangeParts
  <2>3. [kind |-> "move", chapter |-> r.chapter, id |-> 0] \in Display
    BY <2>2, PageBoundAssumption DEF Display
  <2> QED BY <2>1, <2>3, Showing
<1> QED BY <1>1, <1>2

LEMMA Turning ==
  ASSUME NEW w, NEW t, InOrder(w, t), w.due = <<>>, w.late = <<>>, w.current = None, w.queue # <<>>
  PROVE  LET q == [w EXCEPT !.queue = Tail(@), !.current = Head(w.queue)] IN
         GoesOn(w, q, t) /\ q.due = <<>>
<1> DEFINE d == Head(w.queue)
           q == [w EXCEPT !.queue = Tail(@), !.current = Head(w.queue)]
<1>1. w \in Shows /\ w.queue \in Seq(Display)
  BY ShowsAre DEF InOrder
<1>2. /\ d \in Display /\ Tail(w.queue) \in Seq(Display)
      /\ Range(w.queue) = {d} \union Range(Tail(w.queue))
      /\ Ascends(w.queue) => Ascends(Tail(w.queue)) /\ Ahead({d}, Range(Tail(w.queue)))
  BY <1>1, Heading
<1>3. d # None
  BY <1>2, RangeParts
<1> HIDE DEF d
<1>4. /\ q \in Shows /\ q.queue = Tail(w.queue) /\ q.current = d /\ q.due = <<>> /\ q.late = <<>>
      /\ q.opening = w.opening /\ q.located = w.located
  BY <1>1, <1>2 DEF Shows, d
<1> HIDE DEF q
<1>5. Under(q) = {d} /\ Under(w) = {} /\ Range(<<>>) = {}
  BY <1>3, <1>4, NoDisplay DEF Under
<1>6. Pending(q)
  BY <1>4, <1>5 DEF Pending
<1>7. InTurn(q, t)
  BY <1>2, <1>4, <1>5 DEF InOrder, InTurn, Ahead, Numbered
<1>8. ToBePainted(q) <=> ToBePainted(w)
  BY <1>2, <1>3, <1>4, <1>5 DEF ToBePainted, Rebuilding, Under
<1> QED BY <1>4, <1>6, <1>7, <1>8 DEF GoesOn, InOrder, q

LEMMA ComingLate ==
  ASSUME NEW w, NEW t, InOrder(w, t), w.due = <<>>, w.late # <<>>
  PROVE  GoesOn(w, [w EXCEPT !.due = <<Head(w.late)>>, !.late = Tail(@)], t)
<1> DEFINE d == Head(w.late)
           q == [w EXCEPT !.due = <<Head(w.late)>>, !.late = Tail(@)]
<1>1. w \in Shows /\ w.late \in Seq(Display)
  BY ShowsAre DEF InOrder
<1>2. /\ d \in Display /\ Tail(w.late) \in Seq(Display)
      /\ Range(w.late) = {d} \union Range(Tail(w.late))
      /\ Ascends(w.late) => Ascends(Tail(w.late)) /\ Ahead({d}, Range(Tail(w.late)))
  BY <1>1, Heading
<1>3. <<d>> \in Seq(Display) /\ Range(<<d>>) = {d} /\ Len(<<d>>) = 1
  BY <1>2, OneDisplay
<1> HIDE DEF d
<1>4. /\ q \in Shows /\ q.queue = w.queue /\ q.current = w.current /\ q.due = <<d>>
      /\ q.late = Tail(w.late) /\ q.opening = w.opening /\ q.located = w.located
  BY <1>1, <1>2, <1>3 DEF Shows, d
<1> HIDE DEF q
<1>5. w.current = None /\ Under(q) = {} /\ Under(w) = {} /\ \E e \in Range(w.queue) : e.kind = "rebuild"
  BY <1>4 DEF Under, InOrder, Pending
<1>6. Pending(q)
  BY <1>2, <1>3, <1>4, <1>5 DEF InOrder, Pending
<1>7. InTurn(q, t)
  BY <1>2, <1>3, <1>4, <1>5 DEF InOrder, InTurn, Ahead, Numbered
<1>8. ToBePainted(q) /\ ToBePainted(w)
  BY <1>4, <1>5 DEF ToBePainted, Rebuilding
<1> QED BY <1>4, <1>6, <1>7, <1>8 DEF GoesOn, InOrder, q

(* What is due is taken, and the transition that it ends was the last.        *)
Resumes(w, t, d, q) ==
  /\ d \in Display /\ d.kind # "move" /\ d.id \in Nat /\ InOrder(q, t) /\ q.due = <<>>
  /\ Guarded(d) /\ d.id = t => InOrder(q, 0)
  /\ ToBePainted(w) <=> d.kind = "rebuild" \/ ToBePainted(q)
  /\ ToBePainted(q) <=> Rebuilding(q)
  /\ q.opening = w.opening /\ q.located = w.located

LEMMA Resuming ==
  ASSUME NEW w, NEW t \in Nat, InOrder(w, t), w.due # <<>>
  PROVE  Resumes(w, t, Head(w.due), [w EXCEPT !.due = Tail(@)])
<1> DEFINE d == Head(w.due)
           q == [w EXCEPT !.due = Tail(@)]
<1>1. w \in Shows /\ w.due \in Seq(Display) /\ Range(<<>>) = {} /\ <<>> \in Seq(Display) /\ Len(w.due) = 1
  BY ShowsAre, NoDisplay DEF InOrder, Pending
<1>2. d \in Display /\ Tail(w.due) = <<>> /\ Range(w.due) = {d} \union Range(Tail(w.due))
  BY <1>1, Heading
<1>3. d.id \in Nat
  BY <1>2, PageBoundAssumption DEF Display
<1> HIDE DEF d
<1>4. /\ q \in Shows /\ q.queue = w.queue /\ q.current = w.current /\ q.due = <<>>
      /\ q.late = w.late /\ q.opening = w.opening /\ q.located = w.located
  BY <1>1, <1>2 DEF Shows
<1> HIDE DEF q
<1>5. Under(q) = Under(w) /\ Range(w.due) = {d} /\ Range(q.due) = {}
  BY <1>1, <1>2, <1>4 DEF Under
<1>6. d.kind # "move" /\ Pending(q)
  BY <1>4, <1>5 DEF InOrder, Pending
<1>7. InTurn(q, t)
  BY <1>4, <1>5 DEF InOrder, InTurn, Ahead, Numbered
<1>8. ASSUME Guarded(d), d.id = t PROVE InTurn(q, 0)
  <2>1. ASSUME NEW e \in Range(q.late) \union Under(q) \union Range(q.queue), Guarded(e) PROVE FALSE
    <3>1. d.id < e.id
      BY <1>4, <1>5, <1>8, <2>1 DEF InOrder, InTurn, Ahead
    <3>2. e.id \in 1..t
      BY <1>7, <2>1 DEF InTurn, Numbered
    <3> QED BY <1>8, <3>1, <3>2
  <2>2. Numbered(Range(q.due) \union Range(q.late) \union Under(q) \union Range(q.queue), 0)
    BY <1>5, <2>1 DEF Numbered
  <2> QED BY <1>7, <2>2 DEF InTurn
<1>9. /\ ToBePainted(w) <=> d.kind = "rebuild" \/ ToBePainted(q)
      /\ ToBePainted(q) <=> Rebuilding(q)
  BY <1>4, <1>5 DEF ToBePainted, Rebuilding
<1>10. Resumes(w, t, d, q)
  BY <1>2, <1>3, <1>4, <1>6, <1>7, <1>8, <1>9 DEF Resumes, InOrder
<1> QED BY <1>10 DEF d, q

(* A rendition that is made anew displays, and paints, what it is to show.    *)
LEMMA Remaking ==
  ASSUME NEW w, NEW t \in Nat, InOrder(w, t), w.due = <<>>, NEW c \in Chapters, t + 1 <= 2 * MaxAsks
  PROVE  LET q == [w EXCEPT
               !.queue = <<[kind |-> "rebuild", chapter |-> c, id |-> t + 1]>>,
               !.late = @ \o At(w.queue, {i \in DOMAIN w.queue : w.queue[i].kind # "move"}),
               !.current = None, !.located = FALSE, !.report = FALSE]
         IN InOrder(q, t + 1) /\ ToBePainted(q) /\ q.opening = w.opening /\ q.located = FALSE
<1> DEFINE I == {i \in DOMAIN w.queue : w.queue[i].kind # "move"}
           d == [kind |-> "rebuild", chapter |-> c, id |-> t + 1]
           a == At(w.queue, I)
           l == w.late \o a
           q == [w EXCEPT !.queue = <<d>>,
                          !.late = @ \o At(w.queue, {i \in DOMAIN w.queue : w.queue[i].kind # "move"}),
                          !.current = None, !.located = FALSE, !.report = FALSE]
<1>1. /\ w \in Shows /\ w.queue \in Seq(Display) /\ w.late \in Seq(Display)
      /\ \A e \in Range(w.late) \union Range(w.queue) : e \in Display /\ e.id \in Nat
  BY ShowsAre DEF InOrder
<1>2. d \in Display /\ d.kind = "rebuild" /\ d.id = t + 1 /\ t + 1 \in Nat
  BY PageBoundAssumption DEF Display, Awaited
<1>3. I \in SUBSET DOMAIN w.queue
  OBVIOUS
<1>4. \A i \in I : w.queue[i].kind # "move" /\ w.queue[i] \in Range(w.queue)
  BY DEF Range
<1>5. q = [w EXCEPT !.queue = <<d>>, !.late = l, !.current = None, !.located = FALSE, !.report = FALSE]
  BY <1>1 DEF Shows
<1> HIDE DEF I, d, q
<1>6. /\ a \in Seq(Display) /\ \A e \in Range(a) : \E i \in I : e = w.queue[i]
      /\ Ascends(w.queue) => Ascends(a)
  BY <1>1, <1>3, Picking
<1>7. \A e \in Range(a) : e \in Range(w.queue) /\ e.kind # "move"
  BY <1>4, <1>6
<1> HIDE DEF a
<1>8. /\ l \in Seq(Display) /\ Range(l) = Range(w.late) \union Range(a)
      /\ Ascends(w.late) /\ Ascends(a) /\ Ahead(Range(w.late), Range(a)) => Ascends(l)
  BY <1>1, <1>6, Joining
<1> HIDE DEF l
<1>9. <<d>> \in Seq(Display) /\ Range(<<d>>) = {d} /\ Ascends(<<d>>)
  BY <1>2, OneDisplay
<1>10. /\ q \in Shows /\ q.queue = <<d>> /\ q.late = l /\ q.current = None /\ q.due = <<>>
       /\ q.opening = w.opening /\ q.located = FALSE
  BY <1>1, <1>5, <1>8, <1>9 DEF Shows
<1>11. Under(q) = {} /\ Range(q.due) = {}
  BY <1>10, NoDisplay DEF Under
<1>12. Pending(q)
  <2>1. \A e \in Range(l) : e.kind # "move"
    BY <1>7, <1>8 DEF InOrder, Pending
  <2> QED BY <1>2, <1>9, <1>10, <1>11, <2>1 DEF Pending
<1>13. Ascends(l)
  BY <1>6, <1>7, <1>8 DEF InOrder, InTurn, Ahead
<1>14. \A e \in Range(l) : e.id \in Nat /\ (Guarded(e) => e.id \in 1..t)
  BY <1>1, <1>7, <1>8 DEF InOrder, InTurn, Numbered
<1>15. Ahead(Range(l), {d})
  BY <1>2, <1>14 DEF Ahead
<1>16. Numbered(Range(l) \union {d}, t + 1)
  <2>1. \A x \in 1..t : x \in 1..(t + 1)
    OBVIOUS
  <2>2. t + 1 \in 1..(t + 1)
    OBVIOUS
  <2> QED BY <1>2, <1>14, <2>1, <2>2 DEF Numbered
<1>17. InTurn(q, t + 1)
  BY <1>9, <1>10, <1>11, <1>13, <1>15, <1>16 DEF InTurn, Ahead, Numbered
<1>18. ToBePainted(q)
  BY <1>2, <1>9, <1>10 DEF ToBePainted, Rebuilding
<1> QED BY <1>10, <1>12, <1>17, <1>18 DEF InOrder, q, d

(* What is painted, and whether a rebuild has yet to paint it.                *)
PaintedFor(p, b) ==
  /\ Sound(p) /\ Truthful(p) /\ p.loaded \subseteq p.views /\ p.painted \subseteq p.last
  /\ p.clashes = {} => OnTop(p) /\ IF b THEN Bare(p) ELSE Complete(p)

LEMMA KeptPainted ==
  ASSUME NEW p, NEW q, PaintedFor(p, FALSE), Keeps(p, q), Above(p, q)
  PROVE  PaintedFor(q, FALSE)
<1>1. /\ Sound(q) /\ Truthful(q) /\ q.loaded \subseteq q.views /\ q.painted \subseteq q.last
      /\ p.clashes \subseteq q.clashes
  BY DEF PaintedFor, Keeps
<1>2. ASSUME q.clashes = {} PROVE OnTop(q) /\ Complete(q)
  <2>1. OnTop(p) /\ Complete(p)
    BY <1>1, <1>2 DEF PaintedFor
  <2> QED BY <1>2, <2>1 DEF Complete, Keeps, Above
<1> QED BY <1>1, <1>2 DEF PaintedFor

LEMMA SparedPainted ==
  ASSUME NEW p, NEW q, NEW b \in BOOLEAN, PaintedFor(p, b), Keeps(p, q), Above(p, q), Spares(p, q)
  PROVE  PaintedFor(q, b)
<1>1. CASE b = FALSE
  BY <1>1, KeptPainted
<1>2. CASE b = TRUE
  <2>1. /\ Sound(q) /\ Truthful(q) /\ q.loaded \subseteq q.views /\ q.painted \subseteq q.last
        /\ p.clashes \subseteq q.clashes
    BY DEF PaintedFor, Keeps
  <2>2. ASSUME q.clashes = {} PROVE OnTop(q) /\ Bare(q)
    <3>1. OnTop(p) /\ Bare(p)
      BY <1>2, <2>1, <2>2 DEF PaintedFor
    <3> QED BY <2>2, <3>1 DEF Bare, Spares, Above
  <2> QED BY <1>2, <2>1, <2>2 DEF PaintedFor
<1> QED BY <1>1, <1>2

LEMMA StayedPainted ==
  ASSUME NEW p, NEW q, NEW b, PaintedFor(p, b), Stays(p, q), q.loaded \subseteq q.views
  PROVE  PaintedFor(q, b)
<1>1. Sound(q) /\ Truthful(q) /\ q.painted \subseteq q.last /\ q.clashes = p.clashes
  BY DEF PaintedFor, Stays
<1>2. ASSUME q.clashes = {} PROVE OnTop(q) /\ IF b THEN Bare(q) ELSE Complete(q)
  BY <1>1, <1>2 DEF PaintedFor, Stays, Bare, Complete
<1> QED BY <1>1, <1>2 DEF PaintedFor

(* What may be painted in place of what is.                                   *)
Repaintable(w, p) ==
  /\ Sound(p) /\ Truthful(p) /\ p.loaded \subseteq p.views /\ p.painted \subseteq p.last
  /\ paint.clashes \subseteq p.clashes
  /\ p.clashes = {} => OnTop(p) /\ (~Rebuilding(w) => Complete(p))

LEMMA KeptRepaintable ==
  ASSUME NEW b \in BOOLEAN, NEW w, NEW p, PaintedFor(paint, b), b <=> Rebuilding(w),
         Keeps(paint, p), Above(paint, p)
  PROVE  Repaintable(w, p)
<1>1. /\ Sound(p) /\ Truthful(p) /\ p.loaded \subseteq p.views /\ p.painted \subseteq p.last
      /\ paint.clashes \subseteq p.clashes
  BY DEF PaintedFor, Keeps
<1>2. p.clashes = {} => OnTop(p)
  BY <1>1 DEF PaintedFor, Above
<1>3. ASSUME p.clashes = {}, ~Rebuilding(w) PROVE Complete(p)
  <2>1. Complete(paint)
    BY <1>1, <1>3 DEF PaintedFor
  <2> QED BY <1>3, <2>1 DEF Complete, Keeps
<1> QED BY <1>1, <1>2, <1>3 DEF Repaintable

(* What is painted too early leaves the rendition bare, or is told.           *)
LEMMA Painting ==
  ASSUME NEW b \in BOOLEAN, NEW w, NEW p, PaintedFor(paint, b), Rebuilding(w) => b,
         Repaintable(w, p), Paints(w, p)
  PROVE  PaintedFor(paint', Rebuilding(w))
<1>1. /\ Sound(p) /\ Truthful(p) /\ p.loaded \subseteq p.views /\ p.painted \subseteq p.last
      /\ paint.clashes \subseteq p.clashes /\ (p.clashes = {} => OnTop(p)) /\ p \in Paint
  BY DEF Repaintable, Sound, Stored
<1>2. CASE Rebuilding(w) /\ <<p.filed, p.listed>> # <<paint.filed, paint.listed>>
  <2>1. paint' = [p EXCEPT !.clashes = @ \union {"early"}]
    BY <1>2 DEF Paints
  <2> DEFINE q == [p EXCEPT !.clashes = @ \union {"early"}]
  <2>2. /\ q \in Paint /\ q.clashes = p.clashes \union {"early"} /\ q.painted = p.painted
        /\ q.last = p.last /\ q.loaded = p.loaded /\ q.views = p.views /\ q.match = p.match
        /\ q.reported = p.reported /\ q.pending = p.pending /\ q.landing = p.landing
    BY <1>1 DEF Paint
  <2> HIDE DEF q
  <2>3. Sound(q) /\ Truthful(q)
    BY <1>1, <2>2 DEF Sound, Stored, Truthful
  <2>4. PaintedFor(q, Rebuilding(w))
    BY <1>1, <2>2, <2>3 DEF PaintedFor
  <2> QED BY <2>1, <2>4 DEF q
<1>3. CASE Rebuilding(w) /\ <<p.filed, p.listed>> = <<paint.filed, paint.listed>>
  <2>1. paint' = p /\ p.filed = paint.filed
    BY <1>3 DEF Paints
  <2>2. ASSUME p.clashes = {} PROVE Bare(p)
    <3>1. Bare(paint)
      BY <1>1, <1>3, <2>2 DEF PaintedFor
    <3> QED BY <2>1, <3>1 DEF Bare, Filed
  <2>3. PaintedFor(p, Rebuilding(w))
    BY <1>1, <1>3, <2>2 DEF PaintedFor
  <2> QED BY <2>1, <2>3
<1>4. CASE ~Rebuilding(w)
  <2>1. paint' = p
    BY <1>4 DEF Paints
  <2>2. PaintedFor(p, Rebuilding(w))
    BY <1>1, <1>4 DEF PaintedFor, Repaintable
  <2> QED BY <2>1, <2>2
<1> QED BY <1>2, <1>3, <1>4

-----------------------------------------------------------------------------
(* The steps of the page.                                                     *)

(* What is asked for starts at most two transitions.                          *)
Framed(g) == IF g = "reanchor" THEN 1 ELSE 0
Delayed(l) == IF l.wanted # l.built THEN 1 ELSE 0
Afforded == (transition + Framed(geometry)) + Delayed(looks) <= 2 * asks

Paced ==
  /\ looks \in [wanted : Flows, built : Flows] /\ place \in Chapters \union {None}
  /\ geometry \in {"none", "plain", "reanchor"}
  /\ transition \in 0..(2 * MaxAsks) /\ asks \in 0..MaxAsks
  /\ shows.located => place # None
  /\ shows.opening \/ looks.wanted = looks.built
  /\ Afforded

PageInv ==
  /\ PaintedFor(paint, ToBePainted(shows))
  /\ InOrder(shows, transition)
  /\ Paced

LEMMA Sums ==
  ASSUME NEW t \in Nat, NEW f \in 0..1, NEW d \in 0..1, NEW a \in Nat, NEW m \in Nat,
         (t + f) + d <= 2 * a, a <= m
  PROVE  t <= 2 * a /\ t \in 0..(2 * m)
OBVIOUS

LEMMA Fewer ==
  ASSUME NEW t \in Nat, NEW f \in 0..1, NEW d \in 0..1, NEW a \in Nat, NEW b \in Nat, NEW u \in Nat,
         (t + f) + d <= 2 * a, a <= b, u <= t
  PROVE  (u + f) + d <= 2 * b
OBVIOUS

LEMMA Another ==
  ASSUME NEW t \in Nat, NEW f \in 0..1, NEW a \in Nat, NEW m \in Nat, (t + f) + 1 <= 2 * a, a <= m
  PROVE  ((t + 1) + f) + 0 <= 2 * a /\ t + 1 <= 2 * m /\ t + 1 \in Nat
OBVIOUS

LEMMA Reanchored ==
  ASSUME NEW t \in Nat, NEW f \in 0..1, NEW d \in 0..1, NEW a \in Nat, NEW m \in Nat,
         (t + f) + d <= 2 * a, a <= m, f = 1
  PROVE  t + 1 \in Nat /\ t + 1 <= 2 * m /\ ((t + 1) + 0) + d <= 2 * a /\ t <= t + 1 /\ t < t + 1
OBVIOUS

LEMMA AskedMore ==
  ASSUME NEW t \in Nat, NEW f \in 0..1, NEW d \in 0..1, NEW a \in Nat,
         (t + f) + d <= 2 * a
  PROVE  /\ \A g, h \in 0..1 : (t + g) + h <= 2 * (a + 1)
         /\ (t + f) + 1 <= 2 * (a + 1)
OBVIOUS

LEMMA EachIsOne ==
  /\ \A g : Framed(g) \in 0..1
  /\ \A l : Delayed(l) \in 0..1
BY DEF Framed, Delayed

LEMMA Pacing ==
  ASSUME looks' \in [wanted : Flows, built : Flows], place' \in Chapters \union {None},
         geometry' \in {"none", "plain", "reanchor"}, transition' \in Nat, asks' \in 0..MaxAsks,
         shows'.located => place' # None, shows'.opening \/ looks'.wanted = looks'.built, Afforded'
  PROVE  Paced'
<1> DEFINE f == Framed(geometry')
           d == Delayed(looks')
<1>1. f \in 0..1 /\ d \in 0..1 /\ (transition' + f) + d <= 2 * asks'
  BY EachIsOne DEF Afforded
<1> HIDE DEF f, d
<1>2. asks' \in Nat /\ asks' <= MaxAsks /\ MaxAsks \in Nat
  BY PageBoundAssumption
<1>3. transition' \in 0..(2 * MaxAsks)
  BY <1>1, <1>2, Sums
<1> QED BY <1>3 DEF Paced

(* The pace of a step that starts no transition and asks for no other flow.   *)
LEMMA KeepingPace ==
  ASSUME Paced, looks' = looks, place' = place, geometry' = geometry, transition' \in Nat,
         transition' <= transition, asks' \in asks..MaxAsks, shows'.opening = shows.opening,
         shows'.located => place # None
  PROVE  Paced'
<1>1. transition \in Nat /\ asks \in Nat /\ asks' \in Nat /\ asks' \in 0..MaxAsks /\ asks <= asks'
  BY PageBoundAssumption DEF Paced
<1>2. Afforded'
  <2> DEFINE f == Framed(geometry)
             d == Delayed(looks)
  <2>1. f \in 0..1 /\ d \in 0..1
    BY EachIsOne
  <2>2. (transition + f) + d <= 2 * asks
    BY DEF Paced, Afforded
  <2> HIDE DEF f, d
  <2>3. (transition' + f) + d <= 2 * asks'
    BY <1>1, <2>1, <2>2, Fewer
  <2> QED BY <2>3 DEF f, d, Afforded
<1> QED BY <1>1, <1>2, Pacing DEF Paced

LEMMA InvIs ==
  ASSUME PageInv
  PROVE  /\ PaintedFor(paint, ToBePainted(shows)) /\ ToBePainted(shows) \in BOOLEAN
         /\ Sound(paint) /\ paint \in Paint /\ InOrder(shows, transition) /\ shows \in Shows /\ Paced
         /\ transition \in Nat /\ asks \in Nat /\ asks \in asks..MaxAsks
         /\ shows.due = <<>> => (ToBePainted(shows) <=> Rebuilding(shows))
<1>1. ToBePainted(shows) \in BOOLEAN
  BY DEF ToBePainted
<1>2. transition \in Nat /\ asks \in Nat /\ asks \in asks..MaxAsks
  BY PageBoundAssumption DEF PageInv, Paced
<1>3. shows.due = <<>> => (ToBePainted(shows) <=> Rebuilding(shows))
  BY NoDisplay DEF ToBePainted
<1> QED BY <1>1, <1>2, <1>3 DEF PageInv, PaintedFor, Sound, Stored, InOrder

LEMMA InvFrom ==
  ASSUME NEW b \in BOOLEAN, PaintedFor(paint', b), b <=> ToBePainted(shows'),
         InOrder(shows', transition'), Paced'
  PROVE  PageInv'
<1>1. ToBePainted(shows') \in BOOLEAN
  BY DEF ToBePainted
<1>2. PaintedFor(paint', ToBePainted(shows'))
  BY <1>1
<1> QED BY <1>2 DEF PageInv

LEMMA Beginning == PageInit => PageInv
<1> SUFFICES ASSUME PageInit PROVE PageInv
  OBVIOUS
<1> DEFINE d == [kind |-> "open", chapter |-> 1, id |-> 0]
<1>1. /\ paint = [filed |-> [r \in Ranges |-> None], listed |-> [c \in Chapters |-> <<>>],
                  marks |-> <<>>, views |-> {}, loaded |-> {},
                  painted |-> {}, last |-> {}, match |-> None, pending |-> None, reported |-> None,
                  landing |-> FALSE, spoken |-> None, word |-> None, clashes |-> {}]
      /\ shows = [opening |-> TRUE, queue |-> <<d>>, current |-> None, due |-> <<>>,
                  late |-> <<>>, located |-> FALSE, report |-> FALSE]
  BY DEF PageInit
<1>2. <<>> \in Seq(Mark) /\ <<>> \in Seq(Ranges)
  BY EmptySeq
<1>3. paint \in Paint
  BY <1>1, <1>2 DEF Paint
<1>4. DOMAIN <<>> = {}
  <2>1. Len(<<>>) = 0 /\ DOMAIN <<>> = 1..Len(<<>>)
    BY <1>2, LenProperties, EmptySeq
  <2> QED BY <2>1
<1>5. \A o \in Owners : Filed(paint, o) = {}
  BY <1>1, RangeParts DEF Filed
<1>6. Listing(paint) /\ Marking(paint) /\ OnTop(paint)
  BY <1>1, <1>4 DEF Listing, Marking, OnTop, Once, Range
<1>7. Sound(paint) /\ Truthful(paint)
  <2>1. Stored(paint)
    BY <1>3, <1>6 DEF Stored
  <2>2. Truthful(paint)
    BY <1>1, RangeParts DEF Truthful
  <2> QED BY <1>1, <1>5, <2>1, <2>2 DEF Sound
<1>8. Complete(paint)
  <2>1. \A o \in Owners : Layer(paint, o) = {}
    <3>1. /\ Layer(paint, "user") = {} /\ Layer(paint, "search") = {}
          /\ Layer(paint, "sentence") = {} /\ Layer(paint, "word") = {}
      BY <1>1, LayerIs DEF RangesOfAll
    <3> QED BY <3>1 DEF Owners
  <2> QED BY <1>5, <2>1 DEF Complete
<1>9. PaintedFor(paint, FALSE)
  BY <1>1, <1>6, <1>7, <1>8 DEF PaintedFor
<1>10. d \in Display /\ ~Guarded(d) /\ d.kind # "rebuild"
  BY PageAssumption, PageBoundAssumption DEF Display, Awaited, Guarded
<1> HIDE DEF d
<1>11. <<d>> \in Seq(Display) /\ Range(<<d>>) = {d} /\ Ascends(<<d>>) /\ <<>> \in Seq(Display)
       /\ Range(<<>>) = {} /\ Ascends(<<>>)
  BY <1>10, OneDisplay, NoDisplay
<1>12. shows \in Shows
  BY <1>1, <1>11 DEF Shows
<1>13. Under(shows) = {}
  BY <1>1 DEF Under
<1>14. Pending(shows)
  BY <1>1, <1>11 DEF Pending
<1>15. InTurn(shows, transition)
  BY <1>1, <1>10, <1>11, <1>13 DEF InTurn, Ahead, Numbered
<1>16. ToBePainted(shows) = FALSE
  BY <1>1, <1>10, <1>11 DEF ToBePainted, Rebuilding
<1>17. Paced
  <2>1. looks \in [wanted : Flows, built : Flows] /\ looks.wanted = looks.built
    BY DEF PageInit
  <2>2. geometry = "none" /\ transition = 0 /\ asks = 0 /\ place = None /\ ~shows.located
    BY <1>1 DEF PageInit
  <2>3. Framed(geometry) = 0 /\ Delayed(looks) = 0
    BY <2>1, <2>2 DEF Framed, Delayed
  <2>4. Afforded
    BY <2>2, <2>3 DEF Afforded
  <2> QED BY <2>1, <2>2, <2>4, PageBoundAssumption DEF Paced
<1> QED BY <1>9, <1>12, <1>14, <1>15, <1>16, <1>17 DEF PageInv, InOrder

LEMMA Stuttering ==
  ASSUME PageInv, UNCHANGED pageVars
  PROVE  PageInv'
<1>1. paint' = paint /\ shows' = shows /\ looks' = looks /\ place' = place /\ geometry' = geometry
      /\ transition' = transition /\ asks' = asks
  BY DEF pageVars
<1>2. Paced'
  BY <1>1 DEF PageInv, Paced, Afforded
<1> QED BY <1>1, <1>2, InvIs, InvFrom

(* The rendition is made anew for another flow.                               *)
LEMMA Redoing ==
  ASSUME PageInv, NEW o, InOrder(o, transition), o.due = <<>>, NEW flow \in Flows,
         Rebuild(o, flow), place' = place, geometry' = geometry, asks' \in asks..MaxAsks,
         (transition + Framed(geometry)) + 1 <= 2 * asks'
  PROVE  PageInv'
<1> DEFINE t == transition
           c == IF place = None THEN 1 ELSE place
           f == Framed(geometry)
<1>1. Sound(paint) /\ PaintedFor(paint, ToBePainted(shows)) /\ Paced /\ t \in Nat /\ asks \in Nat
  BY InvIs
<1>2. c \in Chapters
  BY <1>1, PageAssumption DEF Paced
<1>3. f \in 0..1 /\ asks' \in Nat /\ asks' <= MaxAsks /\ MaxAsks \in Nat
  BY <1>1, EachIsOne, PageBoundAssumption
<1>4. (t + f) + 1 <= 2 * asks'
  OBVIOUS
<1>5. /\ looks' = [wanted |-> flow, built |-> flow] /\ transition' = t + 1
      /\ paint' = Unpainted(paint)
      /\ shows' = [o EXCEPT
           !.queue = <<[kind |-> "rebuild", chapter |-> c, id |-> t + 1]>>,
           !.late = @ \o At(o.queue, {i \in DOMAIN o.queue : o.queue[i].kind # "move"}),
           !.current = None, !.located = FALSE, !.report = FALSE]
  BY DEF Rebuild
<1> HIDE DEF c, f, t
<1>6. ((t + 1) + f) + 0 <= 2 * asks' /\ t + 1 <= 2 * MaxAsks /\ t + 1 \in Nat
  BY <1>1, <1>3, <1>4, Another
<1>7. InOrder(shows', t + 1) /\ ToBePainted(shows') /\ shows'.located = FALSE
  BY <1>1, <1>2, <1>5, <1>6, Remaking DEF t
<1>8. /\ Sound(paint') /\ Bare(paint') /\ paint'.clashes = paint.clashes
      /\ paint'.painted = paint.painted /\ paint'.last = paint.last
      /\ paint'.views = {} /\ paint'.loaded = {} /\ (Truthful(paint) => Truthful(paint'))
      /\ OnTop(paint')
  BY <1>1, <1>5, Unpainting
<1>9. PaintedFor(paint', TRUE)
  BY <1>1, <1>8 DEF PaintedFor
<1>10. Delayed(looks') = 0
  BY <1>5 DEF Delayed
<1>11. Afforded'
  BY <1>5, <1>6, <1>10 DEF Afforded, f
<1>12. Paced'
  BY <1>1, <1>3, <1>5, <1>6, <1>7, <1>11, Pacing DEF Paced
<1> QED BY <1>5, <1>7, <1>9, <1>12, InvFrom

(* What is due runs first: the book opens, or what is painted is painted      *)
(* again.                                                                     *)
LEMMA Opening ==
  ASSUME PageInv, NEW d, NEW w, Resumes(shows, transition, d, w), Opens(d, w)
  PROVE  PageInv'
<1> DEFINE t == transition
           o == [w EXCEPT !.opening = FALSE]
           f == Framed(geometry)
<1>1. /\ PaintedFor(paint, ToBePainted(shows)) /\ ToBePainted(shows) \in BOOLEAN /\ Paced
      /\ t \in Nat /\ asks \in Nat /\ asks \in asks..MaxAsks /\ shows \in Shows
  BY InvIs
<1>2. /\ InOrder(w, t) /\ w \in Shows /\ w.due = <<>> /\ w.opening = shows.opening
      /\ w.located = shows.located /\ (ToBePainted(shows) <=> ToBePainted(w))
  BY DEF Resumes, InOrder, Opens
<1>3. place' = place /\ geometry' = geometry /\ asks' = asks
  BY DEF Opens
<1>4. /\ o \in Shows /\ o.queue = w.queue /\ o.due = w.due /\ o.late = w.late
      /\ o.current = w.current /\ o.located = w.located /\ o.opening = FALSE
  BY <1>2 DEF Shows
<1>5. IF looks.built # looks.wanted THEN Rebuild(o, looks.wanted)
      ELSE shows' = o /\ paint' = paint /\ looks' = looks /\ transition' = transition
  BY DEF Opens
<1> HIDE DEF o, t
<1>6. InOrder(o, t) /\ (ToBePainted(o) <=> ToBePainted(w))
  BY <1>2, <1>4, Noting
<1>7. CASE looks.built = looks.wanted
  <2>1. Paced'
    BY <1>1, <1>2, <1>3, <1>4, <1>5, <1>7 DEF Paced, Afforded, t
  <2> QED BY <1>1, <1>2, <1>5, <1>6, <1>7, <2>1, InvFrom DEF t
<1>8. CASE looks.built # looks.wanted
  <2>1. Delayed(looks) = 1
    BY <1>8 DEF Delayed
  <2>2. (t + f) + 1 <= 2 * asks /\ looks.wanted \in Flows
    BY <1>1, <2>1 DEF Paced, Afforded, t
  <2> QED BY <1>1, <1>2, <1>3, <1>4, <1>5, <1>6, <1>8, <2>2, Redoing DEF t
<1> QED BY <1>7, <1>8

LEMMA SpokenAre ==
  ASSUME PageInv
  PROVE  SpokenTarget(paint) \in Ranges \union {None}
<1>1. paint \in Paint
  BY InvIs
<1> QED BY <1>1, RangeParts DEF SpokenTarget, Paint

(* A step that paints, and may go on to follow what is spoken.                *)
LEMMA PaintingSteps ==
  ASSUME PageInv, NEW p, NEW w, NEW t \in Nat, NEW r \in Ranges \union {None}, NEW x,
         InOrder(w, t), w.due = <<>>, Rebuilding(w) => ToBePainted(shows),
         w.opening = shows.opening, w.located = shows.located,
         Repaintable(w, p), Paints(w, p), shows' \in MayFollow(w, r, x),
         transition' = t, t <= transition, asks' \in asks..MaxAsks,
         looks' = looks, place' = place, geometry' = geometry
  PROVE  PageInv'
<1>1. /\ PaintedFor(paint, ToBePainted(shows)) /\ ToBePainted(shows) \in BOOLEAN /\ Paced
  BY InvIs
<1>2. PaintedFor(paint', Rebuilding(w)) /\ Rebuilding(w) \in BOOLEAN
  <2>1. Rebuilding(w) \in BOOLEAN
    BY DEF Rebuilding
  <2> QED BY <1>1, <2>1, Painting
<1>3. GoesOn(w, shows', t)
  BY FollowingAlong
<1>4. ToBePainted(w) <=> Rebuilding(w)
  BY NoDisplay DEF ToBePainted
<1>5. /\ InOrder(shows', t) /\ (ToBePainted(shows') <=> Rebuilding(w))
      /\ shows'.opening = shows.opening /\ shows'.located = shows.located
  BY <1>3, <1>4 DEF GoesOn
<1>6. Paced'
  BY <1>1, <1>5, KeepingPace DEF Paced
<1> QED BY <1>2, <1>5, <1>6, InvFrom

LEMMA PaintingAgain ==
  ASSUME PageInv, NEW d, NEW w, Resumes(shows, transition, d, w), Repaints(d, w)
  PROVE  PageInv'
<1> DEFINE t == transition
           u == AfterTransition(d.id)
           p == IF d.kind = "rebuild" THEN Rebuilt(paint) ELSE Repainted(paint)
<1>1. /\ PaintedFor(paint, ToBePainted(shows)) /\ Sound(paint) /\ t \in Nat /\ asks \in Nat /\ asks \in asks..MaxAsks
      /\ Truthful(paint) /\ paint.loaded \subseteq paint.views
  BY InvIs DEF PaintedFor
<1>2. /\ d \in Display /\ d.kind # "move" /\ d.id \in Nat /\ InOrder(w, t) /\ w.due = <<>>
      /\ Guarded(d) /\ d.id = t => InOrder(w, 0)
      /\ ToBePainted(shows) <=> d.kind = "rebuild" \/ Rebuilding(w)
      /\ w.opening = shows.opening /\ w.located = shows.located
  BY DEF Resumes
<1>3. Guarded(d)
  BY <1>2 DEF Repaints, Display, Awaited, Guarded
<1>4. u \in Nat /\ u <= t /\ InOrder(w, u)
  BY <1>1, <1>2, <1>3 DEF AfterTransition
<1>5. Repaintable(w, p)
  <2>1. CASE d.kind = "rebuild"
    <3>1. paint.clashes = {} => Bare(paint)
      BY <1>1, <1>2, <2>1 DEF PaintedFor
    <3> DEFINE q == Rebuilt(paint)
    <3>2. /\ Sound(q) /\ paint.clashes \subseteq q.clashes /\ q.views = paint.views
          /\ q.loaded = paint.loaded
          /\ q.painted \subseteq q.last /\ (Truthful(paint) => Truthful(q))
          /\ q.clashes = {} => Complete(q) /\ OnTop(q)
      BY <1>1, <3>1, RebuiltIs
    <3>3. p = q
      BY <2>1
    <3> HIDE DEF q, p
    <3>4. Repaintable(w, q)
      BY <1>1, <3>2 DEF Repaintable
    <3> QED BY <3>3, <3>4
  <2>2. CASE d.kind # "rebuild"
    <3>1. Keeps(paint, p) /\ Above(paint, p)
      BY <1>1, <2>2, Repainting
    <3>2. ToBePainted(shows) <=> Rebuilding(w)
      BY <1>2, <2>2
    <3>3. ToBePainted(shows) \in BOOLEAN
      BY DEF ToBePainted
    <3> HIDE DEF p
    <3> QED BY <1>1, <3>1, <3>2, <3>3, KeptRepaintable
  <2> QED BY <2>1, <2>2
<1>6. /\ Paints(w, p) /\ transition' = u /\ shows' \in MayFollow(w, SpokenTarget(paint), transition')
      /\ looks' = looks /\ place' = place /\ geometry' = geometry /\ asks' = asks
  BY DEF Repaints
<1>7. SpokenTarget(paint) \in Ranges \union {None} /\ (Rebuilding(w) => ToBePainted(shows))
  BY <1>2, SpokenAre
<1> HIDE DEF u, p
<1> QED BY <1>1, <1>2, <1>4, <1>5, <1>6, <1>7, PaintingSteps

LEMMA Continuing ==
  ASSUME PageInv, Continue
  PROVE  PageInv'
<1> DEFINE d == Head(shows.due)
           w == [shows EXCEPT !.due = Tail(@)]
<1>1. shows.due # <<>> /\ (Opens(d, w) \/ Repaints(d, w))
  BY DEF Continue
<1>2. InOrder(shows, transition) /\ transition \in Nat
  BY InvIs
<1>3. Resumes(shows, transition, d, w)
  BY <1>1, <1>2, Resuming
<1> HIDE DEF d, w
<1> QED BY <1>1, <1>3, Opening, PaintingAgain

(* The displays go on, and what is painted stays.                             *)
LEMMA GoingOn ==
  ASSUME PageInv, GoesOn(shows, shows', transition), transition' = transition, looks' = looks,
         place' = place, geometry' = geometry, asks' \in asks..MaxAsks,
         PaintedFor(paint', ToBePainted(shows))
  PROVE  PageInv'
<1>1. Paced /\ transition \in Nat /\ ToBePainted(shows) \in BOOLEAN
  BY InvIs
<1>2. /\ InOrder(shows', transition) /\ (ToBePainted(shows') <=> ToBePainted(shows))
      /\ shows'.opening = shows.opening /\ shows'.located = shows.located
  BY DEF GoesOn
<1>3. Paced'
  BY <1>1, <1>2, KeepingPace DEF Paced
<1> QED BY <1>1, <1>2, <1>3, InvFrom

LEMMA Resting ==
  ASSUME PageInv
  PROVE  GoesOn(shows, shows, transition)
BY InvIs DEF GoesOn

(* A step may have what is shown reported.                                    *)
LEMMA Reporting ==
  ASSUME NEW w, NEW q, NEW t, GoesOn(w, q, t), NEW b \in BOOLEAN
  PROVE  GoesOn(w, [q EXCEPT !.report = b], t)
<1> DEFINE s == [q EXCEPT !.report = b]
<1>1. InOrder(q, t) /\ q \in Shows
  BY DEF GoesOn, InOrder
<1>2. /\ s \in Shows /\ s.queue = q.queue /\ s.due = q.due /\ s.late = q.late /\ s.current = q.current
      /\ s.opening = q.opening /\ s.located = q.located
  BY <1>1 DEF Shows
<1> HIDE DEF s
<1>3. InOrder(s, t) /\ (ToBePainted(s) <=> ToBePainted(q))
  BY <1>1, <1>2, Noting
<1>4. GoesOn(w, s, t)
  BY <1>2, <1>3 DEF GoesOn
<1> QED BY <1>4 DEF s

LEMMA SettlingLate ==
  ASSUME PageInv, SettleLate
  PROVE  PageInv'
<1>1. /\ shows.due = <<>> /\ shows.late # <<>>
      /\ shows' = [shows EXCEPT !.due = <<Head(shows.late)>>, !.late = Tail(@)]
      /\ UNCHANGED <<paint, looks, place, geometry, transition, asks>>
  BY DEF SettleLate, NothingDue
<1>2. InOrder(shows, transition) /\ PaintedFor(paint, ToBePainted(shows)) /\ asks \in asks..MaxAsks
  BY InvIs
<1>3. GoesOn(shows, shows', transition)
  BY <1>1, <1>2, ComingLate
<1> QED BY <1>1, <1>2, <1>3, GoingOn

LEMMA StartingDisplay ==
  ASSUME PageInv, StartDisplay
  PROVE  PageInv'
<1> DEFINE d == Head(shows.queue)
           w == [shows EXCEPT !.queue = Tail(@), !.current = Head(shows.queue)]
<1>1. /\ shows.due = <<>> /\ shows.late = <<>> /\ shows.queue # <<>> /\ shows.current = None
      /\ UNCHANGED <<looks, place, geometry, transition, asks>>
      /\ IF d.chapter \in paint.loaded
         THEN /\ shows' = [Settled(w) EXCEPT !.report = TRUE]
              /\ paint' = paint
         ELSE /\ shows' = w
              /\ paint' = [paint EXCEPT !.views = {d.chapter}, !.loaded = {}, !.marks = <<>>]
  BY DEF StartDisplay, NothingDue
<1>2. /\ InOrder(shows, transition) /\ PaintedFor(paint, ToBePainted(shows)) /\ asks \in asks..MaxAsks
      /\ shows \in Shows /\ Sound(paint)
  BY InvIs
<1>3. d.chapter \in Chapters
  <2>1. d \in Display
    BY <1>1, <1>2, ShowsAre, Heading
  <2> QED BY <2>1 DEF Display
<1>4. GoesOn(shows, w, transition) /\ w.due = <<>>
  BY <1>1, <1>2, Turning
<1> HIDE DEF w, d
<1>5. CASE d.chapter \in paint.loaded
  <2>1. GoesOn(w, Settled(w), transition)
    BY <1>4, Settling DEF GoesOn
  <2>2. GoesOn(shows, Settled(w), transition)
    BY <1>4, <2>1 DEF GoesOn
  <2>3. shows' = [Settled(w) EXCEPT !.report = TRUE] /\ paint' = paint
    BY <1>1, <1>5
  <2>4. GoesOn(shows, shows', transition)
    BY <2>2, <2>3, Reporting
  <2> QED BY <1>1, <1>2, <2>3, <2>4, GoingOn
<1>6. CASE d.chapter \notin paint.loaded
  <2>1. {d.chapter} \in SUBSET Chapters
    BY <1>3
  <2>2. paint' = [paint EXCEPT !.views = {d.chapter}, !.loaded = {}, !.marks = <<>>]
    BY <1>1, <1>6
  <2>3. Stays(paint, paint') /\ paint'.loaded = {}
    BY <1>2, <2>1, <2>2, TakingDown
  <2>4. PaintedFor(paint', ToBePainted(shows))
    BY <1>2, <2>3, StayedPainted
  <2> QED BY <1>1, <1>2, <1>4, <1>6, <2>4, GoingOn
<1> QED BY <1>5, <1>6

LEMMA LoadingViews ==
  ASSUME PageInv, NEW c \in Chapters, LoadView(c)
  PROVE  PageInv'
<1> DEFINE i == Injected(Loading(paint, c), c)
           s == IF looks.built = "paginated" THEN Settled(shows) ELSE shows
<1>1. /\ shows.due = <<>> /\ c \in paint.views /\ c \notin paint.loaded
      /\ paint' = Retried(i) /\ shows' = [s EXCEPT !.report = TRUE]
      /\ UNCHANGED <<looks, place, geometry, transition, asks>>
  BY DEF LoadView, NothingDue, Loading
<1>2. /\ InOrder(shows, transition) /\ PaintedFor(paint, ToBePainted(shows)) /\ asks \in asks..MaxAsks
      /\ Sound(paint) /\ ToBePainted(shows) \in BOOLEAN
      /\ Truthful(paint) /\ paint.painted \subseteq paint.last /\ paint.loaded \subseteq paint.views
  BY InvIs DEF PaintedFor
<1>3. /\ Sound(i) /\ i.clashes = paint.clashes /\ i.views = paint.views
      /\ i.loaded = paint.loaded \union {c}
      /\ i.painted = paint.painted /\ i.last = paint.last /\ (Truthful(paint) => Truthful(i))
      /\ \A o \in Owners : Filed(i, o) = Filed(paint, o) /\ Layer(i, o) = Layer(paint, o)
      /\ i.clashes = {} /\ OnTop(paint) => OnTop(i)
  BY <1>1, <1>2, Injecting
<1>4. GoesOn(shows, s, transition)
  BY <1>1, <1>2, Settling, Resting
<1>5. GoesOn(shows, shows', transition)
  BY <1>1, <1>4, Reporting
<1> HIDE DEF i, s
<1>6. PaintedFor(i, ToBePainted(shows))
  <2>1. Stays(paint, i)
    BY <1>3 DEF Stays
  <2> QED BY <1>1, <1>2, <1>3, <2>1, StayedPainted
<1>7. PaintedFor(paint', ToBePainted(shows))
  <2>1. Keeps(i, paint') /\ Above(i, paint') /\ Spares(i, paint')
    BY <1>1, <1>3, Retrying
  <2> QED BY <1>2, <1>6, <2>1, SparedPainted
<1> QED BY <1>1, <1>2, <1>5, <1>7, GoingOn

LEMMA FillingScreen ==
  ASSUME PageInv, SettleFilled
  PROVE  PageInv'
<1>1. /\ shows.due = <<>> /\ shows' = [Settled(shows) EXCEPT !.report = TRUE]
      /\ UNCHANGED <<paint, looks, place, geometry, transition, asks>>
  BY DEF SettleFilled, NothingDue
<1>2. InOrder(shows, transition) /\ PaintedFor(paint, ToBePainted(shows)) /\ asks \in asks..MaxAsks
  BY InvIs
<1>3. GoesOn(shows, Settled(shows), transition)
  BY <1>1, <1>2, Settling
<1>4. GoesOn(shows, shows', transition)
  BY <1>1, <1>3, Reporting
<1> QED BY <1>1, <1>2, <1>4, GoingOn

LEMMA ScrollingViewsIn ==
  ASSUME PageInv, NEW c \in Chapters, ScrollIn(c)
  PROVE  PageInv'
<1>1. /\ paint' = [paint EXCEPT !.views = @ \union {c}]
      /\ UNCHANGED <<looks, shows, place, geometry, transition, asks>>
  BY DEF ScrollIn
<1>2. /\ PaintedFor(paint, ToBePainted(shows)) /\ asks \in asks..MaxAsks /\ Sound(paint)
      /\ paint.loaded \subseteq paint.views
  BY InvIs DEF PaintedFor
<1>3. Stays(paint, paint') /\ paint'.views = paint.views \union {c} /\ paint'.loaded = paint.loaded
  BY <1>1, <1>2, ScrollingIn
<1>4. PaintedFor(paint', ToBePainted(shows))
  BY <1>2, <1>3, StayedPainted
<1> QED BY <1>1, <1>2, <1>4, Resting, GoingOn

LEMMA ScrollingViewsOut ==
  ASSUME PageInv, NEW c \in Chapters, ScrollOut(c)
  PROVE  PageInv'
<1>1. /\ paint' = [paint EXCEPT !.views = @ \ {c}, !.loaded = @ \ {c},
                            !.marks = At(@, {i \in DOMAIN @ : @[i].range.chapter # c})]
      /\ UNCHANGED <<looks, shows, place, geometry, transition, asks>>
  BY DEF ScrollOut
<1>2. /\ PaintedFor(paint, ToBePainted(shows)) /\ asks \in asks..MaxAsks /\ Sound(paint)
      /\ paint.loaded \subseteq paint.views
  BY InvIs DEF PaintedFor
<1>3. Stays(paint, paint') /\ paint'.views = paint.views \ {c} /\ paint'.loaded = paint.loaded \ {c}
  BY <1>1, <1>2, ScrollingOut
<1>4. PaintedFor(paint', ToBePainted(shows))
  BY <1>2, <1>3, StayedPainted
<1> QED BY <1>1, <1>2, <1>4, Resting, GoingOn

(* The place was reached, and the host is told of a match that is not there.  *)
LEMMA Landing ==
  ASSUME NEW p, NEW b \in BOOLEAN, PaintedFor(p, b)
  PROVE  PaintedFor(Landed(p), b)
<1> DEFINE q == Landed(p)
<1>1. p \in Paint /\ Stored(p) /\ Sound(p) /\ Truthful(p)
  BY DEF PaintedFor, Sound, Stored
<1>2. /\ q \in Paint /\ q.filed = p.filed /\ q.listed = p.listed /\ q.marks = p.marks
      /\ q.views = p.views /\ q.loaded = p.loaded /\ q.painted = p.painted /\ q.last = p.last
      /\ q.match = p.match /\ q.spoken = p.spoken /\ q.word = p.word /\ q.clashes = p.clashes
      /\ q.pending = p.pending /\ q.landing = FALSE
      /\ q.reported = IF p.landing /\ p.match = None /\ p.pending # None THEN FALSE ELSE p.reported
  BY <1>1 DEF Landed, Reports, Paint
<1> HIDE DEF q
<1>3. Stored(q) /\ (\A o \in Owners : Filed(q, o) = Filed(p, o)) /\ (OnTop(p) => OnTop(q))
  BY <1>1, <1>2, Remembered
<1>4. \A o \in Owners : Layer(q, o) = Layer(p, o)
  BY <1>2 DEF Layer
<1>5. Sound(q)
  BY <1>1, <1>2, <1>3, <1>4 DEF Sound
<1>6. Truthful(q)
  BY <1>1, <1>2, RangeParts DEF Truthful, Paint
<1>7. Stays(p, q) /\ q.loaded \subseteq q.views
  BY <1>2, <1>3, <1>4, <1>5, <1>6 DEF Stays, PaintedFor
<1>8. PaintedFor(q, b)
  BY <1>7, StayedPainted
<1> QED BY <1>8 DEF q

LEMMA Relocating ==
  ASSUME PageInv, Relocated
  PROVE  PageInv'
<1>1. /\ shows' = [shows EXCEPT !.report = FALSE, !.located = @ \/ paint.loaded # {}]
      /\ IF paint.loaded = {} THEN UNCHANGED <<paint, place>>
         ELSE place' \in paint.loaded /\ paint' = Landed(Retried(paint))
      /\ UNCHANGED <<looks, geometry, transition, asks>>
  BY DEF Relocated
<1>2. /\ InOrder(shows, transition) /\ PaintedFor(paint, ToBePainted(shows))
      /\ Sound(paint) /\ ToBePainted(shows) \in BOOLEAN /\ paint \in Paint /\ shows \in Shows /\ Paced
      /\ transition \in Nat
  BY InvIs
<1>3. /\ shows' \in Shows /\ shows'.queue = shows.queue /\ shows'.due = shows.due
      /\ shows'.late = shows.late /\ shows'.current = shows.current /\ shows'.opening = shows.opening
      /\ shows'.located <=> (shows.located \/ paint.loaded # {})
  BY <1>1, <1>2 DEF Shows
<1>4. InOrder(shows', transition) /\ (ToBePainted(shows') <=> ToBePainted(shows))
  BY <1>2, <1>3, Noting
<1>5. PaintedFor(paint', ToBePainted(shows))
  <2>1. CASE paint.loaded = {}
    BY <1>1, <1>2, <2>1
  <2>2. CASE paint.loaded # {}
    <3>1. Keeps(paint, Retried(paint)) /\ Above(paint, Retried(paint)) /\ Spares(paint, Retried(paint))
      BY <1>2, Retrying
    <3>2. PaintedFor(Retried(paint), ToBePainted(shows))
      BY <1>2, <3>1, SparedPainted
    <3> QED BY <1>1, <1>2, <2>2, <3>2, Landing
  <2> QED BY <2>1, <2>2
<1>6. /\ place' \in Chapters \union {None} /\ (shows'.located => place' # None)
  <2>1. CASE paint.loaded = {}
    BY <1>1, <1>2, <1>3, <2>1 DEF Paced
  <2>2. CASE paint.loaded # {}
    <3>1. place' \in Chapters
      BY <1>1, <1>2, <2>2 DEF Paint
    <3>2. None \notin Chapters
      BY AbsenceAssumption
    <3> QED BY <3>1, <3>2
  <2> QED BY <2>1, <2>2
<1>7. Paced'
  BY <1>1, <1>2, <1>3, <1>6 DEF Paced, Afforded
<1> QED BY <1>1, <1>2, <1>4, <1>5, <1>7, InvFrom

LEMMA Framing ==
  ASSUME PageInv, GeometryFrame
  PROVE  PageInv'
<1> DEFINE t == transition
<1>1. /\ shows.due = <<>> /\ geometry # "none" /\ geometry' = "none"
      /\ UNCHANGED <<looks, place, asks>>
      /\ IF geometry = "reanchor" /\ place # None /\ ~shows.opening
         THEN /\ transition' = t + 1
              /\ shows' = Displayed(shows, "reanchor", place, t + 1)
              /\ paint' = paint
         ELSE /\ Paints(shows, Repainted(paint))
              /\ shows' \in MayFollow(shows, SpokenTarget(paint), t)
              /\ transition' = t
  BY DEF GeometryFrame, NothingDue
<1>2. /\ InOrder(shows, t) /\ PaintedFor(paint, ToBePainted(shows)) /\ Sound(paint)
      /\ ToBePainted(shows) \in BOOLEAN /\ Paced /\ t \in Nat /\ asks \in Nat
      /\ ToBePainted(shows) <=> Rebuilding(shows)
  BY <1>1, InvIs
<1> DEFINE f == Framed(geometry)
           e == Delayed(looks)
<1>3. /\ f \in 0..1 /\ e \in 0..1 /\ (t + f) + e <= 2 * asks /\ Framed(geometry') = 0
      /\ asks <= MaxAsks /\ MaxAsks \in Nat
  BY <1>1, <1>2, EachIsOne, PageBoundAssumption DEF Paced, Afforded, Framed
<1>4. CASE geometry = "reanchor" /\ place # None /\ ~shows.opening
  <2>1. f = 1
    BY <1>4 DEF Framed
  <2>2. t + 1 \in Nat /\ t + 1 <= 2 * MaxAsks /\ ((t + 1) + 0) + e <= 2 * asks /\ t <= t + 1 /\ t < t + 1
    <3> HIDE DEF f, e, t
    <3> QED BY <1>2, <1>3, <2>1, Reanchored
  <2>3. [kind |-> "reanchor", chapter |-> place, id |-> t + 1] \in Display
    BY <1>2, <1>4, <2>2, PageBoundAssumption DEF Display, Awaited, Paced
  <2>4. GoesOn(shows, Displayed(shows, "reanchor", place, t + 1), t + 1)
    BY <1>1, <1>2, <2>2, <2>3, Showing
  <2>5. GoesOn(shows, shows', t + 1)
    BY <1>1, <1>4, <2>4
  <2>6. /\ InOrder(shows', t + 1) /\ (ToBePainted(shows') <=> ToBePainted(shows))
        /\ shows'.opening = shows.opening /\ shows'.located = shows.located
    BY <2>5 DEF GoesOn
  <2>7. Afforded'
    BY <1>1, <1>3, <1>4, <2>2 DEF Afforded
  <2>8. Paced'
    BY <1>1, <1>2, <1>4, <2>2, <2>6, <2>7, Pacing DEF Paced
  <2> QED BY <1>1, <1>2, <1>4, <2>6, <2>8, InvFrom
<1>5. CASE ~(geometry = "reanchor" /\ place # None /\ ~shows.opening)
  <2>1. /\ Paints(shows, Repainted(paint)) /\ shows' \in MayFollow(shows, SpokenTarget(paint), t)
        /\ transition' = t
    BY <1>1, <1>5
  <2>2. Keeps(paint, Repainted(paint)) /\ Above(paint, Repainted(paint))
    BY <1>2, Repainting
  <2>3. Repaintable(shows, Repainted(paint))
    BY <1>2, <2>2, KeptRepaintable
  <2>4. PaintedFor(paint', Rebuilding(shows)) /\ Rebuilding(shows) \in BOOLEAN
    BY <1>2, <2>1, <2>3, Painting DEF Rebuilding
  <2>5. GoesOn(shows, shows', t)
    BY <1>1, <1>2, <2>1, SpokenAre, FollowingAlong
  <2>6. /\ InOrder(shows', t) /\ (ToBePainted(shows') <=> ToBePainted(shows))
        /\ shows'.opening = shows.opening /\ shows'.located = shows.located
    BY <2>5 DEF GoesOn
  <2>7. (t + 0) + e <= 2 * asks
    <3> HIDE DEF f, e, t
    <3> QED BY <1>2, <1>3
  <2>8. Afforded'
    BY <1>1, <1>3, <2>1, <2>7 DEF Afforded
  <2>9. Paced'
    BY <1>1, <1>2, <2>1, <2>6, <2>8, Pacing DEF Paced
  <2> QED BY <1>2, <2>1, <2>4, <2>6, <2>9, InvFrom
<1> QED BY <1>4, <1>5

-----------------------------------------------------------------------------
(* What is asked for.                                                         *)

LEMMA Changing ==
  ASSUME PageInv, Change
  PROVE  /\ shows.due = <<>> /\ asks' = asks + 1 /\ asks' \in asks..MaxAsks /\ asks' \in 0..MaxAsks
         /\ InOrder(shows, transition) /\ PaintedFor(paint, ToBePainted(shows)) /\ Sound(paint)
         /\ ToBePainted(shows) \in BOOLEAN /\ Paced /\ transition \in Nat /\ asks \in Nat
         /\ ToBePainted(shows) <=> Rebuilding(shows)
<1>1. asks \in Nat /\ MaxAsks \in Nat /\ asks < MaxAsks /\ asks' = asks + 1
  BY InvIs, PageBoundAssumption DEF Change
<1>2. asks' \in asks..MaxAsks /\ asks' \in 0..MaxAsks
  BY <1>1
<1> QED BY <1>1, <1>2, InvIs DEF Change, NothingDue

(* A frame may be asked for, and another flow while the book opens.           *)
LEMMA PacingChange ==
  ASSUME PageInv, Change, transition' = transition, place' = place,
         geometry' \in {"none", "plain", "reanchor"}, looks' \in [wanted : Flows, built : Flows],
         shows'.opening \/ looks'.wanted = looks'.built, shows'.located => place # None
  PROVE  Paced'
<1> DEFINE t == transition
           f == Framed(geometry)
           e == Delayed(looks)
           g == Framed(geometry')
           h == Delayed(looks')
<1>1. /\ asks' = asks + 1 /\ asks' \in 0..MaxAsks /\ Paced /\ t \in Nat /\ asks \in Nat
  BY Changing
<1>2. f \in 0..1 /\ e \in 0..1 /\ g \in 0..1 /\ h \in 0..1 /\ (t + f) + e <= 2 * asks
  BY <1>1, EachIsOne DEF Paced, Afforded
<1>3. (t + g) + h <= 2 * (asks + 1)
  <2> HIDE DEF t, f, e, g, h
  <2> QED BY <1>1, <1>2, AskedMore
<1>4. Afforded'
  BY <1>1, <1>3 DEF Afforded
<1> QED BY <1>1, <1>4, Pacing DEF Paced

LEMMA Asking ==
  ASSUME PageInv, NEW b, AskFrame(b)
  PROVE  geometry' \in {"none", "plain", "reanchor"}
BY InvIs DEF AskFrame, Paced

LEMMA ResizingContents ==
  ASSUME PageInv, ResizeContents
  PROVE  PageInv'
<1>1. Change /\ AskFrame(FALSE) /\ UNCHANGED <<paint, looks, shows, place, transition>>
  BY DEF ResizeContents
<1>2. InOrder(shows, transition) /\ PaintedFor(paint, ToBePainted(shows)) /\ ToBePainted(shows) \in BOOLEAN /\ Paced
  BY <1>1, Changing
<1>3. Paced'
  BY <1>1, <1>2, Asking, PacingChange DEF Paced
<1> QED BY <1>1, <1>2, <1>3, InvFrom

LEMMA ResizingWindow ==
  ASSUME PageInv, ResizeWindow
  PROVE  PageInv'
<1>1. /\ Change /\ AskFrame(FALSE) /\ UNCHANGED <<looks, place, transition>>
      /\ paint' = [paint EXCEPT !.views = {}, !.loaded = {}, !.marks = <<>>]
      /\ shows' = IF shows.located THEN Displayed(shows, "move", place, 0) ELSE shows
  BY DEF ResizeWindow
<1>2. /\ InOrder(shows, transition) /\ PaintedFor(paint, ToBePainted(shows)) /\ Sound(paint) /\ Paced
      /\ shows.due = <<>> /\ transition \in Nat /\ ToBePainted(shows) \in BOOLEAN
  BY <1>1, Changing
<1>3. PaintedFor(paint', ToBePainted(shows))
  <2>1. Stays(paint, paint') /\ paint'.loaded = {}
    BY <1>1, <1>2, TakingDown
  <2> QED BY <1>2, <2>1, StayedPainted
<1>4. GoesOn(shows, shows', transition)
  <2>1. CASE shows.located
    <3>1. place \in Chapters
      BY <1>2, <2>1 DEF Paced
    <3>2. [kind |-> "move", chapter |-> place, id |-> 0] \in Display
      BY <3>1, PageBoundAssumption DEF Display
    <3> QED BY <1>1, <1>2, <2>1, <3>2, Showing
  <2>2. CASE ~shows.located
    BY <1>1, <2>2, Resting
  <2> QED BY <2>1, <2>2
<1>5. /\ InOrder(shows', transition) /\ (ToBePainted(shows') <=> ToBePainted(shows))
      /\ shows'.opening = shows.opening /\ shows'.located = shows.located
  BY <1>4 DEF GoesOn
<1>6. Paced'
  BY <1>1, <1>2, <1>5, Asking, PacingChange DEF Paced
<1> QED BY <1>1, <1>2, <1>3, <1>5, <1>6, InvFrom

LEMMA ApplyingAppearance ==
  ASSUME PageInv, ApplyAppearance
  PROVE  PageInv'
<1>1. Change /\ place' = place
  BY DEF ApplyAppearance
<1>2. /\ InOrder(shows, transition) /\ PaintedFor(paint, ToBePainted(shows)) /\ Paced
      /\ shows.due = <<>> /\ ToBePainted(shows) \in BOOLEAN
      /\ asks' = asks + 1 /\ asks' \in asks..MaxAsks /\ transition \in Nat /\ asks \in Nat
  BY <1>1, Changing
<1>3. PICK flow \in Flows, relaid \in BOOLEAN :
        IF flow # looks.built /\ ~shows.opening
        THEN Rebuild(shows, flow) /\ geometry' = geometry
        ELSE /\ looks' = [looks EXCEPT !.wanted = flow]
             /\ AskFrame(relaid \/ flow # looks.wanted)
             /\ UNCHANGED <<paint, shows, transition>>
  BY DEF ApplyAppearance
<1>4. CASE flow # looks.built /\ ~shows.opening
  <2> DEFINE t == transition
             f == Framed(geometry)
             e == Delayed(looks)
  <2>1. t \in Nat /\ asks \in Nat /\ f \in 0..1 /\ e \in 0..1 /\ (t + f) + e <= 2 * asks
    BY <1>2, EachIsOne DEF Paced, Afforded
  <2>2. (t + f) + 1 <= 2 * (asks + 1)
    <3> HIDE DEF t, f, e
    <3> QED BY <2>1, AskedMore
  <2> QED BY <1>1, <1>2, <1>3, <1>4, <2>2, Redoing
<1>5. CASE ~(flow # looks.built /\ ~shows.opening)
  <2>1. /\ looks' = [looks EXCEPT !.wanted = flow] /\ AskFrame(relaid \/ flow # looks.wanted)
        /\ paint' = paint /\ shows' = shows /\ transition' = transition
    BY <1>3, <1>5
  <2>2. /\ looks' \in [wanted : Flows, built : Flows]
        /\ shows'.opening \/ looks'.wanted = looks'.built
    BY <1>2, <1>5, <2>1 DEF Paced
  <2>3. geometry' \in {"none", "plain", "reanchor"}
    BY <2>1, Asking
  <2>4. Paced'
    BY <1>1, <1>2, <2>1, <2>2, <2>3, PacingChange DEF Paced
  <2> QED BY <1>2, <2>1, <2>4, InvFrom
<1> QED BY <1>4, <1>5

LEMMA Remembering ==
  ASSUME NEW p, Sound(p), NEW q \in Paint, q.filed = p.filed, q.listed = p.listed,
         q.marks = p.marks, q.loaded = p.loaded, q.clashes = p.clashes, q.painted = p.painted,
         q.match = p.match, q.spoken = p.spoken, q.word = p.word
  PROVE  /\ Sound(q) /\ \A o \in Owners : Filed(q, o) = Filed(p, o) /\ Layer(q, o) = Layer(p, o)
         /\ OnTop(p) => OnTop(q)
<1>1. Stored(q) /\ (\A o \in Owners : Filed(q, o) = Filed(p, o)) /\ (OnTop(p) => OnTop(q))
  BY Remembered DEF Sound
<1>2. \A o \in Owners : Layer(q, o) = Layer(p, o)
  BY DEF Layer
<1> QED BY <1>1, <1>2 DEF Sound

LEMMA PaintedOnly ==
  ASSUME PageInv, Change, UNCHANGED <<looks, shows, place, geometry, transition>>,
         NEW p, Repaintable(shows, p), Paints(shows, p)
  PROVE  PageInv'
<1>1. /\ InOrder(shows, transition) /\ shows.due = <<>> /\ transition \in Nat
      /\ (ToBePainted(shows) <=> Rebuilding(shows)) /\ asks' \in asks..MaxAsks
  BY Changing
<1>2. shows' \in MayFollow(shows, None, transition) /\ transition <= transition
  BY <1>1 DEF MayFollow
<1> QED BY <1>1, <1>2, PaintingSteps

LEMMA PaintingHighlights ==
  ASSUME PageInv, PaintHighlights
  PROVE  PageInv'
<1>1. Change /\ UNCHANGED <<looks, shows, place, geometry, transition>>
  BY DEF PaintHighlights, Command
<1>2. PICK S \in SUBSET Highlights :
        LET q == HighlightsApplied([paint EXCEPT !.last = S])
        IN Paints(shows, IF S \subseteq paint.painted THEN q ELSE SpokenLifted(MatchLifted(q)))
  BY DEF PaintHighlights
<1>3. /\ InOrder(shows, transition) /\ PaintedFor(paint, ToBePainted(shows)) /\ Sound(paint)
      /\ ToBePainted(shows) \in BOOLEAN /\ Paced /\ transition \in Nat /\ shows.due = <<>>
      /\ ToBePainted(shows) <=> Rebuilding(shows)
      /\ asks' \in asks..MaxAsks /\ Truthful(paint) /\ paint.loaded \subseteq paint.views
  BY <1>1, Changing DEF PaintedFor
<1> DEFINE n == [paint EXCEPT !.last = S]
           q == HighlightsApplied(n)
           m == MatchLifted(q)
           l == SpokenLifted(m)
           p == IF S \subseteq paint.painted THEN q ELSE l
<1>4. Paints(shows, p)
  BY <1>2
<1>5. /\ n \in Paint /\ n.filed = paint.filed /\ n.listed = paint.listed /\ n.marks = paint.marks
      /\ n.loaded = paint.loaded /\ n.views = paint.views /\ n.clashes = paint.clashes
      /\ n.painted = paint.painted /\ n.match = paint.match /\ n.spoken = paint.spoken
      /\ n.word = paint.word /\ n.reported = paint.reported /\ n.pending = paint.pending
      /\ n.landing = paint.landing
  BY <1>3 DEF Sound, Stored, Paint
<1> HIDE DEF n
<1>6. /\ Sound(n) /\ (\A o \in Owners : Filed(n, o) = Filed(paint, o) /\ Layer(n, o) = Layer(paint, o))
      /\ OnTop(paint) => OnTop(n)
  BY <1>3, <1>5, Remembering
<1>7. Truthful(n)
  BY <1>3, <1>5 DEF Truthful
<1>8. Keeps(n, q) /\ Above(n, q) /\ q.painted \subseteq q.last
  BY <1>6, HighlightsApplying
<1> HIDE DEF q
<1>9. Keeps(q, m) /\ Above(q, m)
  BY <1>8, MatchLifting DEF Keeps
<1> HIDE DEF m
<1>10. Keeps(m, l) /\ Above(m, l)
  BY <1>9, SpokenLifting DEF Keeps
<1> HIDE DEF l
<1>11. Keeps(n, p) /\ Above(n, p) /\ p.painted \subseteq p.last
  <2>1. CASE S \subseteq paint.painted
    BY <1>8, <2>1
  <2>2. CASE ~(S \subseteq paint.painted)
    <3>1. Keeps(q, l) /\ Above(q, l)
      BY <1>9, <1>10, KeepsOn
    <3>2. Keeps(n, l) /\ Above(n, l)
      BY <1>8, <3>1, KeepsOn
    <3>3. l.painted \subseteq l.last
      BY <1>8, <3>1 DEF Keeps
    <3> QED BY <2>2, <3>2, <3>3
  <2> QED BY <2>1, <2>2
<1> HIDE DEF p
<1>12. Repaintable(shows, p)
  <2>1. /\ Sound(p) /\ Truthful(p) /\ p.loaded \subseteq p.views /\ p.painted \subseteq p.last
        /\ paint.clashes \subseteq p.clashes
    BY <1>3, <1>5, <1>7, <1>11 DEF Keeps
  <2>2. p.clashes = {} => OnTop(p)
    BY <1>3, <1>6, <1>11, <2>1 DEF PaintedFor, Above
  <2>3. ASSUME p.clashes = {}, ~Rebuilding(shows) PROVE Complete(p)
    <3>1. Complete(paint)
      BY <1>3, <2>1, <2>3 DEF PaintedFor
    <3> QED BY <1>6, <1>11, <2>3, <3>1 DEF Complete, Keeps
  <2> QED BY <2>1, <2>2, <2>3 DEF Repaintable
<1> QED BY <1>1, <1>3, <1>4, <1>12, PaintedOnly

LEMMA PaintingSearchMatch ==
  ASSUME PageInv, PaintSearchMatch
  PROVE  PageInv'
<1>1. Change /\ UNCHANGED <<looks, shows, place, geometry, transition>>
  BY DEF PaintSearchMatch, Command
<1>2. PICK m \in Matches \union {None} :
        Paints(shows, SearchApplied([paint EXCEPT !.reported = None, !.landing = m # None], m))
  BY DEF PaintSearchMatch
<1>3. /\ PaintedFor(paint, ToBePainted(shows)) /\ Sound(paint) /\ ToBePainted(shows) \in BOOLEAN
      /\ ToBePainted(shows) <=> Rebuilding(shows)
      /\ paint.loaded \subseteq paint.views /\ paint.painted \subseteq paint.last
  BY <1>1, Changing DEF PaintedFor
<1> DEFINE n == [paint EXCEPT !.reported = None, !.landing = m # None]
           p == SearchApplied(n, m)
<1>4. /\ n \in Paint /\ n.filed = paint.filed /\ n.listed = paint.listed /\ n.marks = paint.marks
      /\ n.loaded = paint.loaded /\ n.views = paint.views /\ n.clashes = paint.clashes
      /\ n.painted = paint.painted /\ n.match = paint.match /\ n.spoken = paint.spoken
      /\ n.word = paint.word /\ n.reported = None /\ n.last = paint.last
      /\ n.landing = (m # None)
  BY <1>3 DEF Sound, Stored, Paint
<1> HIDE DEF n
<1>5. /\ Sound(n) /\ (\A o \in Owners : Filed(n, o) = Filed(paint, o) /\ Layer(n, o) = Layer(paint, o))
      /\ OnTop(paint) => OnTop(n)
  BY <1>3, <1>4, Remembering
<1>6. Searches(n, p) /\ Replies(n, m, p)
  BY <1>5, Searching
<1>7. Paints(shows, p)
  BY <1>2 DEF n
<1> HIDE DEF p
<1>8. Truthful(p)
  <2>1. p.match # None <=> p.reported = TRUE
    BY <1>4, <1>6, RangeParts DEF Replies
  <2>2. p.pending = m /\ p.landing = (m # None)
    BY <1>4, <1>6 DEF Replies, Searches
  <2> QED BY <2>1, <2>2 DEF Truthful
<1>9. Repaintable(shows, p)
  <2>1. /\ Sound(p) /\ p.loaded \subseteq p.views /\ p.painted \subseteq p.last
        /\ paint.clashes \subseteq p.clashes
    BY <1>3, <1>4, <1>6 DEF Searches
  <2>2. p.clashes = {} => OnTop(p)
    BY <1>3, <1>5, <1>6, <2>1 DEF PaintedFor, Above, Searches
  <2>3. ASSUME p.clashes = {}, ~Rebuilding(shows) PROVE Complete(p)
    <3>1. Complete(paint)
      BY <1>3, <2>1, <2>3 DEF PaintedFor
    <3> QED BY <1>5, <1>6, <2>3, <3>1 DEF Complete, Searches
  <2> QED BY <1>8, <2>1, <2>2, <2>3 DEF Repaintable
<1> QED BY <1>1, <1>7, <1>9, PaintedOnly

LEMMA ClearingWord ==
  ASSUME NEW b, PaintedFor(paint, b)
  PROVE  LET q == WordCleared(paint) IN Keeps(paint, q) /\ Above(paint, q) /\ q.word = None
<1>1. Sound(paint) /\ (paint.clashes = {} => Complete(paint) \/ Bare(paint))
  BY DEF PaintedFor
<1> QED BY <1>1, WordClearing

LEMMA SettingSentence ==
  ASSUME PageInv, SetSpokenRange
  PROVE  PageInv'
<1>1. Change /\ UNCHANGED <<looks, place, geometry, transition>>
  BY DEF SetSpokenRange, Command
<1>2. PICK r \in SpokenSentences \union {None} :
        /\ Paints(shows, SentenceSpoken(WordCleared(paint), r))
        /\ shows' \in MayFollow(shows, r, transition)
  BY DEF SetSpokenRange
<1>3. /\ InOrder(shows, transition) /\ PaintedFor(paint, ToBePainted(shows))
      /\ ToBePainted(shows) \in BOOLEAN /\ shows.due = <<>> /\ transition \in Nat
      /\ (ToBePainted(shows) <=> Rebuilding(shows)) /\ asks' \in asks..MaxAsks
  BY <1>1, Changing
<1> DEFINE q == WordCleared(paint)
           p == SentenceSpoken(q, r)
<1>4. Keeps(paint, q) /\ Above(paint, q) /\ q.word = None
  BY <1>3, ClearingWord
<1> HIDE DEF q
<1>5. Keeps(q, p) /\ Above(q, p)
  BY <1>4, SentenceSpeaking DEF Keeps
<1>6. Paints(shows, p)
  BY <1>2 DEF q
<1> HIDE DEF p
<1>7. Keeps(paint, p) /\ Above(paint, p)
  BY <1>4, <1>5, KeepsOn
<1>8. Repaintable(shows, p)
  BY <1>3, <1>7, KeptRepaintable
<1>9. r \in Ranges \union {None}
  BY RangeParts
<1> QED BY <1>1, <1>2, <1>3, <1>6, <1>8, <1>9, PaintingSteps

LEMMA SettingWord ==
  ASSUME PageInv, SetSpokenWordRange
  PROVE  PageInv'
<1>1. Change /\ UNCHANGED <<looks, place, geometry, transition>>
  BY DEF SetSpokenWordRange, Command
<1> DEFINE q == WordCleared(paint)
<1>2. PICK r \in SpokenWords \union {None} :
        /\ Paints(shows, IF r = None THEN q
                         ELSE IF r.chapter \in paint.loaded THEN WordSpoken(q, r)
                         ELSE q)
        /\ shows' \in IF r = None THEN {shows}
                      ELSE IF r.chapter \in paint.loaded THEN MayFollow(shows, r, transition)
                      ELSE {shows}
  BY DEF SetSpokenWordRange
<1>3. /\ InOrder(shows, transition) /\ PaintedFor(paint, ToBePainted(shows))
      /\ ToBePainted(shows) \in BOOLEAN /\ shows.due = <<>> /\ transition \in Nat
      /\ (ToBePainted(shows) <=> Rebuilding(shows)) /\ asks' \in asks..MaxAsks
  BY <1>1, Changing
<1>4. Keeps(paint, q) /\ Above(paint, q) /\ q.word = None
  BY <1>3, ClearingWord
<1> HIDE DEF q
<1>5. CASE r # None /\ r.chapter \in paint.loaded
  <2> DEFINE p == WordSpoken(q, r)
  <2>1. Keeps(q, p) /\ Above(q, p)
    BY <1>4, <1>5, WordSpeaking DEF Keeps
  <2>2. Paints(shows, p) /\ shows' \in MayFollow(shows, r, transition)
    BY <1>2, <1>5
  <2> HIDE DEF p
  <2>3. Keeps(paint, p) /\ Above(paint, p)
    BY <1>4, <2>1, KeepsOn
  <2>4. Repaintable(shows, p)
    BY <1>3, <2>3, KeptRepaintable
  <2>5. r \in Ranges \union {None}
    BY RangeParts
  <2> QED BY <1>1, <1>3, <2>2, <2>4, <2>5, PaintingSteps
<1>6. CASE ~(r # None /\ r.chapter \in paint.loaded)
  <2>1. Paints(shows, q) /\ shows' = shows
    BY <1>2, <1>6
  <2>2. Repaintable(shows, q)
    BY <1>3, <1>4, KeptRepaintable
  <2> QED BY <1>1, <2>1, <2>2, PaintedOnly
<1> QED BY <1>5, <1>6

LEMMA Going ==
  ASSUME PageInv, GoTo
  PROVE  PageInv'
<1>1. Change /\ UNCHANGED <<paint, looks, place, geometry, transition>>
  BY DEF GoTo, Command
<1>2. PICK c \in Chapters : shows' = Displayed(shows, "move", c, 0)
  BY DEF GoTo
<1>3. /\ InOrder(shows, transition) /\ PaintedFor(paint, ToBePainted(shows))
      /\ shows.due = <<>> /\ transition \in Nat /\ asks' \in asks..MaxAsks
  BY <1>1, Changing
<1>4. [kind |-> "move", chapter |-> c, id |-> 0] \in Display
  BY PageBoundAssumption DEF Display
<1>5. GoesOn(shows, shows', transition)
  BY <1>2, <1>3, <1>4, Showing
<1> QED BY <1>1, <1>3, <1>5, GoingOn

-----------------------------------------------------------------------------
(* What the page shows.                                                       *)

LEMMA LayersAre ==
  ASSUME NEW p
  PROVE  /\ \A l \in Layers(p) : l.owner \in Owners /\ l.range \in Layer(p, l.owner)
         /\ \A o \in Owners : \A r \in Layer(p, o) : \E l \in Layers(p) : l.range = r /\ l.owner = o
<1>1. /\ Layer(p, "user") = RangesOfAll(p.painted) /\ Layer(p, "search") = {p.match} \ {None}
      /\ Layer(p, "sentence") = {p.spoken} \ {None} /\ Layer(p, "word") = {p.word} \ {None}
  BY LayerIs
<1>2. ASSUME NEW l \in Layers(p) PROVE l.owner \in Owners /\ l.range \in Layer(p, l.owner)
  BY <1>1 DEF Layers, RangesOfAll, Owners
<1>3. ASSUME NEW o \in Owners, NEW r \in Layer(p, o) PROVE \E l \in Layers(p) : l.range = r /\ l.owner = o
  <2> DEFINE l == [range |-> r, owner |-> o]
  <2>1. l \in Layers(p)
    <3>1. CASE o = "user"
      <4>1. PICK h \in p.painted : r = RangeOf[h]
        BY <1>1, <3>1 DEF RangesOfAll
      <4>2. l = [range |-> RangeOf[h], owner |-> "user"]
        BY <3>1, <4>1
      <4> QED BY <4>2 DEF Layers
    <3>2. CASE o = "search"
      BY <1>1, <3>2 DEF Layers
    <3>3. CASE o = "sentence"
      BY <1>1, <3>3 DEF Layers
    <3>4. CASE o = "word"
      BY <1>1, <3>4 DEF Layers
    <3> QED BY <3>1, <3>2, <3>3, <3>4 DEF Owners
  <2>2. l.range = r /\ l.owner = o
    OBVIOUS
  <2> QED BY <2>1, <2>2
<1> QED BY <1>2, <1>3

LEMMA ShowingLayers ==
  ASSUME NEW p, Sound(p), p.clashes = {}, Complete(p)
  PROVE  MarksAre(p)
<1>1. p \in Paint /\ Marking(p) /\ p.marks \in Seq(Mark) /\ p.painted \in SUBSET Highlights
  BY DEF Sound, Stored, Paint
<1>2. ASSUME NEW l \in Layers(p), l.range.chapter \in p.loaded
      PROVE  Cardinality({i \in DOMAIN p.marks : IsOf(p.marks[i], l)}) = 1
  <2>1. l.owner \in Owners /\ l.range \in Layer(p, l.owner)
    BY LayersAre
  <2>2. l.range \in Ranges /\ p.filed[l.range] = l.owner
    BY <2>1 DEF Complete, Filed
  <2>3. l.owner # None
    BY <2>1, RangeParts
  <2>4. PICK i \in DOMAIN p.marks : p.marks[i].range = l.range
    BY <1>1, <1>2, <2>2, <2>3 DEF Marking
  <2>5. IsOf(p.marks[i], l)
    BY <1>1, <2>2, <2>4 DEF Marking, IsOf
  <2>6. \A j \in DOMAIN p.marks : IsOf(p.marks[j], l) => j = i
    BY <1>1, <2>4 DEF Marking, IsOf
  <2>7. {j \in DOMAIN p.marks : IsOf(p.marks[j], l)} = {i}
    BY <2>5, <2>6
  <2> QED BY <2>7, FS_Singleton
<1>3. ASSUME NEW m \in Range(p.marks) PROVE m.held /\ \E l \in Layers(p) : IsOf(m, l)
  <2>1. PICK i \in DOMAIN p.marks : m = p.marks[i]
    BY DEF Range
  <2>2. m \in Mark
    BY <1>1, <2>1, LenProperties, ElementOfSeq
  <2>3. m.range \in Ranges /\ m.owner \in Owners /\ m.held /\ p.filed[m.range] = m.owner
    BY <1>1, <2>1, <2>2 DEF Marking, Mark
  <2>4. m.range \in Layer(p, m.owner)
    BY <2>3 DEF Complete, Filed
  <2>5. \E l \in Layers(p) : l.range = m.range /\ l.owner = m.owner
    BY <2>3, <2>4, LayersAre
  <2> QED BY <2>3, <2>5 DEF IsOf
<1> QED BY <1>2, <1>3 DEF MarksAre

LEMMA PageShows == PageInv => LayersAreShown
<1> SUFFICES ASSUME PageInv PROVE LayersAreShown
  OBVIOUS
<1>1. PaintedFor(paint, ToBePainted(shows)) /\ InOrder(shows, transition) /\ Sound(paint) /\ Truthful(paint)
  BY DEF PageInv, PaintedFor
<1>2. MarksAreTheLayers
  <2>1. SUFFICES ASSUME paint.clashes = {}, Steady PROVE MarksAre(paint)
    BY DEF MarksAreTheLayers
  <2>2. ~ToBePainted(shows)
    BY <2>1, NoDisplay DEF Steady, ToBePainted
  <2>3. Complete(paint)
    BY <1>1, <2>1, <2>2 DEF PaintedFor
  <2> QED BY <1>1, <2>1, <2>3, ShowingLayers
<1>3. WordIsOnTop
  <2>1. SUFFICES ASSUME paint.clashes = {}, NEW i \in DOMAIN paint.marks, NEW j \in DOMAIN paint.marks,
                        paint.marks[i].owner = "word", paint.marks[j].owner = "sentence",
                        paint.marks[i].range.chapter = paint.marks[j].range.chapter
                 PROVE  i > j
    BY DEF WordIsOnTop
  <2>2. paint.marks \in Seq(Mark)
    BY <1>1 DEF Sound, Stored, Paint
  <2>3. i \in Nat /\ j \in Nat
    BY <2>2, LenProperties
  <2>4. j < i
    BY <1>1, <2>1 DEF PaintedFor, OnTop
  <2> QED BY <2>3, <2>4
<1>4. SearchReportIsTrue /\ SearchIsAnswered
  BY <1>1 DEF Truthful, SearchReportIsTrue, SearchIsAnswered
<1>5. TransitionIsGuarded
  <2>1. SUFFICES ASSUME transition = 0,
                        NEW d \in Range(shows.queue) \union Range(shows.due) \union ({shows.current} \ {None}),
                        Guarded(d)
                 PROVE  FALSE
    BY DEF TransitionIsGuarded, Guarded
  <2>2. d.id \in 1..0
    BY <1>1, <2>1 DEF InOrder, InTurn, Numbered, Under
  <2> QED BY <2>2
<1> QED BY <1>2, <1>3, <1>4, <1>5 DEF LayersAreShown

LEMMA PageIsTyped == PageInv => PageTypeOK
<1> SUFFICES ASSUME PageInv PROVE PageTypeOK
  OBVIOUS
<1>1. /\ paint \in Paint /\ paint.loaded \subseteq paint.views /\ paint.painted \subseteq paint.last
  BY DEF PageInv, PaintedFor, Sound, Stored
<1>2. shows \in Shows /\ Paced
  BY DEF PageInv, InOrder
<1> QED BY <1>1, <1>2 DEF Paced, PageTypeOK

LEMMA PageStep == PageInv /\ [PageNext]_pageVars => PageInv'
<1> SUFFICES ASSUME PageInv, [PageNext]_pageVars PROVE PageInv'
  OBVIOUS
<1>1. CASE Continue
  BY <1>1, Continuing
<1>2. CASE SettleLate
  BY <1>2, SettlingLate
<1>3. CASE StartDisplay
  BY <1>3, StartingDisplay
<1>4. CASE SettleFilled
  BY <1>4, FillingScreen
<1>5. CASE Relocated
  BY <1>5, Relocating
<1>6. CASE GeometryFrame
  BY <1>6, Framing
<1>7. CASE \E c \in Chapters : LoadView(c) \/ ScrollIn(c) \/ ScrollOut(c)
  <2>1. PICK c \in Chapters : LoadView(c) \/ ScrollIn(c) \/ ScrollOut(c)
    BY <1>7
  <2> QED BY <2>1, LoadingViews, ScrollingViewsIn, ScrollingViewsOut
<1>8. CASE ResizeContents
  BY <1>8, ResizingContents
<1>9. CASE ResizeWindow
  BY <1>9, ResizingWindow
<1>10. CASE ApplyAppearance
  BY <1>10, ApplyingAppearance
<1>11. CASE PaintHighlights
  BY <1>11, PaintingHighlights
<1>12. CASE PaintSearchMatch
  BY <1>12, PaintingSearchMatch
<1>13. CASE SetSpokenRange
  BY <1>13, SettingSentence
<1>14. CASE SetSpokenWordRange
  BY <1>14, SettingWord
<1>15. CASE GoTo
  BY <1>15, Going
<1>16. CASE UNCHANGED pageVars
  BY <1>16, Stuttering
<1> QED BY <1>1, <1>2, <1>3, <1>4, <1>5, <1>6, <1>7, <1>8, <1>9, <1>10, <1>11, <1>12,
           <1>13, <1>14, <1>15, <1>16 DEF PageNext

LEMMA PageIsSound == PageSpec => []PageInv
BY Beginning, PageStep, PTL DEF PageSpec

(* What epub.entry.ts keeps of its page has the shape it declares.           *)
THEOREM PageIsWellTyped == PageSpec => []PageTypeOK
BY PageIsSound, PageIsTyped, PTL

(* epub.entry.ts:1145-1150 and HIGHLIGHT_LAYERS.md: whatever was painted,     *)
(* cleared, displayed, rebuilt or reanchored, and in whatever order, a page   *)
(* that has come to rest shows its layers, each once and none other; the word *)
(* is over its sentence, the host was told of its match what is so, and no    *)
(* transition is taken for ended while one of its displays is awaited.        *)
THEOREM PageShowsItsLayers == PageSpec => []LayersAreShown
BY PageIsSound, PageShows, PTL
=============================================================================
