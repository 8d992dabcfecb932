--------------------------- MODULE DownloadsProofs ---------------------------
(* Proofs about downloads: ChunkedFetch (what a transfer puts together is one *)
(* version of the asset, whole) and Downloads (the content on disk and the    *)
(* rows of the table say the same of each book, and no download goes over the *)
(* limit); for any assets, chunks, books, screens, deletions and restarts.    *)
EXTENDS Downloads, ChunkedFetch, FiniteSetTheorems, TLAPS

(* The transfer of an asset.                                                   *)

(* The first n chunks of a version.                                            *)
FirstChunks(v, n) == [i \in 1..n |-> <<v, i>>]

(* What a fetch under way has in hand: nothing and an empty directory, or as   *)
(* much of the asset as the two files hold; and the next chunk, or the whole.  *)
FetchInHand(f) ==
  /\ \/ fetch[f].received = 0 /\ fetch[f].expected = None /\ file = None /\ manifest = None
     \/ /\ Trusted /\ manifest.received = fetch[f].received
        /\ manifest.expected = fetch[f].expected /\ manifest.received < manifest.expected
  /\ fetch[f].at = "body" =>
       /\ fetch[f].reply # None
       /\ \/ fetch[f].reply = [data |-> Whole(served), total |-> None]
          \/ /\ fetch[f].reply = [data |-> <<<<served, fetch[f].received + 1>>>>,
                                  total |-> Chunks[served]]
             /\ fetch[f].received < Chunks[served]

(* Unless two fetches met, the asset was replaced or a length was missing: one *)
(* fetch at a time has the two files, and files that can be trusted are a part *)
(* of the asset.                                                               *)
FetchSound ==
  overlaps = {} =>
    /\ ~mixed
    /\ \A f, g \in Fetchers : Fetching(f) /\ Fetching(g) => f = g
    /\ Trusted => /\ file = FirstChunks(served, manifest.received)
                  /\ manifest.expected = Chunks[served]
                  /\ 1 <= manifest.received /\ manifest.received <= manifest.expected
    /\ \A f \in Fetchers : Fetching(f) => FetchInHand(f)

(* A fetch that stores has a chunk to store, and one that ended has nothing.   *)
Storable ==
  {x \in Fetch : /\ x.at = "body" => x.reply # None /\ x.reply.data # <<>>
                 /\ x.at = "idle" => x = NoFetch}

FetchTyped == FetchTypeOK /\ fetch \in [Fetchers -> Storable]

FetchInv == FetchTyped /\ FetchSound
-----------------------------------------------------------------------------
LEMMA FetchConstants ==
  /\ MaxChunks \in Nat /\ MaxReplaced \in Nat /\ MaxFetchRestarts \in Nat
  /\ \A v \in Versions : Chunks[v] \in Nat /\ Chunks[v] >= 1
  /\ None \notin Nat /\ None \notin Seq(Chunk) /\ None \notin Manifest /\ None \notin Reply
BY ChunksAssumption, FetchBounds, NoVersionAssumption

LEMMA FirstChunksTyped ==
  ASSUME NEW v \in Versions, NEW n \in Nat
  PROVE  /\ FirstChunks(v, n) \in Seq(Chunk)
         /\ Len(FirstChunks(v, n)) = n
         /\ FirstChunks(v, n) \o <<<<v, n + 1>>>> = FirstChunks(v, n + 1)
<1>1. \A i \in 1..n : <<v, i>> \in Chunk
  BY DEF Chunk
<1>2. FirstChunks(v, n) \in Seq(Chunk) /\ Len(FirstChunks(v, n)) = n
  BY <1>1 DEF FirstChunks
<1>3. FirstChunks(v, n) \o <<<<v, n + 1>>>> = FirstChunks(v, n + 1)
  BY <1>2 DEF FirstChunks
<1>4. QED
  BY <1>2, <1>3

LEMMA OneChunk == \A v \in Versions : <<<<v, 1>>>> = FirstChunks(v, 1)
BY DEF FirstChunks

LEMMA WholeIsFirstChunks ==
  ASSUME NEW v \in Versions
  PROVE  Whole(v) = FirstChunks(v, Chunks[v]) /\ Whole(v) \in Seq(Chunk)
BY FetchConstants, FirstChunksTyped DEF Whole, FirstChunks

LEMMA FetchBegins == FetchInit => FetchInv
<1> SUFFICES ASSUME FetchInit PROVE FetchInv
  OBVIOUS
<1>1. NoFetch \in Fetch /\ NoFetch \in Storable
  BY DEF NoFetch, Fetch, Storable
<1>2. tried \in [replaced : 0..MaxReplaced, restarts : 0..MaxFetchRestarts]
  BY FetchConstants DEF FetchInit
<1>3. FetchTyped
  BY <1>1, <1>2 DEF FetchInit, FetchTyped, FetchTypeOK
<1>4. FetchSound
  BY DEF FetchInit, FetchSound, Fetching, NoFetch, Trusted
<1>5. QED
  BY <1>3, <1>4 DEF FetchInv

(* What a fetch has in hand when it stores.                                    *)
LEMMA StoringTyped ==
  ASSUME FetchTyped, NEW f \in Fetchers, fetch[f].at = "body"
  PROVE  /\ fetch[f].reply \in Reply /\ fetch[f].reply.data # <<>>
         /\ Appended(f) \in Seq(Chunk)
         /\ fetch[f].reply.total # None => Expected(f) \in Nat
         /\ <<<<fetch[f].reply.data[1][1], 0>>>> \in Seq(Chunk)
<1>1. fetch[f] \in Fetch /\ fetch[f].reply \in Reply /\ fetch[f].reply.data # <<>>
  BY DEF FetchTyped, FetchTypeOK, Storable, Fetch
<1>2. Appended(f) \in Seq(Chunk)
  BY <1>1 DEF Appended, Reply, FetchTyped, FetchTypeOK
<1>3. fetch[f].reply.total # None => Expected(f) \in Nat
  BY <1>1 DEF Expected, Fetch, Reply
<1>4. fetch[f].reply.data[1] \in Chunk
  BY <1>1 DEF Reply
<1>5. fetch[f].reply.data[1][1] \in Versions
  BY <1>4 DEF Chunk
<1>6. <<fetch[f].reply.data[1][1], 0>> \in Chunk
  BY <1>5 DEF Chunk
<1>7. QED
  BY <1>1, <1>2, <1>3, <1>6

(* A chunk that is stored in part leaves files of the right kinds.             *)
LEMMA PartTyped ==
  ASSUME FetchTyped, NEW f \in Fetchers, StoresPartly(f)
  PROVE  file' \in Seq(Chunk) /\ manifest' \in Manifest \union {None}
<1>0. fetch[f] \in Fetch /\ fetch[f].at = "body" /\ file \in Seq(Chunk) \union {None}
      /\ manifest \in Manifest \union {None}
  BY DEF FetchTyped, FetchTypeOK, StoresPartly, Storable
<1>1. fetch[f].received + 1 \in Nat /\ Expected(f) \in Nat /\ Appended(f) \in Seq(Chunk)
  BY <1>0, StoringTyped DEF StoresPartly, Fetch
<1>2. [expected |-> Expected(f), received |-> fetch[f].received + 1] \in Manifest
  BY <1>1 DEF Manifest
<1>3. <<<<fetch[f].reply.data[1][1], 0>>>> \in Seq(Chunk)
  BY <1>0, StoringTyped
<1>4. (IF fetch[f].received > 0 /\ file # None THEN file ELSE <<>>)
        \o <<<<fetch[f].reply.data[1][1], 0>>>> \in Seq(Chunk)
  BY <1>0, <1>3
<1>5. QED
  BY <1>0, <1>1, <1>2, <1>4 DEF StoresPartly

LEMMA FetchTypes == FetchTyped /\ [FetchNext]_fetchVars => FetchTyped'
<1> SUFFICES ASSUME FetchTyped, [FetchNext]_fetchVars PROVE FetchTyped'
  OBVIOUS
<1>0. NoFetch \in Storable /\ fetch \in [Fetchers -> Storable] /\ Storable \subseteq Fetch
  BY DEF NoFetch, Fetch, FetchTyped, Storable
<1> USE DEF FetchTyped, FetchTypeOK
<1>2. ASSUME NEW f \in Fetchers, FetchStarts(f) PROVE FetchTyped'
  <2>1. overlaps' \subseteq Overlap
    BY <1>2 DEF FetchStarts, Overlap
  <2>2. CASE fetch' = [fetch EXCEPT ![f] = [NoFetch EXCEPT !.at = "head",
               !.received = manifest.received, !.expected = manifest.expected]]
             /\ Trusted /\ UNCHANGED <<file, manifest, mixed>>
    <3>1. manifest \in Manifest
      BY <2>2 DEF Trusted
    <3>2. [NoFetch EXCEPT !.at = "head", !.received = manifest.received,
                          !.expected = manifest.expected] \in Storable
      BY <3>1 DEF Manifest, Fetch, NoFetch, Storable
    <3>3. fetch' \in [Fetchers -> Storable]
      BY <1>0, <2>2, <3>2
    <3>4. QED
      BY <1>0, <1>2, <2>1, <2>2, <3>3 DEF FetchStarts
  <2>3. CASE FetchMoves(f, "head") /\ Discards /\ mixed' = mixed
    <3>1. [fetch[f] EXCEPT !.at = "head"] \in Storable
      BY <1>0 DEF Fetch, Storable
    <3>2. fetch' \in [Fetchers -> Storable]
      BY <1>0, <2>3, <3>1 DEF FetchMoves
    <3>3. QED
      BY <1>0, <1>2, <2>1, <2>3, <3>2 DEF FetchStarts, Discards
  <2>4. CASE fetch' = fetch /\ Discards /\ mixed' \in BOOLEAN
    BY <1>2, <2>1, <2>4 DEF FetchStarts, Discards
  <2>5. QED
    BY <1>2, <2>2, <2>3, <2>4 DEF FetchStarts, Returns
<1>3. ASSUME NEW f \in Fetchers, Headers(f) PROVE FetchTyped'
  <2>1. served \in Versions /\ fetch[f].received \in Nat /\ Chunks[served] \in Nat
    BY <1>0, FetchConstants DEF Fetch
  <2>2. <<<<served, fetch[f].received + 1>>>> \in Seq(Chunk)
    BY <2>1 DEF Chunk
  <2>3. ASSUME NEW answer \in Reply, answer.data # <<>>, Receives(f, answer)
        PROVE  fetch' \in [Fetchers -> Storable]
    <3>1. answer # None
      BY FetchConstants
    <3>2. [fetch[f] EXCEPT !.at = "body", !.reply = answer] \in Storable
      BY <1>0, <2>3, <3>1 DEF Fetch, Storable
    <3>3. QED
      BY <1>0, <2>3, <3>2 DEF Receives
  <2>4. [data |-> <<<<served, fetch[f].received + 1>>>>, total |-> Chunks[served]] \in Reply
    BY <2>1, <2>2 DEF Reply
  <2>5. [data |-> Whole(served), total |-> None] \in Reply /\ Whole(served) # <<>>
    <3>1. Whole(served) \in Seq(Chunk) /\ Len(Whole(served)) = Chunks[served]
      BY <2>1, FirstChunksTyped, WholeIsFirstChunks
    <3>2. Len(Whole(served)) # 0
      BY <2>1, <3>1, FetchConstants
    <3>3. QED
      BY <3>1, <3>2 DEF Reply
  <2>6. [data |-> <<<<served, fetch[f].received + 1>>>>, total |-> None] \in Reply
    BY <2>2 DEF Reply
  <2>7. fetch' \in [Fetchers -> Storable]
    BY <1>3, <2>3, <2>4, <2>5, <2>6 DEF Headers
  <2>8. overlaps' \subseteq Overlap
    BY <1>3 DEF Headers, Overlap
  <2>9. QED
    BY <1>0, <1>3, <2>7, <2>8 DEF Headers
<1>4. ASSUME NEW f \in Fetchers, FetchFails(f) PROVE FetchTyped'
  <2>1. fetch' \in [Fetchers -> Storable]
    BY <1>0, <1>4 DEF FetchFails, FetchEnds
  <2>2. file' \in Seq(Chunk) \union {None} /\ manifest' \in Manifest \union {None}
    BY <1>4, PartTyped DEF FetchFails, Discards
  <2>3. QED
    BY <1>0, <1>4, <2>1, <2>2 DEF FetchFails
<1>5. ASSUME NEW f \in Fetchers, Unranged(f) PROVE FetchTyped'
  BY <1>0, <1>5 DEF Unranged, Returns, Discards, FetchEnds
<1>6. ASSUME NEW f \in Fetchers, TooLarge(f) PROVE FetchTyped'
  BY <1>0, <1>6 DEF TooLarge, Discards, FetchEnds
<1>7. ASSUME NEW f \in Fetchers, Chunked(f) PROVE FetchTyped'
  <2>1. fetch[f].received + 1 \in Nat /\ Expected(f) \in Nat /\ Appended(f) \in Seq(Chunk)
    <3>1. fetch[f] \in Fetch /\ fetch[f].at = "body" /\ fetch[f].reply.total # None
      BY <1>0, <1>7 DEF Chunked
    <3>2. fetch[f].received + 1 \in Nat
      BY <3>1 DEF Fetch
    <3>3. Expected(f) \in Nat /\ Appended(f) \in Seq(Chunk)
      BY <3>1, StoringTyped
    <3>4. QED
      BY <3>2, <3>3
  <2>2. CASE FetchEnds(f) /\ Discards /\ mixed' \in BOOLEAN
    BY <1>0, <1>7, <2>2 DEF Chunked, Discards, FetchEnds
  <2>3. CASE /\ file' = Appended(f)
             /\ manifest' = [expected |-> Expected(f), received |-> fetch[f].received + 1]
             /\ fetch' = [fetch EXCEPT ![f] = [NoFetch EXCEPT !.at = "head",
                            !.received = fetch[f].received + 1, !.expected = Expected(f)]]
             /\ UNCHANGED mixed
    <3>1. [NoFetch EXCEPT !.at = "head", !.received = fetch[f].received + 1,
                          !.expected = Expected(f)] \in Storable
      BY <2>1 DEF Fetch, NoFetch, Storable
    <3>2. fetch' \in [Fetchers -> Storable]
      BY <1>0, <2>3, <3>1
    <3>3. manifest' \in Manifest
      BY <2>1, <2>3 DEF Manifest
    <3>4. QED
      BY <1>0, <1>7, <2>1, <2>3, <3>2, <3>3 DEF Chunked
  <2>4. QED
    BY <1>7, <2>2, <2>3 DEF Chunked, Returns
<1>8. CASE FetchRestart
  <2>1. tried' \in [replaced : 0..MaxReplaced, restarts : 0..MaxFetchRestarts]
    BY <1>8, FetchConstants DEF FetchRestart
  <2>2. fetch' \in [Fetchers -> Storable]
    BY <1>0, <1>8 DEF FetchRestart
  <2>3. QED
    BY <1>0, <1>8, <2>1, <2>2, PartTyped DEF FetchRestart
<1>9. ASSUME NEW v \in Versions, Replace(v) PROVE FetchTyped'
  <2>1. tried' \in [replaced : 0..MaxReplaced, restarts : 0..MaxFetchRestarts]
    BY <1>9, FetchConstants DEF Replace
  <2>2. overlaps' \subseteq Overlap
    BY <1>9 DEF Replace, Overlap
  <2>3. QED
    BY <1>9, <2>1, <2>2 DEF Replace
<1>10. CASE UNCHANGED fetchVars
  BY <1>10 DEF fetchVars
<1>11. QED
  BY <1>2, <1>3, <1>4, <1>5, <1>6, <1>7, <1>8, <1>9, <1>10 DEF FetchNext, FetchStep

(* The chunk of a fetch that nothing disturbed is the next one.                *)
LEMMA StoringNext ==
  ASSUME FetchInv, overlaps = {}, NEW f \in Fetchers, fetch[f].at = "body",
         fetch[f].reply.total # None
  PROVE  /\ fetch[f].received \in Nat /\ fetch[f].received < Chunks[served]
         /\ served \in Versions /\ Chunks[served] \in Nat
         /\ Appended(f) = FirstChunks(served, fetch[f].received + 1)
         /\ Expected(f) = Chunks[served]
         /\ \/ manifest = None /\ fetch[f].received = 0
            \/ manifest # None /\ file # None /\ Len(file) = fetch[f].received
                 /\ manifest.received = fetch[f].received /\ fetch[f].received > 0
<1>1. /\ fetch[f] \in Fetch /\ served \in Versions /\ Chunks[served] \in Nat
      /\ fetch[f].received \in Nat
  BY FetchConstants DEF FetchInv, FetchTyped, FetchTypeOK, Storable, Fetch
<1>2. FetchInHand(f)
  BY DEF FetchInv, FetchSound, Fetching
<1>3. /\ fetch[f].reply.data = <<<<served, fetch[f].received + 1>>>>
      /\ fetch[f].reply.total = Chunks[served] /\ fetch[f].received < Chunks[served]
  BY <1>2 DEF FetchInHand
<1>4. CASE fetch[f].received = 0 /\ fetch[f].expected = None /\ file = None /\ manifest = None
  <2>1. Appended(f) = FirstChunks(served, 1)
    <3>1. Appended(f) = <<<<served, 0 + 1>>>>
      BY <1>3, <1>4 DEF Appended
    <3>2. QED
      BY <1>1, <3>1, OneChunk
  <2>2. Expected(f) = Chunks[served]
    BY <1>3, <1>4 DEF Expected
  <2>3. QED
    BY <1>1, <1>3, <1>4, <2>1, <2>2
<1>5. CASE /\ Trusted /\ manifest.received = fetch[f].received
           /\ manifest.expected = fetch[f].expected /\ manifest.received < manifest.expected
  <2>1. /\ file = FirstChunks(served, fetch[f].received) /\ fetch[f].expected = Chunks[served]
        /\ fetch[f].received > 0 /\ file # None
    BY <1>1, <1>5 DEF FetchInv, FetchSound, Trusted
  <2>2. Appended(f) = FirstChunks(served, fetch[f].received + 1)
    BY <1>1, <1>3, <2>1, FirstChunksTyped DEF Appended
  <2>3. Expected(f) = Chunks[served]
    BY <1>1, <2>1, FetchConstants DEF Expected
  <2>4. QED
    BY <1>1, <1>3, <1>5, <2>1, <2>2, <2>3 DEF Trusted
<1>6. QED
  BY <1>2, <1>4, <1>5 DEF FetchInHand

(* Two fetches at most where one may start, and none after the one ended.      *)
LEMMA AloneEnds ==
  ASSUME FetchInv, overlaps = {}, NEW f \in Fetchers, Fetching(f),
         fetch' = [fetch EXCEPT ![f] = NoFetch]
  PROVE  \A g \in Fetchers : ~Fetching(g)'
BY DEF FetchInv, FetchTyped, FetchSound, Fetching, NoFetch

(* With an empty directory and nobody at work, all is sound.                   *)
LEMMA EmptySound ==
  ASSUME Discards, \A g \in Fetchers : ~Fetching(g)', overlaps' = {} => ~mixed'
  PROVE  FetchSound'
BY DEF FetchSound, Discards, Trusted

(* Files with a part of a chunk in them cannot be trusted, or are as they      *)
(* should be, one chunk further.                                               *)
LEMMA PartSound ==
  ASSUME FetchInv, overlaps = {}, NEW f \in Fetchers, StoresPartly(f), UNCHANGED <<served, mixed>>,
         \A g \in Fetchers : ~Fetching(g)'
  PROVE  FetchSound'
<1>0. FetchTyped /\ FetchTypeOK /\ served \in Versions /\ Chunks[served] \in Nat /\ 1 <= Chunks[served]
  BY FetchConstants DEF FetchInv, FetchTyped, FetchTypeOK
<1>a. ~mixed
  BY DEF FetchInv, FetchSound
<1>1. /\ fetch[f].received \in Nat /\ fetch[f].received < Chunks[served]
      /\ Appended(f) = FirstChunks(served, fetch[f].received + 1)
      /\ Expected(f) = Chunks[served]
      /\ \/ manifest = None /\ fetch[f].received = 0
         \/ manifest # None /\ file # None /\ Len(file) = fetch[f].received
              /\ manifest.received = fetch[f].received /\ fetch[f].received > 0
  BY StoringNext DEF StoresPartly
<1>2. file' \in Seq(Chunk) /\ Len(file') = fetch[f].received + 1
  <2>1. CASE file' = Appended(f)
    <3>1. fetch[f].received + 1 \in Nat
      BY <1>1
    <3>2. QED
      BY <1>0, <1>1, <2>1, <3>1, FirstChunksTyped
  <2>2. CASE file' = (IF fetch[f].received > 0 /\ file # None THEN file ELSE <<>>)
                       \o <<<<fetch[f].reply.data[1][1], 0>>>>
    <3>1. <<<<fetch[f].reply.data[1][1], 0>>>> \in Seq(Chunk)
      BY <1>0, StoringTyped DEF StoresPartly
    <3>2. file \in Seq(Chunk) \union {None}
      BY <1>0 DEF FetchTypeOK
    <3>3. CASE fetch[f].received = 0
      BY <1>1, <2>2, <3>1, <3>3
    <3>4. CASE fetch[f].received > 0
      BY <1>1, <2>2, <3>1, <3>2, <3>4
    <3>5. QED
      BY <1>1, <3>3, <3>4
  <2>3. QED
    BY <2>1, <2>2 DEF StoresPartly
<1>3. file' # None
  BY <1>2, FetchConstants
<1>4. CASE manifest' = manifest
  <2>1. ~Trusted'
    BY <1>1, <1>2, <1>4 DEF Trusted
  <2>2. QED
    BY <1>a, <1>3, <2>1 DEF FetchSound
<1>5. CASE manifest' = None
  BY <1>a, <1>5 DEF FetchSound, Trusted
<1>6. CASE /\ file' = Appended(f)
           /\ manifest' = [expected |-> Expected(f), received |-> fetch[f].received + 1]
  <2>1. /\ file' = FirstChunks(served, manifest'.received)
        /\ manifest'.expected = Chunks[served]
        /\ 1 <= manifest'.received /\ manifest'.received <= manifest'.expected
    BY <1>0, <1>1, <1>6
  <2>2. QED
    BY <1>a, <1>3, <2>1 DEF FetchSound, FirstChunks
<1>7. QED
  BY <1>4, <1>5, <1>6 DEF StoresPartly

LEMMA SoundStep == FetchInv /\ [FetchNext]_fetchVars => FetchSound'
<1> SUFFICES ASSUME FetchInv, [FetchNext]_fetchVars, overlaps' = {} PROVE FetchSound'
  BY DEF FetchSound
<1>0. FetchTyped /\ FetchTypeOK /\ served \in Versions /\ Chunks[served] \in Nat /\ 1 <= Chunks[served]
  BY FetchConstants DEF FetchInv, FetchTyped, FetchTypeOK
<1>1. overlaps = {}
  <2>1. overlaps \subseteq overlaps'
    BY DEF FetchNext, FetchStep, FetchStarts, Headers, FetchFails, Unranged, TooLarge, Chunked,
           FetchRestart, Replace, fetchVars
  <2>2. QED
    BY <2>1
<1>2. /\ mixed = FALSE
      /\ \A f, g \in Fetchers : Fetching(f) /\ Fetching(g) => f = g
      /\ Trusted => /\ file = FirstChunks(served, manifest.received)
                    /\ manifest.expected = Chunks[served]
                    /\ 1 <= manifest.received /\ manifest.received <= manifest.expected
      /\ \A f \in Fetchers : Fetching(f) => FetchInHand(f)
  BY <1>0, <1>1 DEF FetchInv, FetchSound, FetchTypeOK
<1>3. /\ fetch \in [Fetchers -> Storable] /\ Storable \subseteq Fetch
      /\ \A f \in Fetchers : ~Fetching(f) => fetch[f] = NoFetch
  BY <1>0 DEF FetchTyped, Storable, Fetching
<1>4. Whole(served) = FirstChunks(served, Chunks[served])
  BY <1>0, WholeIsFirstChunks
<1>5. ASSUME NEW f \in Fetchers, FetchStarts(f) PROVE FetchSound'
  <2>1. \A g \in Fetchers : ~Fetching(g)
    BY <1>5 DEF FetchStarts
  <2>2. CASE Trusted /\ manifest.received < manifest.expected
             /\ fetch' = [fetch EXCEPT ![f] = [NoFetch EXCEPT !.at = "head",
                  !.received = manifest.received, !.expected = manifest.expected]]
             /\ UNCHANGED <<file, manifest, mixed>>
    <3>1. fetch'[f].at = "head" /\ fetch'[f].received = manifest.received
          /\ fetch'[f].expected = manifest.expected
      BY <1>3, <2>2 DEF NoFetch
    <3>2. \A g \in Fetchers : Fetching(g)' => g = f
      BY <1>3, <2>1, <2>2 DEF Fetching
    <3>3. FetchInHand(f)'
      BY <2>2, <3>1 DEF FetchInHand, Trusted
    <3>4. QED
      BY <1>2, <1>5, <2>2, <3>2, <3>3 DEF FetchSound, Trusted, FetchStarts
  <2>3. CASE Trusted /\ manifest.received >= manifest.expected /\ Returns(file) /\ Discards
             /\ fetch' = fetch
    <3>1. manifest \in Manifest
      BY <1>0, <2>3 DEF Trusted, FetchTypeOK
    <3>2. manifest.received = Chunks[served]
      BY <1>0, <1>2, <2>3, <3>1 DEF Manifest
    <3>3. file = Whole(served)
      BY <1>2, <1>4, <2>3, <3>2
    <3>4. mixed' = FALSE
      BY <1>0, <1>2, <2>3, <3>3 DEF Returns
    <3>5. QED
      BY <2>1, <2>3, <3>4, EmptySound DEF Fetching
  <2>4. CASE Discards /\ UNCHANGED <<fetch, mixed>>
    BY <1>2, <2>1, <2>4, EmptySound DEF Fetching
  <2>5. CASE Discards /\ FetchMoves(f, "head") /\ mixed' = mixed
    <3>1. fetch'[f].at = "head" /\ fetch'[f].received = 0 /\ fetch'[f].expected = None
      BY <1>3, <2>1, <2>5 DEF NoFetch, FetchMoves
    <3>2. \A g \in Fetchers : Fetching(g)' => g = f
      BY <1>3, <2>1, <2>5 DEF Fetching, FetchMoves
    <3>3. FetchInHand(f)'
      BY <2>5, <3>1 DEF FetchInHand, Discards
    <3>4. QED
      BY <1>2, <2>5, <3>2, <3>3 DEF FetchSound, Trusted, Discards
  <2>6. QED
    BY <1>5, <2>2, <2>3, <2>4, <2>5 DEF FetchStarts
<1>6. ASSUME NEW f \in Fetchers, Headers(f) PROVE FetchSound'
  <2>1. FetchInHand(f) /\ Fetching(f)
    BY <1>2, <1>6 DEF Headers, Fetching
  <2>2. /\ fetch'[f].at = "body" /\ fetch'[f].received = fetch[f].received
        /\ fetch'[f].expected = fetch[f].expected
        /\ \/ fetch'[f].reply = [data |-> Whole(served), total |-> None]
           \/ /\ fetch'[f].reply = [data |-> <<<<served, fetch[f].received + 1>>>>,
                                    total |-> Chunks[served]]
              /\ fetch[f].received < Chunks[served]
        /\ \A g \in Fetchers : g # f => fetch'[g] = fetch[g]
    <3>1. PICK answer :
            /\ Receives(f, answer)
            /\ \/ answer = [data |-> Whole(served), total |-> None]
               \/ /\ answer = [data |-> <<<<served, fetch[f].received + 1>>>>,
                               total |-> Chunks[served]]
                  /\ fetch[f].received < Chunks[served]
      BY <1>6 DEF Headers
    <3>2. fetch[f] \in Fetch
      BY <1>3
    <3>3. fetch' = [fetch EXCEPT ![f] = [fetch[f] EXCEPT !.at = "body", !.reply = answer]]
      BY <3>1 DEF Receives
    <3>4. /\ fetch'[f].at = "body" /\ fetch'[f].reply = answer
          /\ fetch'[f].received = fetch[f].received /\ fetch'[f].expected = fetch[f].expected
          /\ \A g \in Fetchers : g # f => fetch'[g] = fetch[g]
      BY <1>3, <3>2, <3>3 DEF Fetch
    <3>5. QED
      BY <3>1, <3>4
  <2>3. fetch'[f].reply # None
    <3>1. fetch' \in [Fetchers -> Storable]
      BY <1>0, FetchTypes DEF FetchTyped
    <3>2. QED
      BY <2>2, <3>1 DEF Storable
  <2>4. UNCHANGED <<served, file, manifest, mixed>>
    BY <1>6 DEF Headers
  <2>5. FetchInHand(f)'
    BY <2>1, <2>2, <2>3, <2>4 DEF FetchInHand, Trusted, Whole
  <2>6. \A g \in Fetchers : Fetching(g)' => g = f
    BY <1>2, <2>1, <2>2 DEF Fetching
  <2>7. QED
    BY <1>2, <2>4, <2>5, <2>6 DEF FetchSound, Trusted, FirstChunks
<1>7. ASSUME NEW f \in Fetchers, FetchFails(f) PROVE FetchSound'
  <2>1. \A g \in Fetchers : ~Fetching(g)'
    BY <1>1, <1>2, <1>7, AloneEnds DEF FetchFails, FetchEnds, Fetching
  <2>2. UNCHANGED <<served, mixed, overlaps>>
    BY <1>7 DEF FetchFails
  <2>3. CASE Discards
    BY <1>2, <2>1, <2>2, <2>3, EmptySound
  <2>4. CASE UNCHANGED <<file, manifest>>
    BY <1>2, <2>1, <2>2, <2>4 DEF FetchSound, Trusted, FirstChunks
  <2>5. CASE file' = None
    BY <1>2, <2>1, <2>2, <2>5 DEF FetchSound, Trusted
  <2>6. CASE StoresPartly(f)
    BY <1>1, <2>1, <2>2, <2>6, PartSound
  <2>7. QED
    BY <1>7, <2>3, <2>4, <2>5, <2>6 DEF FetchFails
<1>8. ASSUME NEW f \in Fetchers, Unranged(f) PROVE FetchSound'
  <2>1. Fetching(f) /\ FetchInHand(f)
    BY <1>2, <1>8 DEF Unranged, Fetching
  <2>2. fetch[f].reply.data = Whole(served)
    BY <1>0, <1>8, <2>1, FetchConstants DEF FetchInHand, Unranged
  <2>3. mixed' = FALSE
    BY <1>0, <1>2, <1>8, <2>2 DEF Unranged, Returns
  <2>4. QED
    BY <1>1, <1>8, <2>1, <2>3, AloneEnds, EmptySound DEF Unranged, FetchEnds
<1>9. ASSUME NEW f \in Fetchers, TooLarge(f) PROVE FetchSound'
  BY <1>1, <1>2, <1>9, AloneEnds, EmptySound DEF TooLarge, FetchEnds, Fetching
<1>10. ASSUME NEW f \in Fetchers, Chunked(f) PROVE FetchSound'
  <2> DEFINE received == fetch[f].received + 1
  <2>1. /\ fetch[f].received \in Nat /\ fetch[f].received < Chunks[served]
        /\ Appended(f) = FirstChunks(served, received) /\ Expected(f) = Chunks[served]
    BY <1>1, <1>10, StoringNext DEF Chunked
  <2>2. Fetching(f)
    BY <1>10 DEF Chunked, Fetching
  <2>3. CASE /\ received < Expected(f)
             /\ file' = Appended(f)
             /\ manifest' = [expected |-> Expected(f), received |-> received]
             /\ fetch' = [fetch EXCEPT ![f] = [NoFetch EXCEPT !.at = "head",
                  !.received = received, !.expected = Expected(f)]]
             /\ UNCHANGED mixed
    <3>1. /\ file' \in Seq(Chunk) /\ Len(file') = received
      <4>1. received \in Nat
        BY <2>1
      <4>2. QED
        BY <1>0, <2>1, <2>3, <4>1, FirstChunksTyped
    <3>2. file' # None /\ manifest' # None
      <4>1. manifest' \in Manifest
        BY <1>0, <2>1, <2>3 DEF Manifest
      <4>2. QED
        BY <3>1, <4>1, FetchConstants
    <3>3. Trusted'
      BY <2>3, <3>1, <3>2 DEF Trusted
    <3>4. fetch'[f].at = "head" /\ fetch'[f].received = received
          /\ fetch'[f].expected = Chunks[served]
      BY <1>3, <2>1, <2>3 DEF NoFetch
    <3>5. FetchInHand(f)'
      BY <2>1, <2>3, <3>3, <3>4 DEF FetchInHand
    <3>6. \A g \in Fetchers : Fetching(g)' => g = f
      BY <1>2, <1>3, <2>2, <2>3 DEF Fetching
    <3>7. served' = served
      BY <1>10 DEF Chunked
    <3>8. /\ file' = FirstChunks(served, manifest'.received)
          /\ manifest'.expected = Chunks[served]
          /\ 1 <= manifest'.received /\ manifest'.received <= manifest'.expected
      BY <1>0, <2>1, <2>3
    <3>9. QED
      BY <1>2, <2>3, <3>2, <3>5, <3>6, <3>7, <3>8 DEF FetchSound, FirstChunks
  <2>4. CASE received >= Expected(f) /\ Returns(Appended(f)) /\ Discards /\ FetchEnds(f)
    <3>1. received = Chunks[served]
      BY <1>0, <2>1, <2>4
    <3>2. mixed' = FALSE
      BY <1>0, <1>2, <1>4, <2>1, <2>4, <3>1 DEF Returns
    <3>3. QED
      BY <1>1, <2>2, <2>4, <3>2, AloneEnds, EmptySound DEF FetchEnds
  <2>5. QED
    BY <1>10, <2>3, <2>4 DEF Chunked
<1>11. CASE FetchRestart
  <2>1. UNCHANGED <<served, mixed>> /\ \A g \in Fetchers : ~Fetching(g)'
    BY <1>11 DEF FetchRestart, Fetching, NoFetch
  <2>2. CASE UNCHANGED <<file, manifest>>
    BY <1>2, <2>1, <2>2 DEF FetchSound, Trusted, FirstChunks
  <2>3. ASSUME NEW f \in Fetchers, StoresPartly(f) PROVE FetchSound'
    BY <1>1, <2>1, <2>3, PartSound
  <2>4. QED
    BY <1>11, <2>2, <2>3 DEF FetchRestart
<1>12. ASSUME NEW v \in Versions, Replace(v) PROVE FetchSound'
  <2>1. file = None /\ \A g \in Fetchers : ~Fetching(g)
    BY <1>12 DEF Replace
  <2>2. QED
    BY <1>2, <1>12, <2>1 DEF Replace, FetchSound, Trusted, Fetching
<1>13. CASE UNCHANGED fetchVars
  BY <1>2, <1>13 DEF fetchVars, FetchSound, Trusted, Fetching, FetchInHand, FirstChunks, Whole
<1>14. QED
  BY <1>5, <1>6, <1>7, <1>8, <1>9, <1>10, <1>11, <1>12, <1>13 DEF FetchNext, FetchStep

THEOREM FetchInvariance == FetchSpec => []FetchInv
<1>1. FetchInv /\ [FetchNext]_fetchVars => FetchInv'
  BY FetchTypes, SoundStep DEF FetchInv
<1>2. QED
  BY <1>1, FetchBegins, PTL DEF FetchSpec

(* What a fetch returns is the asset, unless two fetches met, the asset was    *)
(* replaced or a 206 named no length; whatever the length, and however often   *)
(* the process dies or a fetch fails.                                          *)
THEOREM FetchedIsWhole == FetchSpec => []WholeUnlessSlip
<1>1. FetchInv => WholeUnlessSlip
  BY DEF FetchInv, FetchSound, WholeUnlessSlip
<1>2. QED
  BY <1>1, FetchInvariance, PTL

-----------------------------------------------------------------------------
(* Downloads.                                                                  *)

(* A call that holds the lock, with its book's rows looked at and counted.     *)
Counting == {"look", "restore", "save"}

(* A call knows its book; what has the lock is the head of the queue; and the  *)
(* id of a row is known only once the rows were looked for.                    *)
Early == {"licence", "fetch", "queued", "look"}
CallFits(at, book, id) ==
  /\ at # "idle" => book \in Books
  /\ at \in Early => id = None
  /\ at = "restore" => id \in Ids
LockIsHeld ==
  \A c \in Callers :
    /\ CallFits(call[c].at, call[c].book, call[c].id)
    /\ call[c].at \in Counting \union {"undo"} => Holds(c)

(* clearAllDownloads() has a row in hand where it goes on with one.            *)
Clearing == clear.at \in {"destroy", "queued"} => clear.id \in Ids

(* An id stands for one book, wherever it occurs.                              *)
Names(i, b) ==
  \/ row[i] # None /\ row[i].book = b
  \/ remote[b] # None /\ remote[b].id = i
  \/ \E c \in Callers : call[c].id = i /\ call[c].book = b
OneBookPerId == \A i \in Ids : \A b, d \in Books : Names(i, b) /\ Names(i, d) => b = d

Server(b) == IF remote[b] = None THEN None ELSE remote[b].id

(* Of two rows of a book, one is the server's, and another device brought it.  *)
OwnRows ==
  /\ \A b \in Books : \A i, j \in ActiveOf(b) :
       i = j \/ (b \in doubled /\ Server(b) \in {i, j})
  /\ \A b \in doubled : remote[b] # None /\ row[remote[b].id] # None

(* The rows that were counted: all but those that other devices' doubled ones  *)
(* brought in.                                                                 *)
Counted == Active \ {Server(b) : b \in doubled}
CountKept == IsFiniteSet(Active) /\ Cardinality(Counted) <= BookLimit

(* The call that has the lock knows the row of its book, and has room for it.  *)
Knows(b, id) ==
  \A i \in ActiveOf(b) : i = id \/ (b \in doubled /\ Server(b) \in {i, id})
HasRoom(b, id) ==
  \/ b \in doubled /\ id = Server(b)
  \/ Cardinality(Counted \ {id}) < BookLimit
HolderIsRight ==
  \A c \in Callers : call[c].at \in Counting =>
    /\ Knows(call[c].book, call[c].id)
    /\ HasRoom(call[c].book, call[c].id)
    /\ call[c].at = "restore" => call[c].id = Server(call[c].book)

(* Content is there, or known to have gone, for a row and for what will be one.*)
ContentIsThere ==
  \A b \in Books : b \in Held \/ InHand(b) => b \in copy \union hollow

Typed == DownloadTypeOK /\ LockIsHeld /\ Clearing

DownloadInv ==
  /\ Typed /\ OneBookPerId /\ OwnRows /\ CountKept /\ HolderIsRight
  /\ ContentIsCounted /\ ContentIsThere

-----------------------------------------------------------------------------
LEMMA DownloadConstants ==
  /\ BookLimit \in Nat /\ BookLimit > 0
  /\ MaxStarts \in Nat /\ MaxDeletions \in Nat /\ MaxOther \in Nat /\ MaxDownloadRestarts \in Nat
  /\ None \notin Ids /\ None \notin Books /\ None \notin DownloadRow /\ None \notin Document
  /\ "clear" \notin Callers /\ "writer" \notin Callers
BY LimitAssumption, DownloadBounds, NoRowAssumption, CallersAssumption

LEMMA Idle == NoCall \in Call /\ NoClear \in Clear
BY DEF NoCall, NoClear, Call, Clear, Places

LEMMA SpendsTyped ==
  ASSUME DownloadTypeOK,
         \/ Spends("starts", MaxStarts) \/ Spends("deletions", MaxDeletions)
         \/ Spends("other", MaxOther) \/ Spends("restarts", MaxDownloadRestarts)
  PROVE  spent' \in [starts : 0..MaxStarts, deletions : 0..MaxDeletions, other : 0..MaxOther,
                     restarts : 0..MaxDownloadRestarts]
<1>1. CASE Spends("starts", MaxStarts)
  BY <1>1, DownloadConstants DEF DownloadTypeOK, Spends
<1>2. CASE Spends("deletions", MaxDeletions)
  BY <1>2, DownloadConstants DEF DownloadTypeOK, Spends
<1>3. CASE Spends("other", MaxOther)
  <2>1. spent.other + 1 \in 0..MaxOther
    BY <1>3, DownloadConstants DEF DownloadTypeOK, Spends
  <2>2. spent' = [spent EXCEPT !.other = spent.other + 1]
    BY <1>3 DEF Spends
  <2>3. QED
    BY <2>1, <2>2 DEF DownloadTypeOK
<1>4. CASE Spends("restarts", MaxDownloadRestarts)
  <2>1. spent.restarts + 1 \in 0..MaxDownloadRestarts
    BY <1>4, DownloadConstants DEF DownloadTypeOK, Spends
  <2>2. spent' = [spent EXCEPT !.restarts = spent.restarts + 1]
    BY <1>4 DEF Spends
  <2>3. QED
    BY <2>1, <2>2 DEF DownloadTypeOK
<1>5. QED
  BY <1>1, <1>2, <1>3, <1>4

(* The lock stays with its holder until the holder releases it.                *)
LEMMA LockStays ==
  ASSUME DownloadTypeOK, NEW a \in Callers \union Others, queue' \in {queue, Append(queue, a)}
  PROVE  queue' \in Seq(Callers \union Others) /\ \A c : Holds(c) => Holds(c)'
<1>1. CASE queue' = queue
  BY <1>1 DEF DownloadTypeOK, Holds
<1>2. CASE queue' = Append(queue, a)
  <2>1. queue \in Seq(Callers \union Others)
    BY DEF DownloadTypeOK
  <2>2. queue' \in Seq(Callers \union Others) /\ queue' # <<>>
    BY <1>2, <2>1
  <2>3. queue # <<>> => Head(queue') = Head(queue)
    BY <1>2, <2>1
  <2>4. QED
    BY <2>2, <2>3 DEF Holds
<1>3. QED
  BY <1>1, <1>2

LEMMA LockReleased ==
  ASSUME DownloadTypeOK, NEW a, Holds(a), Release
  PROVE  queue' \in Seq(Callers \union Others) /\ \A c : Holds(c) => c = a
BY DEF DownloadTypeOK, Holds, Release

LEMMA HeldAreBooks == DownloadTypeOK => Held \subseteq Books /\ Active \subseteq Ids
BY DownloadConstants DEF DownloadTypeOK, Held, Active, DownloadRow

LEMMA AccountTyped ==
  ASSUME DownloadTypeOK, NEW lost \in SUBSET Books, NEW gone \in SUBSET Books, Account(lost, gone)
  PROVE  orphan' \subseteq Books /\ hollow' \subseteq Books
BY DEF DownloadTypeOK, Account

(* What moving, ending and finding do to the calls.                            *)
OnlyCall(c, at, book, id) ==
  /\ call' \in [Callers -> Call]
  /\ call'[c].at = at /\ call'[c].book = book /\ call'[c].id = id
  /\ \A d \in Callers : d # c => call'[d] = call[d]

LEMMA CallMoved ==
  ASSUME DownloadTypeOK, NEW c \in Callers, NEW place \in Places, CallMoves(c, place)
  PROVE  OnlyCall(c, place, call[c].book, call[c].id)
<1>1. call \in [Callers -> Call]
  BY DEF DownloadTypeOK
<1>2. [call[c] EXCEPT !.at = place] \in Call
  BY <1>1 DEF Call
<1>3. QED
  BY <1>1, <1>2 DEF CallMoves, OnlyCall, Call

LEMMA CallEnded ==
  ASSUME DownloadTypeOK, NEW c \in Callers, CallEnds(c)
  PROVE  OnlyCall(c, "idle", None, None)
BY Idle DEF DownloadTypeOK, CallEnds, OnlyCall, NoCall

LEMMA CallFound ==
  ASSUME DownloadTypeOK, NEW c \in Callers, NEW i \in Ids \union {None}, NEW place \in Places,
         call' = [call EXCEPT ![c] = [@ EXCEPT !.at = place, !.id = i]]
  PROVE  OnlyCall(c, place, call[c].book, i)
<1>1. call \in [Callers -> Call]
  BY DEF DownloadTypeOK
<1>2. [call[c] EXCEPT !.at = place, !.id = i] \in Call
  BY <1>1 DEF Call
<1>3. QED
  BY <1>1, <1>2 DEF OnlyCall, Call

LEMMA CallStarted ==
  ASSUME DownloadTypeOK, NEW c \in Callers, NEW b \in Books,
         call' = [call EXCEPT ![c] = [NoCall EXCEPT !.at = "licence", !.book = b]]
  PROVE  OnlyCall(c, "licence", b, None)
<1>1. call \in [Callers -> Call]
  BY DEF DownloadTypeOK
<1>2. [NoCall EXCEPT !.at = "licence", !.book = b] \in Call
  BY DEF Call, NoCall, Places
<1>3. QED
  BY <1>1, <1>2 DEF OnlyCall, NoCall

LEMMA LockKept ==
  ASSUME LockIsHeld, NEW c \in Callers, NEW at, NEW book, NEW id, OnlyCall(c, at, book, id),
         \A d : Holds(d) => Holds(d)', CallFits(at, book, id),
         at \in Counting \union {"undo"} => Holds(c)
  PROVE  LockIsHeld'
BY DEF LockIsHeld, OnlyCall

LEMMA LockLeft ==
  ASSUME DownloadTypeOK, LockIsHeld, NEW c \in Callers, NEW at, NEW book, NEW id,
         OnlyCall(c, at, book, id), Holds(c), Release, CallFits(at, book, id),
         at \notin Counting \union {"undo"}
  PROVE  LockIsHeld' /\ queue' \in Seq(Callers \union Others)
BY LockReleased DEF LockIsHeld, OnlyCall

LEMMA SameQueue == ASSUME UNCHANGED queue PROVE \A d : Holds(d) => Holds(d)'
BY DEF Holds

LEMMA Placed ==
  /\ {"idle", "licence", "fetch", "queued", "look", "restore", "save", "undo", "tell"} = Places
  /\ Counting \subseteq Places /\ Early \subseteq Places
BY DEF Places, Counting, Early

LEMMA CallTypes ==
  ASSUME Typed, NEW c \in Callers, CallStep(c) PROVE Typed'
<1> USE DEF Typed
<1>0. /\ call \in [Callers -> Call] /\ CallFits(call[c].at, call[c].book, call[c].id)
      /\ call[c].id \in Ids \union {None}
  BY DEF DownloadTypeOK, LockIsHeld, Call
<1>a. ASSUME RollsBack(c), call[c].at # "idle"
      PROVE  /\ OnlyCall(c, "undo", call[c].book, call[c].id)
             /\ copy' \subseteq Books /\ orphan' \subseteq Books /\ hollow' \subseteq Books
             /\ UNCHANGED <<row, queue>>
             /\ CallFits("undo", call[c].book, call[c].id)
  <2>1. {} \in SUBSET Books /\ {call[c].book} \in SUBSET Books
    BY <1>0, <1>a DEF CallFits
  <2>2. copy' \subseteq Books /\ UNCHANGED <<row, queue>>
    BY <1>a DEF RollsBack, DownloadTypeOK
  <2>3. Account({}, {call[c].book}) \/ Account({call[c].book}, {})
    BY <1>a DEF RollsBack
  <2>4. orphan' \subseteq Books /\ hollow' \subseteq Books
    BY <2>1, <2>3, AccountTyped
  <2>5. QED
    BY <1>0, <1>a, <2>2, <2>4, CallMoved, Placed DEF RollsBack, CallFits, Early
<1>b. ASSUME NEW i \in Ids \union {None}, Finds(c, i), call[c].at # "idle"
      PROVE  /\ OnlyCall(c, "save", call[c].book, i) /\ UNCHANGED <<copy, row, queue, orphan, hollow>>
             /\ CallFits("save", call[c].book, i)
  BY <1>0, <1>b, CallFound, Placed DEF Finds, CallFits, Early
<1>c. OutsideCalls' = OutsideCalls /\ UNCHANGED <<remote, row>> /\ LockIsHeld'
      /\ (\E at, book, id : OnlyCall(c, at, book, id))
      /\ copy' \subseteq Books /\ orphan' \subseteq Books /\ hollow' \subseteq Books
      /\ queue' \in Seq(Callers \union Others)
      => Typed'
  BY DEF DownloadTypeOK, Clearing, OnlyCall, OutsideCalls
<1>d. /\ copy \subseteq Books /\ orphan \subseteq Books /\ hollow \subseteq Books
      /\ queue \in Seq(Callers \union Others)
  BY DEF DownloadTypeOK
<1>1. ASSUME NEW b \in Books, DownloadStarts(c, b) PROVE Typed'
  <2>1. OnlyCall(c, "licence", b, None) /\ CallFits("licence", b, None)
    BY <1>1, CallStarted DEF DownloadStarts, CallFits, Early
  <2>2. spent' \in [starts : 0..MaxStarts, deletions : 0..MaxDeletions, other : 0..MaxOther,
                    restarts : 0..MaxDownloadRestarts]
    BY <1>1, SpendsTyped DEF DownloadStarts
  <2>3. LockIsHeld'
    BY <1>1, <2>1, LockKept, SameQueue DEF DownloadStarts, Counting
  <2>4. QED
    BY <1>1, <2>1, <2>2, <2>3 DEF DownloadStarts, DownloadTypeOK, Clearing, OnlyCall, Histories
<1>e. CallFits("idle", None, None)
  BY DEF CallFits, Early
<1>2. CASE Licensed(c)
  <2>1. CASE CallMoves(c, "fetch")
    <3>1. OnlyCall(c, "fetch", call[c].book, call[c].id) /\ CallFits("fetch", call[c].book, call[c].id)
      BY <1>0, <1>2, <2>1, CallMoved, Placed DEF Licensed, CallFits, Early
    <3>2. LockIsHeld'
      BY <1>2, <3>1, LockKept, SameQueue DEF Licensed, Counting
    <3>3. QED
      BY <1>c, <1>d, <1>2, <3>1, <3>2 DEF Licensed, OutsideCalls
  <2>2. CASE CallEnds(c)
    <3>1. OnlyCall(c, "idle", None, None)
      BY <2>2, CallEnded
    <3>2. LockIsHeld'
      BY <1>2, <1>e, <3>1, LockKept, SameQueue DEF Licensed, Counting
    <3>3. QED
      BY <1>c, <1>d, <1>2, <3>1, <3>2 DEF Licensed, OutsideCalls
  <2>3. QED
    BY <1>2, <2>1, <2>2 DEF Licensed
<1>3. CASE Stored(c)
  <2>1. orphan' \subseteq Books /\ hollow' \subseteq Books
    <3>1. {} \in SUBSET Books
      OBVIOUS
    <3>2. QED
      BY <1>3, <3>1, AccountTyped DEF Stored
  <2>2. CASE copy' = copy \union {call[c].book} /\ queue' = Append(queue, c) /\ CallMoves(c, "queued")
    <3>1. OnlyCall(c, "queued", call[c].book, call[c].id) /\ CallFits("queued", call[c].book, call[c].id)
      BY <1>0, <1>3, <2>2, CallMoved, Placed DEF Stored, CallFits, Early
    <3>2. queue' \in Seq(Callers \union Others) /\ \A d : Holds(d) => Holds(d)'
      BY <2>2, LockStays
    <3>3. LockIsHeld'
      BY <3>1, <3>2, LockKept DEF Counting
    <3>4. copy' \subseteq Books
      BY <1>d, <2>2, <3>1 DEF CallFits
    <3>5. QED
      BY <1>c, <1>3, <2>1, <3>1, <3>2, <3>3, <3>4 DEF Stored, OutsideCalls
  <2>3. CASE CallEnds(c) /\ UNCHANGED <<copy, queue>>
    <3>1. OnlyCall(c, "idle", None, None)
      BY <2>3, CallEnded
    <3>2. LockIsHeld'
      BY <1>e, <2>3, <3>1, LockKept, SameQueue DEF Counting
    <3>3. QED
      BY <1>c, <1>d, <1>3, <2>1, <2>3, <3>1, <3>2 DEF Stored, OutsideCalls
  <2>4. QED
    BY <1>3, <2>2, <2>3 DEF Stored
<1>4. CASE Enter(c)
  <2>1. Holds(c) /\ call[c].at = "queued" /\ OutsideCalls' = OutsideCalls /\ UNCHANGED remote
    BY <1>4 DEF Enter, OutsideCalls
  <2>2. CASE RollsBack(c)
    <3>1. LockIsHeld'
      BY <1>a, <2>1, <2>2, LockKept, SameQueue
    <3>2. QED
      BY <1>a, <1>c, <1>d, <2>1, <2>2, <3>1
  <2>3. ASSUME NEW i \in ActiveOf(call[c].book), Finds(c, i) PROVE Typed'
    <3>1. i \in Ids
      BY DEF ActiveOf, Active
    <3>2. LockIsHeld'
      BY <1>b, <2>1, <2>3, <3>1, LockKept, SameQueue
    <3>3. QED
      BY <1>b, <1>c, <1>d, <2>1, <2>3, <3>1, <3>2
  <2>4. CASE CallMoves(c, "look") /\ UNCHANGED <<copy, row, queue, orphan, hollow>>
    <3>1. OnlyCall(c, "look", call[c].book, call[c].id) /\ CallFits("look", call[c].book, call[c].id)
      BY <1>0, <2>1, <2>4, CallMoved, Placed DEF CallFits, Early
    <3>2. LockIsHeld'
      BY <2>1, <2>4, <3>1, LockKept, SameQueue
    <3>3. QED
      BY <1>c, <1>d, <2>1, <2>4, <3>1, <3>2
  <2>5. QED
    BY <1>4, <2>2, <2>3, <2>4 DEF Enter
<1>5. CASE Look(c)
  <2> DEFINE found == remote[call[c].book]
  <2>1. Holds(c) /\ call[c].at = "look" /\ OutsideCalls' = OutsideCalls /\ UNCHANGED remote
    BY <1>5 DEF Look, OutsideCalls, LockIsHeld, Counting
  <2>a. found \in Document \union {None}
    BY <1>0, <2>1 DEF DownloadTypeOK, CallFits
  <2>2. CASE RollsBack(c)
    <3>1. LockIsHeld'
      BY <1>a, <2>1, <2>2, LockKept, SameQueue
    <3>2. QED
      BY <1>a, <1>c, <1>d, <2>1, <2>2, <3>1
  <2>3. ASSUME NEW i \in Ids \union {None}, Finds(c, i) PROVE Typed'
    <3>1. LockIsHeld'
      BY <1>b, <2>1, <2>3, LockKept, SameQueue
    <3>2. QED
      BY <1>b, <1>c, <1>d, <2>1, <2>3, <3>1
  <2>4. CASE /\ found # None
             /\ call' = [call EXCEPT ![c] = [@ EXCEPT !.at = "restore", !.id = found.id]]
             /\ UNCHANGED <<copy, row, queue, orphan, hollow>>
    <3>1. found.id \in Ids
      BY <2>a, <2>4 DEF Document
    <3>2. OnlyCall(c, "restore", call[c].book, found.id) /\ CallFits("restore", call[c].book, found.id)
      BY <1>0, <2>1, <2>4, <3>1, CallFound, Placed DEF CallFits, Early
    <3>3. LockIsHeld'
      BY <2>1, <2>4, <3>2, LockKept, SameQueue
    <3>4. QED
      BY <1>c, <1>d, <2>1, <2>4, <3>2, <3>3
  <2>5. QED
    BY <1>5, <2>a, <2>2, <2>3, <2>4 DEF Look, Document
<1>6. CASE Restore(c)
  <2>1. Holds(c) /\ call[c].at = "restore" /\ OutsideCalls' = OutsideCalls
    BY <1>6 DEF Restore, OutsideCalls, LockIsHeld, Counting
  <2>2. CASE RollsBack(c) /\ UNCHANGED remote
    <3>1. LockIsHeld'
      BY <1>a, <2>1, <2>2, LockKept, SameQueue
    <3>2. QED
      BY <1>a, <1>c, <1>d, <2>1, <2>2, <3>1
  <2>3. CASE /\ remote' = [remote EXCEPT ![call[c].book] = [id |-> call[c].id, live |-> TRUE]]
             /\ Finds(c, call[c].id)
    <3>1. LockIsHeld'
      BY <1>0, <1>b, <2>1, <2>3, LockKept, SameQueue
    <3>2. remote' \in [Books -> Document \union {None}]
      <4>1. [id |-> call[c].id, live |-> TRUE] \in Document
        BY <1>0, <2>1 DEF CallFits, Document
      <4>2. QED
        BY <2>3, <4>1 DEF DownloadTypeOK
    <3>3. QED
      BY <1>0, <1>b, <2>1, <2>3, <3>1, <3>2 DEF DownloadTypeOK, Clearing, OnlyCall, OutsideCalls
  <2>4. QED
    BY <1>6, <2>2, <2>3 DEF Restore
<1>7. CASE Save(c)
  <2>1. Holds(c) /\ call[c].at = "save" /\ OutsideCalls' = OutsideCalls
        /\ UNCHANGED <<copy, remote>> /\ Release
    BY <1>7 DEF Save, OutsideCalls, LockIsHeld, Counting
  <2>2. OnlyCall(c, "tell", call[c].book, call[c].id) /\ CallFits("tell", call[c].book, call[c].id)
    BY <1>0, <1>7, <2>1, CallMoved, Placed DEF Save, CallFits, Early
  <2>3. LockIsHeld' /\ queue' \in Seq(Callers \union Others)
    BY <2>1, <2>2, LockLeft DEF Counting
  <2>4. orphan' \subseteq Books /\ hollow' \subseteq Books
    <3>1. {} \in SUBSET Books
      OBVIOUS
    <3>2. QED
      BY <1>7, <3>1, AccountTyped DEF Save
  <2>5. row' \in [Ids -> DownloadRow \union {None}]
    <3>1. [book |-> call[c].book, live |-> TRUE, dirty |-> TRUE] \in DownloadRow
      BY <1>0, <2>1 DEF CallFits, DownloadRow
    <3>2. QED
      BY <1>7, <3>1 DEF Save, DownloadTypeOK
  <2>6. QED
    BY <2>1, <2>2, <2>3, <2>4, <2>5 DEF DownloadTypeOK, Clearing, OnlyCall, OutsideCalls
<1>8. CASE Undone(c)
  <2>1. Holds(c) /\ Release
    BY <1>8 DEF Undone, LockIsHeld
  <2>2. OnlyCall(c, "idle", None, None)
    BY <1>8, CallEnded DEF Undone
  <2>3. LockIsHeld' /\ queue' \in Seq(Callers \union Others)
    BY <1>e, <2>1, <2>2, LockLeft DEF Counting
  <2>4. QED
    BY <1>c, <1>d, <1>8, <2>2, <2>3 DEF Undone, OutsideCalls
<1>9. CASE Tell(c)
  <2>1. OnlyCall(c, "idle", None, None)
    BY <1>9, CallEnded DEF Tell
  <2>2. LockIsHeld'
    BY <1>9, <1>e, <2>1, LockKept, SameQueue DEF Tell, Counting
  <2>3. shelf' \subseteq Books
    BY <1>0, <1>9 DEF Tell, CallFits, DownloadTypeOK
  <2>4. QED
    BY <1>9, <2>1, <2>2, <2>3 DEF Tell, DownloadTypeOK, Clearing, OnlyCall, Histories
<1>10. CASE FailsLocked(c)
  <2>1. Holds(c) /\ Release /\ Account({call[c].book}, {}) /\ UNCHANGED <<copy, row, remote>>
        /\ OutsideCalls' = OutsideCalls
    BY <1>10 DEF FailsLocked, OutsideCalls
  <2>2. OnlyCall(c, "idle", None, None)
    BY <1>10, CallEnded DEF FailsLocked
  <2>3. LockIsHeld' /\ queue' \in Seq(Callers \union Others)
    BY <1>e, <2>1, <2>2, LockLeft DEF Counting
  <2>4. {} \in SUBSET Books /\ {call[c].book} \in SUBSET Books
    BY <1>0, <1>10 DEF FailsLocked, CallFits
  <2>5. orphan' \subseteq Books /\ hollow' \subseteq Books
    BY <2>1, <2>4, AccountTyped
  <2>6. QED
    BY <1>c, <1>d, <2>1, <2>2, <2>3, <2>5
<1>11. QED
  BY <1>1, <1>2, <1>3, <1>4, <1>5, <1>6, <1>7, <1>8, <1>9, <1>10 DEF CallStep

(* A step of nobody's call leaves the calls and their lock alone.              *)
LEMMA CallsAlone ==
  ASSUME LockIsHeld, UNCHANGED call, \A d \in Callers : Holds(d) => Holds(d)'
  PROVE  LockIsHeld'
BY DEF LockIsHeld

LEMMA RowTyped ==
  ASSUME DownloadTypeOK, NEW i \in Ids, row[i] # None
  PROVE  /\ row[i] \in DownloadRow /\ row[i].book \in Books
         /\ \A live, dirty \in BOOLEAN :
              /\ [row[i] EXCEPT !.live = live, !.dirty = dirty] \in DownloadRow
              /\ [row[i] EXCEPT !.dirty = dirty] \in DownloadRow
<1>1. row[i] \in DownloadRow
  BY DEF DownloadTypeOK
<1>2. QED
  BY <1>1 DEF DownloadRow

LEMMA DocumentTyped ==
  ASSUME DownloadTypeOK, NEW b \in Books, remote[b] # None
  PROVE  /\ remote[b] \in Document /\ remote[b].id \in Ids
         /\ \A live \in BOOLEAN : [remote[b] EXCEPT !.live = live] \in Document
<1>1. remote[b] \in Document
  BY DEF DownloadTypeOK
<1>2. QED
  BY <1>1 DEF Document

LEMMA NewIds == Unused # {} => NewId \in Unused /\ NewId \in Ids
BY DEF Unused, NewId

LEMMA TombstoneTyped ==
  ASSUME DownloadTypeOK, NEW i \in Ids, row[i] # None, Tombstone(i)
  PROVE  /\ row' \in [Ids -> DownloadRow \union {None}]
         /\ orphan' \subseteq Books /\ hollow' \subseteq Books
<1>1. {row[i].book} \in SUBSET Books /\ {} \in SUBSET Books
  BY RowTyped
<1>2. orphan' \subseteq Books /\ hollow' \subseteq Books
  BY <1>1, AccountTyped DEF Tombstone
<1>3. [row[i] EXCEPT !.live = FALSE, !.dirty = FALSE] \in DownloadRow
  BY RowTyped
<1>4. QED
  BY <1>2, <1>3 DEF Tombstone, DownloadTypeOK

LEMMA PushTypes ==
  ASSUME Typed, NEW i \in Ids, Push(i) PROVE Typed'
<1> USE DEF Typed
<1> DEFINE b == row[i].book
           had == remote[b]
           settled == [row EXCEPT ![i] = [@ EXCEPT !.dirty = FALSE]]
<1>1. row[i] # None /\ UNCHANGED <<copy, shelf, call, queue, removal, clear, spent>>
  BY DEF Push
<1>2. b \in Books /\ row[i].live \in BOOLEAN /\ settled \in [Ids -> DownloadRow \union {None}]
  <2>1. row[i] \in DownloadRow /\ [row[i] EXCEPT !.dirty = FALSE] \in DownloadRow
    BY <1>1, RowTyped
  <2>2. QED
    BY <2>1 DEF DownloadTypeOK, DownloadRow
<1>3. LockIsHeld' /\ Clearing'
  BY <1>1, CallsAlone, SameQueue DEF Clearing
<1>4. SUFFICES /\ row' \in [Ids -> DownloadRow \union {None}]
               /\ remote' \in [Books -> Document \union {None}]
               /\ orphan' \subseteq Books /\ hollow' \subseteq Books /\ doubled' \subseteq Books
  BY <1>1, <1>3 DEF DownloadTypeOK
<1>5. CASE /\ remote' = IF had = None /\ ~row[i].live THEN remote
                        ELSE [remote EXCEPT ![b] = [id |-> i, live |-> row[i].live]]
           /\ row' = settled
           /\ UNCHANGED Histories
  <2>1. [id |-> i, live |-> row[i].live] \in Document
    BY <1>2 DEF Document
  <2>2. QED
    BY <1>2, <1>5, <2>1 DEF DownloadTypeOK, Histories
<1>6. CASE Tombstone(i) /\ UNCHANGED <<remote, doubled>>
  BY <1>1, <1>6, TombstoneTyped DEF DownloadTypeOK
<1>7. CASE /\ had # None
           /\ remote' = [remote EXCEPT ![b] = [@ EXCEPT !.live = TRUE]]
           /\ row' = [row EXCEPT ![i] = None,
                        ![had.id] = [book |-> b, live |-> TRUE, dirty |-> FALSE]]
           /\ doubled' = (doubled \ {b}) \union {d \in {b} : InHand(d)}
           /\ UNCHANGED <<orphan, hollow>>
  <2>1. [had EXCEPT !.live = TRUE] \in Document
    BY <1>2, <1>7, DocumentTyped
  <2>2. [book |-> b, live |-> TRUE, dirty |-> FALSE] \in DownloadRow
    BY <1>2 DEF DownloadRow
  <2>3. QED
    BY <1>2, <1>7, <2>1, <2>2 DEF DownloadTypeOK
<1>8. CASE row' = settled /\ UNCHANGED <<remote, Histories>>
  BY <1>2, <1>8 DEF DownloadTypeOK, Histories
<1>9. QED
  BY <1>5, <1>6, <1>7, <1>8 DEF Push

LEMMA PullTypes ==
  ASSUME Typed, NEW b \in Books, Pull(b) PROVE Typed'
<1> USE DEF Typed
<1>1. UNCHANGED <<copy, shelf, remote, call, queue, removal, clear, spent>> /\ remote[b].id \in Ids
  BY DocumentTyped DEF Pull
<1>2. LockIsHeld' /\ Clearing'
  BY <1>1, CallsAlone, SameQueue DEF Clearing
<1>3. SUFFICES /\ row' \in [Ids -> DownloadRow \union {None}]
               /\ orphan' \subseteq Books /\ hollow' \subseteq Books /\ doubled' \subseteq Books
  BY <1>1, <1>2 DEF DownloadTypeOK
<1> DEFINE i == remote[b].id
<1>4. CASE /\ row' = [row EXCEPT ![i] = [book |-> b, live |-> TRUE, dirty |-> FALSE]]
           /\ Account({}, {b})
           /\ doubled' = doubled \union {b}
  <2>1. [book |-> b, live |-> TRUE, dirty |-> FALSE] \in DownloadRow
    BY DEF DownloadRow
  <2>2. {} \in SUBSET Books /\ {b} \in SUBSET Books
    OBVIOUS
  <2>3. orphan' \subseteq Books /\ hollow' \subseteq Books
    BY <1>4, <2>2, AccountTyped
  <2>4. QED
    BY <1>1, <1>4, <2>1, <2>3 DEF DownloadTypeOK
<1>5. CASE row[i] # None /\ Tombstone(i) /\ UNCHANGED doubled
  BY <1>1, <1>5, TombstoneTyped DEF DownloadTypeOK
<1>6. QED
  BY <1>4, <1>5 DEF Pull

(* Whoever else holds the lock, no call is past its queue.                     *)
LEMMA OthersRelease ==
  ASSUME DownloadTypeOK, LockIsHeld, NEW a \in Others, Holds(a), Release, UNCHANGED call
  PROVE  LockIsHeld' /\ queue' \in Seq(Callers \union Others)
BY LockReleased, DownloadConstants DEF LockIsHeld, Others

LEMMA RemovalTypes ==
  ASSUME Typed, NEW b \in Books,
         (\E kind \in {"delete", "sweep"} : StartRemoval(b, kind)) \/ EndRemoval(b)
  PROVE  Typed'
<1> USE DEF Typed
<1>1. ASSUME NEW kind \in {"delete", "sweep"}, StartRemoval(b, kind) PROVE Typed'
  <2>1. LockIsHeld' /\ Clearing'
    BY <1>1, CallsAlone, SameQueue DEF StartRemoval, Clearing
  <2>2. spent' \in [starts : 0..MaxStarts, deletions : 0..MaxDeletions, other : 0..MaxOther,
                    restarts : 0..MaxDownloadRestarts]
    BY <1>1, SpendsTyped DEF StartRemoval
  <2>3. {} \in SUBSET Books /\ {b} \in SUBSET Books
    OBVIOUS
  <2>4. orphan' \subseteq Books /\ hollow' \subseteq Books /\ copy' \subseteq Books
    BY <1>1, <2>3, AccountTyped DEF StartRemoval, DownloadTypeOK
  <2>5. removal' \in [Books -> {"none", "delete", "sweep", "failed"}]
    BY <1>1 DEF StartRemoval, DownloadTypeOK
  <2>6. QED
    BY <1>1, <2>1, <2>2, <2>4, <2>5 DEF StartRemoval, DownloadTypeOK
<1>2. CASE EndRemoval(b)
  <2>1. LockIsHeld' /\ Clearing'
    BY <1>2, CallsAlone, SameQueue DEF EndRemoval, Clearing
  <2>2. QED
    BY <1>2, <2>1 DEF EndRemoval, DownloadTypeOK, Histories
<1>3. QED
  BY <1>1, <1>2

LEMMA ClearTypes ==
  ASSUME Typed, ClearAll \/ ClearNext \/ ClearQueues \/ ClearWrites \/ ClearFails PROVE Typed'
<1> USE DEF Typed
<1>0. /\ clear \in Clear /\ clear.todo \subseteq Ids /\ clear.id \in Ids \union {None}
      /\ clear.at \in {"idle", "next", "destroy", "queued"}
  BY DEF DownloadTypeOK, Clear
<1>1. CASE ClearAll
  <2>1. LockIsHeld'
    BY <1>1, CallsAlone, SameQueue DEF ClearAll
  <2>2. spent' \in [starts : 0..MaxStarts, deletions : 0..MaxDeletions, other : 0..MaxOther,
                    restarts : 0..MaxDownloadRestarts]
    BY <1>1, SpendsTyped DEF ClearAll
  <2>3. clear' \in Clear /\ Clearing'
    BY <1>1, HeldAreBooks DEF ClearAll, Clear, Clearing
  <2>4. QED
    BY <1>1, <2>1, <2>2, <2>3 DEF ClearAll, DownloadTypeOK, Histories
<1>2. CASE ClearNext
  <2>1. LockIsHeld'
    BY <1>2, CallsAlone, SameQueue DEF ClearNext
  <2>2. ASSUME NEW i \in clear.todo,
               clear' = [at |-> "destroy", todo |-> clear.todo \ {i}, id |-> i],
               NEW books, books = {row[j].book : j \in {i} \intersect {j \in Ids : row[j] # None}},
               \/ copy' = copy \ books /\ Account({}, books)
               \/ UNCHANGED <<copy, orphan, hollow>>
        PROVE Typed'
    <3>1. clear' \in Clear /\ Clearing'
      BY <1>0, <2>2 DEF Clear, Clearing
    <3>2. {} \in SUBSET Books /\ books \in SUBSET Books
      BY <2>2, RowTyped
    <3>3. orphan' \subseteq Books /\ hollow' \subseteq Books /\ copy' \subseteq Books
      BY <2>2, <3>2, AccountTyped DEF DownloadTypeOK
    <3>4. QED
      BY <1>2, <2>1, <3>1, <3>3 DEF ClearNext, DownloadTypeOK
  <2>3. CASE clear' = NoClear /\ UNCHANGED <<copy, orphan, hollow>>
    <3>1. clear' \in Clear /\ Clearing'
      BY <2>3, Idle DEF NoClear, Clearing
    <3>2. QED
      BY <1>2, <2>1, <2>3, <3>1 DEF ClearNext, DownloadTypeOK
  <2>4. QED
    BY <1>2, <2>2, <2>3 DEF ClearNext
<1>3. CASE ClearQueues
  <2>1. queue' \in Seq(Callers \union Others) /\ \A d : Holds(d) => Holds(d)'
    BY <1>3, LockStays DEF ClearQueues, Others
  <2>2. LockIsHeld'
    BY <1>3, <2>1, CallsAlone DEF ClearQueues
  <2>3. clear' \in Clear /\ Clearing'
    BY <1>0, <1>3 DEF ClearQueues, Clear, Clearing
  <2>4. QED
    BY <1>3, <2>1, <2>2, <2>3 DEF ClearQueues, DownloadTypeOK, Histories
<1>4. CASE ClearWrites
  <2>1. LockIsHeld' /\ queue' \in Seq(Callers \union Others)
    BY <1>4, OthersRelease DEF ClearWrites, Others
  <2>2. clear' \in Clear /\ Clearing' /\ clear.id \in Ids
    BY <1>0, <1>4 DEF ClearWrites, Clear, Clearing
  <2>3. CASE row[clear.id] = None
    BY <1>4, <2>1, <2>2, <2>3 DEF ClearWrites, DownloadTypeOK
  <2>4. CASE row[clear.id] # None
    <3>1. row' = [row EXCEPT ![clear.id] = [@ EXCEPT !.live = FALSE, !.dirty = TRUE]]
          /\ Account({row[clear.id].book}, {})
      BY <1>4, <2>4 DEF ClearWrites
    <3>2. [row[clear.id] EXCEPT !.live = FALSE, !.dirty = TRUE] \in DownloadRow
      BY <2>2, <2>4, RowTyped
    <3>3. {} \in SUBSET Books /\ {row[clear.id].book} \in SUBSET Books
      BY <2>2, <2>4, RowTyped
    <3>4. orphan' \subseteq Books /\ hollow' \subseteq Books
      BY <3>1, <3>3, AccountTyped
    <3>5. QED
      BY <1>4, <2>1, <2>2, <3>1, <3>2, <3>4 DEF ClearWrites, DownloadTypeOK
  <2>5. QED
    BY <2>3, <2>4
<1>5. CASE ClearFails
  <2>1. clear' = NoClear /\ UNCHANGED <<copy, row, shelf, remote, call, removal, Histories, spent>>
    BY <1>5 DEF ClearFails
  <2>2. LockIsHeld' /\ queue' \in Seq(Callers \union Others)
    <3>1. CASE UNCHANGED queue
      BY <2>1, <3>1, CallsAlone, SameQueue DEF DownloadTypeOK
    <3>2. CASE Holds("clear") /\ Release
      BY <2>1, <3>2, OthersRelease DEF Others
    <3>3. QED
      BY <1>5, <3>1, <3>2 DEF ClearFails
  <2>3. clear' \in Clear /\ Clearing'
    BY <2>1, Idle DEF NoClear, Clearing
  <2>4. QED
    BY <2>1, <2>2, <2>3 DEF DownloadTypeOK, Histories
<1>6. QED
  BY <1>1, <1>2, <1>3, <1>4, <1>5

LEMMA WriterTypes ==
  ASSUME Typed, WriterAsks \/ WriterWrites PROVE Typed'
<1> USE DEF Typed
<1>1. CASE WriterAsks
  <2>1. queue' \in Seq(Callers \union Others) /\ \A d : Holds(d) => Holds(d)'
    BY <1>1, LockStays DEF WriterAsks, Others
  <2>2. LockIsHeld' /\ Clearing'
    BY <1>1, <2>1, CallsAlone DEF WriterAsks, Clearing
  <2>3. QED
    BY <1>1, <2>1, <2>2 DEF WriterAsks, DownloadTypeOK, Histories
<1>2. CASE WriterWrites
  <2>1. LockIsHeld' /\ queue' \in Seq(Callers \union Others)
    BY <1>2, OthersRelease DEF WriterWrites, Others
  <2>2. QED
    BY <1>2, <2>1 DEF WriterWrites, DownloadTypeOK, Histories, Clearing
<1>3. QED
  BY <1>1, <1>2

LEMMA OtherDeviceTypes ==
  ASSUME Typed, NEW b \in Books, OtherDevice(b) PROVE Typed'
<1> USE DEF Typed
<1>1. LockIsHeld' /\ Clearing'
  BY CallsAlone, SameQueue DEF OtherDevice, Clearing
<1>2. spent' \in [starts : 0..MaxStarts, deletions : 0..MaxDeletions, other : 0..MaxOther,
                  restarts : 0..MaxDownloadRestarts]
  BY SpendsTyped DEF OtherDevice
<1>3. remote' \in [Books -> Document \union {None}]
  <2>1. CASE remote[b] = None
    <3>1. [id |-> NewId, live |-> TRUE] \in Document
      BY <2>1, NewIds DEF OtherDevice, Document
    <3>2. QED
      BY <2>1, <3>1 DEF OtherDevice, DownloadTypeOK
  <2>2. CASE remote[b] # None
    <3> DEFINE doc == [remote[b] EXCEPT !.live = ~remote[b].live]
    <3>1. doc \in Document
      <4>1. \A live \in BOOLEAN : [remote[b] EXCEPT !.live = live] \in Document
        BY <2>2, DocumentTyped
      <4>2. (~remote[b].live) \in BOOLEAN
        OBVIOUS
      <4>3. QED
        BY <4>1, <4>2
    <3>2. remote' = [remote EXCEPT ![b] = doc]
      BY <2>2 DEF OtherDevice
    <3> HIDE DEF doc
    <3>3. QED
      BY <3>1, <3>2 DEF DownloadTypeOK
  <2>3. QED
    BY <2>1, <2>2
<1>4. QED
  BY <1>1, <1>2, <1>3 DEF OtherDevice, DownloadTypeOK, Histories

LEMMA RestartTypes ==
  ASSUME Typed, DownloadsRestart PROVE Typed'
<1> USE DEF Typed
<1>1. spent' \in [starts : 0..MaxStarts, deletions : 0..MaxDeletions, other : 0..MaxOther,
                  restarts : 0..MaxDownloadRestarts]
  BY SpendsTyped DEF DownloadsRestart
<1>2. call' \in [Callers -> Call] /\ clear' \in Clear /\ LockIsHeld' /\ Clearing'
  BY Idle DEF DownloadsRestart, LockIsHeld, Clearing, NoCall, NoClear, CallFits, Counting, Early
<1>3. {} \in SUBSET Books /\ {b \in Books : InHand(b)} \in SUBSET Books
  OBVIOUS
<1>4. orphan' \subseteq Books /\ hollow' \subseteq Books
  BY <1>3, AccountTyped DEF DownloadsRestart
<1>5. queue' \in Seq(Callers \union Others)
  BY DEF DownloadsRestart
<1>6. QED
  BY <1>1, <1>2, <1>4, <1>5 DEF DownloadsRestart, DownloadTypeOK

(* The types, the lock's holder and the row in hand are kept by every step.    *)
LEMMA DownloadTyped ==
  ASSUME Typed, [DownloadNext]_downloadVars PROVE Typed'
<1>1. CASE UNCHANGED downloadVars
  BY <1>1, CallsAlone, SameQueue DEF Typed, DownloadTypeOK, Clearing, downloadVars
<1>2. QED
  BY <1>1, CallTypes, RemovalTypes, ClearTypes, WriterTypes, PushTypes, PullTypes,
     OtherDeviceTypes, RestartTypes DEF DownloadNext

-----------------------------------------------------------------------------
(* What a change of the rows does to the lists made of them.                   *)

LEMMA RowsStay ==
  ASSUME UNCHANGED row
  PROVE  Active' = Active /\ Held' = Held /\ \A b : ActiveOf(b)' = ActiveOf(b)
BY DEF Active, Held, ActiveOf

(* A row changes, and stays with its book.                                     *)
Puts(i, b, live) ==
  /\ row'[i] # None /\ row'[i].book = b /\ row'[i].live = live
  /\ \A j \in Ids : j # i => row'[j] = row[j]

LEMMA RowPut ==
  ASSUME DownloadTypeOK, NEW i \in Ids, NEW b \in Books, NEW live \in BOOLEAN, Puts(i, b, live),
         row[i] # None => row[i].book = b
  PROVE  /\ Active' = IF live THEN Active \union {i} ELSE Active \ {i}
         /\ ActiveOf(b)' = IF live THEN ActiveOf(b) \union {i} ELSE ActiveOf(b) \ {i}
         /\ \A d \in Books : d # b => ActiveOf(d)' = ActiveOf(d)
         /\ Held' \subseteq Held \union {d \in {b} : live}
         /\ Held \subseteq Held' \union {b}
         /\ live => b \in Held'
<1>1. Active' = IF live THEN Active \union {i} ELSE Active \ {i}
  BY DEF Active, Puts
<1>2. \A j \in Active' : j # i => row'[j].book = row[j].book
  BY DEF Active, Puts
<1>3. \A d : ActiveOf(d)' = {j \in Active' : row'[j].book = d}
  BY DEF ActiveOf
<1>4. Held' = {row'[j].book : j \in Active'}
  BY DEF Held
<1>5. row'[i].book = b /\ (i \in Active => row[i].book = b)
  BY DEF Puts, Active
<1>6. ActiveOf(b)' = IF live THEN ActiveOf(b) \union {i} ELSE ActiveOf(b) \ {i}
  BY <1>1, <1>2, <1>3, <1>5 DEF ActiveOf
<1>7. \A d \in Books : d # b => ActiveOf(d)' = ActiveOf(d)
  BY <1>1, <1>2, <1>3, <1>5 DEF ActiveOf
<1>8. Held' \subseteq Held \union {d \in {b} : live}
  BY <1>1, <1>2, <1>4, <1>5 DEF Held
<1>9. Held \subseteq Held' \union {b}
  BY <1>1, <1>2, <1>4, <1>5 DEF Held
<1>10. live => b \in Held'
  BY <1>1, <1>4, <1>5
<1>11. QED
  BY <1>1, <1>6, <1>7, <1>8, <1>9, <1>10

(* The server never gives a book another document.                             *)
Stands == \A b \in Books : remote[b] # None => Server(b)' = Server(b) /\ remote'[b] # None

LEMMA ServerStands == ASSUME UNCHANGED remote PROVE Stands /\ \A b : Server(b)' = Server(b)
BY DEF Stands, Server

(* At most one id is new to its book.                                          *)
LEMMA NamesKept ==
  ASSUME OneBookPerId, NEW j, NEW d \in Books,
         \A i \in Ids : \A b \in Books : Names(i, b)' => Names(i, b) \/ (i = j /\ b = d),
         \A b \in Books : j \in Ids /\ Names(j, b) => b = d
  PROVE  OneBookPerId'
BY DEF OneBookPerId

LEMMA NamesSame ==
  ASSUME OneBookPerId, \A i \in Ids : \A b \in Books : Names(i, b)' => Names(i, b)
  PROVE  OneBookPerId'
BY DEF OneBookPerId

LEMMA Fewer ==
  ASSUME NEW S, NEW T, IsFiniteSet(T), S \subseteq T
  PROVE  IsFiniteSet(S) /\ Cardinality(S) \in Nat /\ Cardinality(S) <= Cardinality(T)
BY FS_Subset, FS_CardinalityType

(* One element more, and one element for another.                              *)
LEMMA OneMore ==
  ASSUME NEW S, NEW T, IsFiniteSet(T), NEW y, S \subseteq T \union {y}
  PROVE  IsFiniteSet(S) /\ Cardinality(S) \in Nat /\ Cardinality(S) <= Cardinality(T) + 1
<1>1. /\ IsFiniteSet(T \union {y})
      /\ Cardinality(T \union {y}) = IF y \in T THEN Cardinality(T) ELSE Cardinality(T) + 1
  BY FS_AddElement
<1>2. Cardinality(T) \in Nat
  BY FS_CardinalityType
<1>3. IsFiniteSet(S) /\ Cardinality(S) \in Nat /\ Cardinality(S) <= Cardinality(T \union {y})
  BY <1>1, Fewer
<1>4. QED
  BY <1>1, <1>2, <1>3

LEMMA Swapped ==
  ASSUME NEW S, NEW T, IsFiniteSet(T), NEW x \in T, NEW y, S \subseteq (T \ {x}) \union {y}
  PROVE  IsFiniteSet(S) /\ Cardinality(S) \in Nat /\ Cardinality(S) <= Cardinality(T)
<1>1. IsFiniteSet(T \ {x}) /\ Cardinality(T \ {x}) = Cardinality(T) - 1
  BY FS_RemoveElement
<1>2. Cardinality(T) \in Nat
  BY FS_CardinalityType
<1>3. IsFiniteSet(S) /\ Cardinality(S) \in Nat /\ Cardinality(S) <= Cardinality(T \ {x}) + 1
  BY <1>1, OneMore
<1>4. QED
  BY <1>1, <1>2, <1>3

-----------------------------------------------------------------------------
(* The rows, their books, their number and the call that has the lock.         *)
RowsRight == OneBookPerId /\ OwnRows /\ CountKept /\ HolderIsRight
IsRight(at, b, id) ==
  /\ Knows(b, id) /\ HasRoom(b, id)
  /\ at = "restore" => id = Server(b)

(* Steps of the calls that leave the rows as they are.                         *)
LEMMA CallsOnRows ==
  ASSUME RowsRight, UNCHANGED <<row, remote, doubled>>,
         \A d \in Callers :
           \/ call'[d] = call[d]
           \/ /\ call'[d].id \in Ids => Names(call'[d].id, call'[d].book)
              /\ call'[d].at \in Counting => IsRight(call'[d].at, call'[d].book, call'[d].id)
  PROVE  RowsRight'
<1>1. OneBookPerId'
  <2>1. \A i \in Ids : \A b \in Books : Names(i, b)' => Names(i, b)
    BY DEF Names
  <2>2. QED
    BY <2>1, NamesSame DEF RowsRight
<1>2. Active' = Active /\ \A b : ActiveOf(b)' = ActiveOf(b) /\ Server(b)' = Server(b)
  BY RowsStay, ServerStands
<1>3. OwnRows'
  BY <1>2 DEF RowsRight, OwnRows
<1>4. Counted' = Counted
  BY <1>2 DEF Counted
<1>5. CountKept'
  BY <1>2, <1>4 DEF RowsRight, CountKept
<1>6. \A b, id : Knows(b, id)' = Knows(b, id) /\ HasRoom(b, id)' = HasRoom(b, id)
  BY <1>2, <1>4 DEF Knows, HasRoom
<1>7. HolderIsRight'
  BY <1>2, <1>6 DEF RowsRight, HolderIsRight, IsRight
<1>8. QED
  BY <1>1, <1>3, <1>5, <1>7 DEF RowsRight

(* Steps that take rows away, or leave them, and add none.                     *)
LEMMA RowsShrink ==
  ASSUME Typed, RowsRight, UNCHANGED doubled, Stands, Active' \subseteq Active,
         \A b \in Books : ActiveOf(b)' \subseteq ActiveOf(b),
         \A i \in Ids : row[i] # None => row'[i] # None,
         \A d \in Callers : call'[d].at \in Counting =>
           /\ call[d].at \in Counting /\ call'[d].book = call[d].book /\ call'[d].id = call[d].id
           /\ call'[d].at = "restore" => call[d].at = "restore",
         OneBookPerId'
  PROVE  RowsRight'
<1>1. doubled \subseteq Books
  BY DEF Typed, DownloadTypeOK
<1>2. \A b \in doubled : Server(b)' = Server(b) /\ remote[b] # None /\ remote'[b] # None
                         /\ remote[b].id \in Ids /\ remote'[b].id = remote[b].id
  BY <1>1, DocumentTyped DEF RowsRight, OwnRows, Stands, Typed, Server
<1>3. OwnRows'
  <2>1. ASSUME NEW b \in Books, NEW i \in ActiveOf(b)', NEW j \in ActiveOf(b)'
        PROVE  i = j \/ (b \in doubled' /\ Server(b)' \in {i, j})
    BY <1>2, <2>1 DEF RowsRight, OwnRows
  <2>2. ASSUME NEW b \in doubled' PROVE remote'[b] # None /\ row'[remote'[b].id] # None
    BY <1>2, <2>2 DEF RowsRight, OwnRows
  <2>3. QED
    BY <2>1, <2>2 DEF OwnRows
<1>4. Counted' \subseteq Counted
  BY <1>2 DEF Counted
<1>5. IsFiniteSet(Active) /\ IsFiniteSet(Counted) /\ IsFiniteSet(Active')
  BY Fewer DEF RowsRight, CountKept, Counted
<1>6. CountKept'
  <2>1. Cardinality(Counted') \in Nat /\ Cardinality(Counted') <= Cardinality(Counted)
    BY <1>4, <1>5, Fewer
  <2>2. Cardinality(Counted) \in Nat /\ Cardinality(Counted) <= BookLimit
    BY <1>5, FS_CardinalityType DEF RowsRight, CountKept
  <2>3. QED
    BY <1>5, <2>1, <2>2, DownloadConstants DEF CountKept
<1>7. ASSUME NEW id PROVE Cardinality(Counted \ {id}) < BookLimit
                          => Cardinality(Counted' \ {id}) < BookLimit
  <2>1. Counted' \ {id} \subseteq Counted \ {id} /\ IsFiniteSet(Counted \ {id})
    BY <1>4, <1>5, Fewer
  <2>2. Cardinality(Counted' \ {id}) \in Nat
        /\ Cardinality(Counted' \ {id}) <= Cardinality(Counted \ {id})
    BY <2>1, Fewer
  <2>3. Cardinality(Counted \ {id}) \in Nat
    BY <2>1, FS_CardinalityType
  <2>4. QED
    BY <2>2, <2>3, DownloadConstants
<1>8. \A b \in Books : \A id : (Knows(b, id) => Knows(b, id)') /\ (HasRoom(b, id) => HasRoom(b, id)')
  BY <1>2, <1>7 DEF Knows, HasRoom
<1>9. \A b \in Books : \A id \in Ids : id = Server(b) => id = Server(b)'
  BY DownloadConstants DEF Server, Stands
<1>10. HolderIsRight'
  <2>1. SUFFICES ASSUME NEW c \in Callers, call'[c].at \in Counting
                 PROVE  /\ Knows(call[c].book, call[c].id)'
                        /\ HasRoom(call[c].book, call[c].id)'
                        /\ (call[c].at = "restore" => call[c].id = Server(call[c].book))'
    BY DEF HolderIsRight
  <2>2. call'[c].book = call[c].book /\ call'[c].id = call[c].id /\ call[c].at \in Counting
        /\ (call'[c].at = "restore" => call[c].at = "restore")
    BY <2>1
  <2>3. call[c].book \in Books /\ CallFits(call[c].at, call[c].book, call[c].id)
    BY <2>2 DEF Typed, LockIsHeld, CallFits, Counting
  <2>4. /\ Knows(call[c].book, call[c].id) /\ HasRoom(call[c].book, call[c].id)
        /\ call[c].at = "restore" => call[c].id = Server(call[c].book)
    BY <2>2 DEF RowsRight, HolderIsRight
  <2>5. PICK b \in Books, id \in {call[c].id} : b = call[c].book /\ id = call[c].id
    BY <2>3
  <2>6. Knows(b, id)' /\ HasRoom(b, id)'
    BY <1>8, <2>4, <2>5
  <2>7. call'[c].at = "restore" => id = Server(b)'
    BY <1>9, <2>2, <2>3, <2>4, <2>5 DEF CallFits
  <2>8. QED
    BY <2>2, <2>5, <2>6, <2>7
<1>11. QED
  BY <1>3, <1>6, <1>10 DEF RowsRight

LEMMA LicenceRows ==
  ASSUME Typed, RowsRight, NEW c \in Callers,
         \/ \E b \in Books : DownloadStarts(c, b)
         \/ Licensed(c) \/ Stored(c) \/ FailsLocked(c) \/ Undone(c) \/ Tell(c)
  PROVE  RowsRight'
<1>1. UNCHANGED <<row, remote, doubled>>
  BY DEF DownloadStarts, Licensed, Stored, FailsLocked, Undone, Tell, OutsideCalls, Histories
<1>2. CallFits(call[c].at, call[c].book, call[c].id)
  BY DEF Typed, LockIsHeld
<1>3. \E at \in Places, b \in Books \union {None}, id \in {None, call[c].id} :
        OnlyCall(c, at, b, id) /\ at \notin Counting /\ (id = None \/ b = call[c].book)
  <2>1. ASSUME NEW b \in Books, DownloadStarts(c, b) PROVE OnlyCall(c, "licence", b, None)
    BY <2>1, CallStarted DEF DownloadStarts, Typed
  <2>2. CallEnds(c) => OnlyCall(c, "idle", None, None)
    BY CallEnded DEF Typed
  <2>3. Licensed(c) \/ Stored(c) => call[c].book \in Books
    BY <1>2 DEF Licensed, Stored, CallFits
  <2>4. Licensed(c) => CallEnds(c) \/ OnlyCall(c, "fetch", call[c].book, call[c].id)
    BY CallMoved, Placed DEF Licensed, Typed
  <2>5. Stored(c) => CallEnds(c) \/ OnlyCall(c, "queued", call[c].book, call[c].id)
    BY CallMoved, Placed DEF Stored, Typed
  <2>6. FailsLocked(c) \/ Undone(c) \/ Tell(c) => CallEnds(c)
    BY DEF FailsLocked, Undone, Tell
  <2>7. {"licence", "idle", "fetch", "queued"} \subseteq Places \ Counting
    BY DEF Places, Counting
  <2>8. QED
    BY <2>1, <2>2, <2>3, <2>4, <2>5, <2>6, <2>7
<1>4. PICK at \in Places, b \in Books \union {None}, id \in {None, call[c].id} :
        OnlyCall(c, at, b, id) /\ at \notin Counting /\ (id = None \/ b = call[c].book)
  BY <1>3
<1>5. call'[c].id \in Ids => Names(call'[c].id, call'[c].book)
  BY <1>4, DownloadConstants DEF OnlyCall, Names
<1>6. QED
  BY <1>1, <1>4, <1>5, CallsOnRows DEF OnlyCall

LEMMA LockedRows ==
  ASSUME Typed, RowsRight, NEW c \in Callers, NEW at \in Places, NEW id \in Ids \union {None},
         OnlyCall(c, at, call[c].book, id), UNCHANGED <<row, remote, doubled>>,
         id \in Ids => Names(id, call[c].book),
         at \in Counting => IsRight(at, call[c].book, id)
  PROVE  RowsRight'
BY CallsOnRows DEF OnlyCall

LEMMA RollsBackRows ==
  ASSUME Typed, RowsRight, NEW c \in Callers, RollsBack(c), UNCHANGED <<row, remote, doubled>>
  PROVE  RowsRight'
<1>1. OnlyCall(c, "undo", call[c].book, call[c].id)
  BY CallMoved, Placed DEF RollsBack, Typed
<1>2. call[c].id \in Ids \union {None}
  BY DEF Typed, DownloadTypeOK, Call
<1>3. "undo" \in Places \ Counting
  BY DEF Places, Counting
<1>4. call[c].id \in Ids => Names(call[c].id, call[c].book)
  BY DEF Names
<1>5. QED
  BY <1>1, <1>2, <1>3, <1>4, LockedRows

(* A call that comes to the lock finds the row of its book, or has counted.    *)
LEMMA EnterRows ==
  ASSUME Typed, RowsRight, NEW c \in Callers, Enter(c) PROVE RowsRight'
<1>1. UNCHANGED <<remote, doubled>> /\ call[c].at = "queued"
  BY DEF Enter, OutsideCalls
<1>2. call[c].book \in Books /\ call[c].id = None
  BY <1>1 DEF Typed, LockIsHeld, CallFits, Early
<1>3. IsFiniteSet(Counted) /\ Cardinality(Counted) \in Nat /\ Cardinality(Counted) <= BookLimit
      /\ Cardinality(Counted) <= Cardinality(Active) /\ Cardinality(Active) \in Nat
  <2>1. Counted \subseteq Active /\ IsFiniteSet(Active)
    BY DEF Counted, RowsRight, CountKept
  <2>2. QED
    BY <2>1, Fewer, FS_CardinalityType DEF RowsRight, CountKept
<1>4. CASE RollsBack(c)
  <2>1. UNCHANGED row
    BY <1>4 DEF RollsBack
  <2>2. QED
    BY <1>1, <1>4, <2>1, RollsBackRows
<1>5. ASSUME NEW i \in ActiveOf(call[c].book), Finds(c, i) PROVE RowsRight'
  <2> DEFINE b == call[c].book
  <2>1. i \in Active /\ i \in Ids /\ row[i] # None /\ row[i].book = b
    BY DEF ActiveOf, Active
  <2>2. Names(i, b)
    BY <2>1 DEF Names
  <2>3. Knows(b, i)
    BY <1>2, <1>5 DEF RowsRight, OwnRows, Knows
  <2>4. HasRoom(b, i)
    <3>1. CASE i \in Counted
      <4>1. Cardinality(Counted \ {i}) = Cardinality(Counted) - 1
        BY <1>3, <3>1, FS_RemoveElement
      <4>2. QED
        BY <1>3, <4>1, DownloadConstants DEF HasRoom
    <3>2. CASE i \notin Counted
      <4>1. PICK d \in doubled : i = Server(d)
        BY <2>1, <3>2 DEF Counted
      <4>2. d \in Books /\ remote[d] # None /\ remote[d].id = i
        BY <4>1 DEF RowsRight, OwnRows, Server, Typed, DownloadTypeOK
      <4>3. Names(i, d)
        BY <4>2 DEF Names
      <4>4. d = b
        BY <1>2, <2>1, <2>2, <4>2, <4>3 DEF RowsRight, OneBookPerId
      <4>5. QED
        BY <4>1, <4>4 DEF HasRoom
    <3>3. QED
      BY <3>1, <3>2
  <2>5. OnlyCall(c, "save", b, i) /\ UNCHANGED row
    BY <1>5, <2>1, CallFound, Placed DEF Finds, Typed
  <2>6. QED
    BY <1>1, <2>1, <2>2, <2>3, <2>4, <2>5, Placed, LockedRows DEF IsRight
<1>6. CASE /\ Allowed(call[c].book) /\ ActiveOf(call[c].book) = {}
           /\ CallMoves(c, "look") /\ UNCHANGED <<copy, row, queue, orphan, hollow>>
  <2>1. Cardinality(Counted) < BookLimit
    BY <1>3, <1>6, DownloadConstants DEF Allowed
  <2>2. Knows(call[c].book, None)
    BY <1>6 DEF Knows
  <2>3. HasRoom(call[c].book, None)
    <3>1. Counted \ {None} = Counted
      BY DownloadConstants DEF Counted, Active
    <3>2. QED
      BY <2>1, <3>1 DEF HasRoom
  <2>4. OnlyCall(c, "look", call[c].book, None)
    BY <1>2, <1>6, CallMoved, Placed DEF Typed
  <2>5. QED
    BY <1>1, <1>6, <2>2, <2>3, <2>4, Placed, DownloadConstants, LockedRows DEF IsRight
<1>7. QED
  BY <1>4, <1>5, <1>6 DEF Enter

(* The server's document of the book, where there is one, is the row to write. *)
LEMMA LookRows ==
  ASSUME Typed, RowsRight, NEW c \in Callers, Look(c) PROVE RowsRight'
<1> DEFINE b == call[c].book
           found == remote[b]
<1>1. UNCHANGED <<remote, doubled>> /\ call[c].at = "look"
  BY DEF Look, OutsideCalls
<1>2. b \in Books /\ call[c].id = None
  BY <1>1 DEF Typed, LockIsHeld, CallFits, Early
<1>3. Knows(b, None) /\ HasRoom(b, None)
  BY <1>1, <1>2 DEF RowsRight, HolderIsRight, Counting
<1>4. IsFiniteSet(Counted)
  BY Fewer DEF Counted, RowsRight, CountKept
<1>5. ASSUME found # None
      PROVE  /\ found.id \in Ids /\ Names(found.id, b) /\ found.id = Server(b)
             /\ Knows(b, found.id) /\ HasRoom(b, found.id)
  <2>1. found.id \in Ids /\ found.id = Server(b) /\ found.id # None
    BY <1>2, <1>5, DocumentTyped, DownloadConstants DEF Server, Typed
  <2>2. Names(found.id, b)
    BY <1>5 DEF Names
  <2>3. Knows(b, found.id)
    BY <1>3, <2>1, DownloadConstants DEF Knows, ActiveOf, Active
  <2>4. HasRoom(b, found.id)
    <3>1. Cardinality(Counted \ {None}) < BookLimit
      BY <1>3, <2>1 DEF HasRoom
    <3>2. Counted \ {found.id} \subseteq Counted \ {None} /\ IsFiniteSet(Counted \ {None})
      BY <1>4, Fewer, DownloadConstants DEF Counted, Active
    <3>3. Cardinality(Counted \ {found.id}) \in Nat
          /\ Cardinality(Counted \ {found.id}) <= Cardinality(Counted \ {None})
      BY <3>2, Fewer
    <3>4. Cardinality(Counted \ {None}) \in Nat
      BY <3>2, FS_CardinalityType
    <3>5. QED
      BY <3>1, <3>3, <3>4, DownloadConstants DEF HasRoom
  <2>5. QED
    BY <2>1, <2>2, <2>3, <2>4
<1>6. CASE RollsBack(c)
  <2>1. UNCHANGED row
    BY <1>6 DEF RollsBack
  <2>2. QED
    BY <1>1, <1>6, <2>1, RollsBackRows
<1>7. CASE found = None /\ Finds(c, None)
  <2>1. OnlyCall(c, "save", b, None) /\ UNCHANGED row
    BY <1>7, CallFound, Placed DEF Finds, Typed
  <2>2. QED
    BY <1>1, <1>3, <2>1, Placed, DownloadConstants, LockedRows DEF IsRight
<1>8. CASE found # None /\ Finds(c, found.id)
  <2>1. OnlyCall(c, "save", b, found.id) /\ UNCHANGED row
    BY <1>5, <1>8, CallFound, Placed DEF Finds, Typed
  <2>2. QED
    BY <1>1, <1>5, <1>8, <2>1, Placed, LockedRows DEF IsRight
<1>9. CASE /\ found # None
           /\ call' = [call EXCEPT ![c] = [@ EXCEPT !.at = "restore", !.id = found.id]]
           /\ UNCHANGED <<copy, row, queue, orphan, hollow>>
  <2>1. OnlyCall(c, "restore", b, found.id)
    BY <1>5, <1>9, CallFound, Placed DEF Typed
  <2>2. QED
    BY <1>1, <1>5, <1>9, <2>1, Placed, LockedRows DEF IsRight
<1>10. QED
  BY <1>6, <1>7, <1>8, <1>9 DEF Look

LEMMA RestoreRows ==
  ASSUME Typed, RowsRight, NEW c \in Callers, Restore(c) PROVE RowsRight'
<1>1. UNCHANGED doubled /\ call[c].at = "restore"
  BY DEF Restore, OutsideCalls
<1>2. /\ call[c].book \in Books /\ call[c].id \in Ids
      /\ call[c].id = Server(call[c].book)
  BY <1>1 DEF Typed, LockIsHeld, CallFits, RowsRight, HolderIsRight, Counting
<1>3. CASE RollsBack(c) /\ UNCHANGED remote
  <2>1. UNCHANGED row
    BY <1>3 DEF RollsBack
  <2>2. QED
    BY <1>1, <1>3, <2>1, RollsBackRows
<1>4. CASE /\ remote' = [remote EXCEPT ![call[c].book] = [id |-> call[c].id, live |-> TRUE]]
           /\ Finds(c, call[c].id)
  <2>1. OnlyCall(c, "save", call[c].book, call[c].id) /\ UNCHANGED row
    BY <1>2, <1>4, CallFound, Placed DEF Finds, Typed
  <2>2. remote[call[c].book] # None /\ call[c].id = remote[call[c].book].id
    BY <1>2, DownloadConstants DEF Server
  <2>3. [id |-> call[c].id, live |-> TRUE] \in Document
    BY <1>2 DEF Document
  <2>4. /\ remote'[call[c].book] # None /\ remote'[call[c].book].id = call[c].id
        /\ \A b \in Books : b # call[c].book => remote'[b] = remote[b]
    BY <1>2, <1>4, <2>3, DownloadConstants DEF Typed, DownloadTypeOK
  <2>5. Stands
    BY <2>2, <2>4 DEF Stands, Server
  <2>6. \A i \in Ids : \A b \in Books : Names(i, b)' => Names(i, b)
    BY <2>1, <2>2, <2>4 DEF Names, OnlyCall
  <2>7. OneBookPerId'
    BY <2>6, NamesSame DEF RowsRight
  <2>8. \A d \in Callers : call'[d].at \in Counting =>
           /\ call[d].at \in Counting /\ call'[d].book = call[d].book /\ call'[d].id = call[d].id
           /\ call'[d].at = "restore" => call[d].at = "restore"
    BY <1>1, <2>1 DEF OnlyCall, Counting
  <2>9. QED
    BY <1>1, <2>1, <2>5, <2>7, <2>8, RowsStay, RowsShrink
<1>5. QED
  BY <1>3, <1>4 DEF Restore

(* The row is written: it is the one that was known, or had room.              *)
LEMMA SaveRows ==
  ASSUME Typed, RowsRight, NEW c \in Callers, Save(c)
  PROVE  /\ RowsRight'
         /\ \E i \in Ids : Puts(i, call[c].book, TRUE) /\ (row[i] # None => row[i].book = call[c].book)
<1>1. UNCHANGED <<remote, doubled>> /\ call[c].at = "save" /\ Holds(c) /\ Release
  BY DEF Save, OutsideCalls, Typed, LockIsHeld, Counting
<1>2. call[c].book \in Books /\ call[c].id \in Ids \union {None}
  BY <1>1 DEF Typed, LockIsHeld, CallFits, DownloadTypeOK, Call
<1>3. Knows(call[c].book, call[c].id) /\ HasRoom(call[c].book, call[c].id)
  BY <1>1 DEF RowsRight, HolderIsRight, Counting
<1>4. PICK b \in Books : b = call[c].book
  BY <1>2
<1> DEFINE i == IF call[c].id = None THEN NewId ELSE call[c].id
<1>5. i \in Ids /\ \A d \in Books : Names(i, d) => d = b
  <2>1. CASE call[c].id = None
    <3>1. NewId \in Unused /\ NewId \in Ids
      BY <2>1, NewIds DEF Save
    <3>2. \A d \in Books : ~Names(NewId, d)
      BY <3>1 DEF Names, Unused
    <3>3. QED
      BY <2>1, <3>1, <3>2
  <2>2. CASE call[c].id # None
    <3>1. Names(call[c].id, b)
      BY <1>4 DEF Names
    <3>2. QED
      BY <1>2, <2>2, <3>1 DEF RowsRight, OneBookPerId
  <2>3. QED
    BY <2>1, <2>2
<1>6. OnlyCall(c, "tell", b, call[c].id)
  BY <1>4, CallMoved, Placed DEF Save, Typed
<1>7. row' = [row EXCEPT ![i] = [book |-> b, live |-> TRUE, dirty |-> TRUE]]
  BY <1>4 DEF Save
<1>8. Puts(i, b, TRUE) /\ (row[i] # None => row[i].book = b)
  <2>1. [book |-> b, live |-> TRUE, dirty |-> TRUE] # None
    <3>1. [book |-> b, live |-> TRUE, dirty |-> TRUE] \in DownloadRow
      BY DEF DownloadRow
    <3>2. QED
      BY <3>1, DownloadConstants
  <2>2. row'[i] = [book |-> b, live |-> TRUE, dirty |-> TRUE] /\ \A j \in Ids : j # i => row'[j] = row[j]
    BY <1>5, <1>7 DEF Typed, DownloadTypeOK
  <2>3. row[i] # None => row[i].book = b
    BY <1>5, RowTyped DEF Names, Typed
  <2>4. QED
    BY <2>1, <2>2, <2>3 DEF Puts
<1> HIDE DEF i
<1>9. /\ Active' = Active \union {i} /\ ActiveOf(b)' = ActiveOf(b) \union {i}
      /\ \A d \in Books : d # b => ActiveOf(d)' = ActiveOf(d)
  BY <1>5, <1>8, RowPut DEF Typed
<1>10. \A d : Server(d)' = Server(d)
  BY <1>1, ServerStands
<1>11. OneBookPerId'
  <2>1. \A j \in Ids : \A d \in Books : Names(j, d)' => Names(j, d) \/ (j = i /\ d = b)
    BY <1>1, <1>6, <1>4, <1>8 DEF Names, OnlyCall, Puts
  <2>2. QED
    BY <1>5, <2>1, NamesKept DEF RowsRight
<1>12. OwnRows'
  <2>1. \A d \in doubled : row'[remote[d].id] # None
    BY <1>8, DocumentTyped DEF RowsRight, OwnRows, Puts, Typed, DownloadTypeOK
  <2>2. ASSUME NEW j \in ActiveOf(b) PROVE i = j \/ (b \in doubled /\ Server(b) \in {i, j})
    <3>1. j # None
      BY DownloadConstants DEF ActiveOf, Active
    <3>2. b \in doubled => Server(b) # None
      BY DocumentTyped, DownloadConstants DEF RowsRight, OwnRows, Server, Typed
    <3>3. QED
      BY <1>3, <1>4, <3>1, <3>2 DEF Knows, i
  <2>3. ASSUME NEW d \in Books, NEW j \in ActiveOf(d)', NEW k \in ActiveOf(d)'
        PROVE  j = k \/ (d \in doubled /\ Server(d) \in {j, k})
    BY <1>9, <2>2 DEF RowsRight, OwnRows
  <2>4. QED
    BY <1>1, <1>10, <2>1, <2>3 DEF OwnRows, RowsRight
<1>13. CountKept'
  <2>1. Counted' = (Active \union {i}) \ {Server(d) : d \in doubled}
    BY <1>1, <1>9, <1>10 DEF Counted
  <2>2. IsFiniteSet(Active) /\ Cardinality(Counted) <= BookLimit /\ IsFiniteSet(Counted)
    BY Fewer DEF RowsRight, CountKept, Counted
  <2>3. IsFiniteSet(Active')
    BY <1>9, <2>2, FS_AddElement
  <2>4. Cardinality(Counted') <= BookLimit
    <3>1. CASE b \in doubled /\ call[c].id = Server(b)
      <4>1. i = Server(b)
        BY <1>1, <3>1, DownloadConstants, DocumentTyped DEF Server, i, RowsRight, OwnRows, Typed
      <4>2. Counted' = Counted
        BY <2>1, <3>1, <4>1 DEF Counted
      <4>3. QED
        BY <2>2, <4>2
    <3>2. CASE Cardinality(Counted \ {call[c].id}) < BookLimit
      <4>1. Counted' \subseteq (Counted \ {call[c].id}) \union {i}
        <5>1. CASE call[c].id = None
          BY <2>1, <5>1, DownloadConstants DEF Counted, Active
        <5>2. CASE call[c].id # None
          BY <2>1, <5>2 DEF Counted, i
        <5>3. QED
          BY <5>1, <5>2
      <4>2. IsFiniteSet(Counted \ {call[c].id})
        BY <2>2, Fewer
      <4>3. Cardinality(Counted') \in Nat
            /\ Cardinality(Counted') <= Cardinality(Counted \ {call[c].id}) + 1
        BY <4>1, <4>2, OneMore
      <4>4. Cardinality(Counted \ {call[c].id}) \in Nat
        BY <4>2, FS_CardinalityType
      <4>5. QED
        BY <3>2, <4>3, <4>4, DownloadConstants
    <3>3. QED
      BY <1>3, <1>4, <3>1, <3>2 DEF HasRoom
  <2>5. QED
    BY <2>3, <2>4 DEF CountKept
<1>14. HolderIsRight'
  <2>1. \A d \in Callers : call'[d].at \notin Counting
    BY <1>1, <1>6, LockReleased DEF Typed, LockIsHeld, OnlyCall, Counting
  <2>2. QED
    BY <2>1 DEF HolderIsRight
<1>15. QED
  BY <1>4, <1>5, <1>8, <1>11, <1>12, <1>13, <1>14 DEF RowsRight

(* A row keeps its book, and is no more alive than it was.                     *)
LEMMA RowFades ==
  ASSUME Typed, RowsRight, NEW i \in Ids, row[i] # None, NEW r \in DownloadRow,
         row' = [row EXCEPT ![i] = r], r.book = row[i].book, r.live => row[i].live,
         UNCHANGED <<call, doubled>>, Stands,
         \A d \in Books : remote'[d] # None => Names(remote'[d].id, d)
  PROVE  RowsRight' /\ Puts(i, row[i].book, r.live)
<1>1. Puts(i, row[i].book, r.live)
  BY DownloadConstants DEF Puts, Typed, DownloadTypeOK
<1>2. PICK b \in Books : b = row[i].book
  BY RowTyped DEF Typed
<1>3. r.live \in BOOLEAN /\ (r.live => i \in ActiveOf(b) /\ i \in Active)
  BY <1>2 DEF DownloadRow, ActiveOf, Active
<1>4. Active' \subseteq Active /\ ActiveOf(b)' \subseteq ActiveOf(b)
      /\ \A d \in Books : d # b => ActiveOf(d)' = ActiveOf(d)
  BY <1>1, <1>2, <1>3, RowPut DEF Typed
<1>5. OneBookPerId'
  <2>1. \A j \in Ids : \A d \in Books : Names(j, d)' => Names(j, d)
    BY <1>1 DEF Names, Puts
  <2>2. QED
    BY <2>1, NamesSame DEF RowsRight
<1>6. \A j \in Ids : row[j] # None => row'[j] # None
  BY <1>1 DEF Puts
<1>7. QED
  BY <1>1, <1>4, <1>5, <1>6, RowsShrink

LEMMA Buried ==
  ASSUME Typed, RowsRight, NEW i \in Ids, row[i] # None, NEW dirty \in BOOLEAN,
         row' = [row EXCEPT ![i] = [@ EXCEPT !.live = FALSE, !.dirty = dirty]],
         UNCHANGED <<call, doubled, remote>>
  PROVE  RowsRight' /\ Puts(i, row[i].book, FALSE)
<1> DEFINE r == [row[i] EXCEPT !.live = FALSE, !.dirty = dirty]
<1>1. row[i] \in DownloadRow
  BY RowTyped DEF Typed
<1>2. r \in DownloadRow /\ r.book = row[i].book /\ ~r.live /\ r.live = FALSE
  BY <1>1 DEF DownloadRow
<1>3. Stands
  BY ServerStands
<1>4. \A d \in Books : remote'[d] # None => Names(remote'[d].id, d)
  BY DEF Names
<1>5. row' = [row EXCEPT ![i] = r]
  OBVIOUS
<1> HIDE DEF r
<1>6. RowsRight' /\ Puts(i, row[i].book, r.live)
  BY <1>2, <1>3, <1>4, <1>5, RowFades
<1>7. QED
  BY <1>2, <1>6

LEMMA Settled ==
  ASSUME Typed, RowsRight, NEW i \in Ids, row[i] # None,
         row' = [row EXCEPT ![i] = [@ EXCEPT !.dirty = FALSE]],
         UNCHANGED <<call, doubled>>, Stands,
         \A d \in Books : remote'[d] # None => Names(remote'[d].id, d)
  PROVE  RowsRight' /\ Puts(i, row[i].book, row[i].live)
<1> DEFINE r == [row[i] EXCEPT !.dirty = FALSE]
<1>1. row[i] \in DownloadRow
  BY RowTyped DEF Typed
<1>2. r \in DownloadRow /\ r.book = row[i].book /\ r.live = row[i].live
  BY <1>1 DEF DownloadRow
<1>5. row' = [row EXCEPT ![i] = r]
  OBVIOUS
<1> HIDE DEF r
<1>6. RowsRight' /\ Puts(i, row[i].book, r.live)
  BY <1>2, <1>5, RowFades
<1>7. QED
  BY <1>2, <1>6

(* The server's row takes the place of ours.                                   *)
Replaces(i, b) ==
  /\ remote[b] # None /\ remote[b].id # i /\ row[i].live /\ row[i].book = b
  /\ remote' = [remote EXCEPT ![b] = [@ EXCEPT !.live = TRUE]]
  /\ row' = [row EXCEPT ![i] = None,
               ![remote[b].id] = [book |-> b, live |-> TRUE, dirty |-> FALSE]]
  /\ doubled' = (doubled \ {b}) \union {d \in {b} : InHand(d)}
  /\ UNCHANGED call

LEMMA ReplacedTable ==
  ASSUME Typed, RowsRight, NEW i \in Ids, NEW b \in Books, row[i] # None, Replaces(i, b)
  PROVE  /\ remote[b].id \in Ids /\ remote[b].id # i
         /\ i \in ActiveOf(b) /\ ActiveOf(b)' = {remote[b].id}
         /\ \A d \in Books : d # b => ActiveOf(d)' = ActiveOf(d)
         /\ Active' = (Active \ {i}) \union {remote[b].id}
         /\ \A d \in doubled : remote[d] # None /\ remote[d].id # i /\ row'[remote[d].id] # None
         /\ \A d \in Books : Server(d)' = Server(d) /\ (remote[d] = None <=> remote'[d] = None)
                             /\ (remote[d] # None => remote'[d].id = remote[d].id)
         /\ row'[i] = None /\ row'[remote[b].id] # None /\ row'[remote[b].id].book = b
         /\ \A j \in Ids : j \notin {i, remote[b].id} => row'[j] = row[j]
         /\ Held' = Held
         /\ OneBookPerId'
<1> DEFINE h == remote[b].id
<1>1. h \in Ids /\ h # i /\ remote[b] # None
  BY DocumentTyped DEF Replaces, Typed
<1>2. /\ row'[i] = None /\ row'[h] = [book |-> b, live |-> TRUE, dirty |-> FALSE]
      /\ \A j \in Ids : j \notin {i, h} => row'[j] = row[j]
  BY <1>1 DEF Replaces, Typed, DownloadTypeOK
<1>3. row'[h] # None /\ row'[h].book = b /\ row'[h].live
  <2>1. [book |-> b, live |-> TRUE, dirty |-> FALSE] \in DownloadRow
    BY DEF DownloadRow
  <2>2. [book |-> b, live |-> TRUE, dirty |-> FALSE] # None
    BY <2>1, DownloadConstants
  <2>3. QED
    BY <1>2, <2>2
<1>4. Names(h, b) /\ Names(i, b)
  BY <1>1 DEF Names, Replaces
<1>5. row[h] # None => row[h].book = b
  <2>1. row[h] # None => Names(h, row[h].book) /\ row[h].book \in Books
    BY <1>1, RowTyped DEF Names, Typed
  <2>2. QED
    BY <1>1, <1>4, <2>1 DEF RowsRight, OneBookPerId
<1>6. Active' = (Active \ {i}) \union {h}
  BY <1>1, <1>2, <1>3 DEF Active
<1>7. i \in ActiveOf(b)
  BY DEF Replaces, ActiveOf, Active
<1>8. \A d \in Books : d # b => ActiveOf(d)' = ActiveOf(d)
  <2>1. ASSUME NEW d \in Books, d # b, NEW j PROVE j \in ActiveOf(d)' <=> j \in ActiveOf(d)
    <3>1. CASE j \in {i, h}
      BY <1>1, <1>3, <1>5, <1>6, <1>7, <2>1, <3>1 DEF ActiveOf, Active
    <3>2. CASE j \notin {i, h}
      BY <1>2, <1>6, <3>2 DEF ActiveOf, Active
    <3>3. QED
      BY <3>1, <3>2
  <2>2. QED
    BY <2>1 DEF ActiveOf
<1>9. ActiveOf(b)' = {h}
  <2>1. ASSUME NEW j \in ActiveOf(b)', j # h PROVE FALSE
    <3>1. j \in Ids /\ j # i /\ j \in ActiveOf(b)
      BY <1>2, <1>6, <2>1 DEF ActiveOf, Active
    <3>2. Server(b) = h
      BY <1>1 DEF Server
    <3>3. QED
      BY <1>1, <1>7, <2>1, <3>1, <3>2 DEF RowsRight, OwnRows
  <2>2. h \in ActiveOf(b)'
    BY <1>1, <1>3, <1>6 DEF ActiveOf
  <2>3. QED
    BY <2>1, <2>2
<1>10. [remote[b] EXCEPT !.live = TRUE] # None /\ [remote[b] EXCEPT !.live = TRUE].id = remote[b].id
  <2>1. remote[b] \in Document /\ [remote[b] EXCEPT !.live = TRUE] \in Document
    BY <1>1, DocumentTyped DEF Typed
  <2>2. QED
    BY <2>1, DownloadConstants DEF Document
<1>11. remote'[b] = [remote[b] EXCEPT !.live = TRUE] /\ \A d \in Books : d # b => remote'[d] = remote[d]
  BY DEF Replaces, Typed, DownloadTypeOK
<1>12. \A d \in Books : Server(d)' = Server(d) /\ (remote[d] = None <=> remote'[d] = None)
                             /\ (remote[d] # None => remote'[d].id = remote[d].id)
  BY <1>1, <1>10, <1>11 DEF Server
<1>13. \A d \in doubled : remote[d] # None /\ remote[d].id # i /\ row'[remote[d].id] # None
  <2>1. SUFFICES ASSUME NEW d \in doubled
                 PROVE  remote[d] # None /\ remote[d].id # i /\ row'[remote[d].id] # None
    OBVIOUS
  <2>2. d \in Books /\ remote[d] # None /\ row[remote[d].id] # None /\ remote[d].id \in Ids
    BY DocumentTyped DEF RowsRight, OwnRows, Typed, DownloadTypeOK
  <2>3. remote[d].id # i
    <3>1. SUFFICES ASSUME remote[d].id = i PROVE FALSE
      OBVIOUS
    <3>2. Names(i, d)
      BY <2>2, <3>1 DEF Names
    <3>3. d = b
      BY <1>4, <2>2, <3>2 DEF RowsRight, OneBookPerId
    <3>4. QED
      BY <1>1, <3>1, <3>3
  <2>4. QED
    BY <1>2, <1>3, <2>2, <2>3
<1>14. Held' = Held
  <2>1. Held' = {d \in Books : ActiveOf(d)' # {}}
    <3>1. Active' \subseteq Ids /\ \A j \in Active' : row'[j].book \in Books
      BY <1>1, <1>2, <1>3, <1>6, RowTyped DEF Active, Typed
    <3>2. QED
      BY <3>1 DEF Held, ActiveOf
  <2>2. Held = {d \in Books : ActiveOf(d) # {}}
    BY HeldAreBooks DEF Held, ActiveOf, Typed
  <2>3. QED
    BY <1>7, <1>8, <1>9, <2>1, <2>2
<1>15. OneBookPerId'
  <2>1. \A j \in Ids : \A d \in Books : Names(j, d)' => Names(j, d)
    BY <1>2, <1>3, <1>4, <1>12 DEF Names, Replaces
  <2>2. QED
    BY <2>1, NamesSame DEF RowsRight
<1>16. QED
  BY <1>1, <1>2, <1>3, <1>6, <1>7, <1>8, <1>9, <1>12, <1>13, <1>14, <1>15

LEMMA ReplacedRows ==
  ASSUME Typed, RowsRight, NEW i \in Ids, NEW b \in Books, row[i] # None, Replaces(i, b)
  PROVE  RowsRight'
<1> DEFINE h == remote[b].id
<1>1. /\ h \in Ids /\ h # i
      /\ i \in ActiveOf(b) /\ ActiveOf(b)' = {h}
      /\ \A d \in Books : d # b => ActiveOf(d)' = ActiveOf(d)
      /\ Active' = (Active \ {i}) \union {h}
      /\ \A d \in doubled : remote[d] # None /\ remote[d].id # i /\ row'[remote[d].id] # None
      /\ \A d \in Books : Server(d)' = Server(d) /\ (remote[d] = None <=> remote'[d] = None)
                          /\ (remote[d] # None => remote'[d].id = remote[d].id)
      /\ row'[h] # None /\ OneBookPerId'
  BY ReplacedTable
<1>2. /\ doubled \subseteq Books /\ doubled' \subseteq doubled \union {b}
      /\ doubled \subseteq doubled' \union {b} /\ (b \in doubled' <=> InHand(b))
      /\ UNCHANGED call /\ Server(b) = h /\ remote[b] # None /\ row[i].book = b
  BY DEF Replaces, Typed, DownloadTypeOK, Server
<1>3. OwnRows'
  <2>1. ASSUME NEW d \in Books, NEW j \in ActiveOf(d)', NEW k \in ActiveOf(d)'
        PROVE  j = k \/ (d \in doubled' /\ Server(d)' \in {j, k})
    BY <1>1, <1>2 DEF RowsRight, OwnRows
  <2>2. ASSUME NEW d \in doubled' PROVE remote'[d] # None /\ row'[remote'[d].id] # None
    BY <1>1, <1>2
  <2>3. QED
    BY <2>1, <2>2 DEF OwnRows
<1>4. i \in Counted
  <2>1. i \in Active
    BY <1>1 DEF ActiveOf
  <2>2. \A d \in doubled : Server(d) # i
    BY <1>1 DEF Server
  <2>3. QED
    BY <2>1, <2>2 DEF Counted
<1>5. IsFiniteSet(Active) /\ IsFiniteSet(Counted) /\ Cardinality(Counted) \in Nat
      /\ Cardinality(Counted) <= BookLimit
  BY Fewer, FS_CardinalityType DEF RowsRight, CountKept, Counted
<1>6. IsFiniteSet(Active')
  <2>1. IsFiniteSet(Active \ {i})
    BY <1>5, Fewer
  <2>2. QED
    BY <1>1, <2>1, FS_AddElement
<1>7. Counted' = ((Active \ {i}) \union {h}) \ {Server(d) : d \in doubled'}
  <2>1. {Server(d)' : d \in doubled'} = {Server(d) : d \in doubled'}
    BY <1>1, <1>2
  <2>2. QED
    BY <1>1, <2>1 DEF Counted
<1>8. Counted' \subseteq (Counted \ {i}) \union {h}
  BY <1>2, <1>7 DEF Counted
<1>9. InHand(b) => Counted' \subseteq Counted \ {i}
  BY <1>2, <1>7 DEF Counted
<1>10. CountKept'
  <2>1. Cardinality(Counted') \in Nat /\ Cardinality(Counted') <= Cardinality(Counted)
    BY <1>4, <1>5, <1>8, Swapped
  <2>2. QED
    BY <1>5, <1>6, <2>1, DownloadConstants DEF CountKept
<1>11. HolderIsRight'
  <2>1. SUFFICES ASSUME NEW c \in Callers, call[c].at \in Counting
                 PROVE  /\ Knows(call[c].book, call[c].id)'
                        /\ HasRoom(call[c].book, call[c].id)'
                        /\ (call[c].at = "restore" => call[c].id = Server(call[c].book))'
    BY <1>2 DEF HolderIsRight
  <2>2. /\ call[c].book \in Books
        /\ Knows(call[c].book, call[c].id) /\ HasRoom(call[c].book, call[c].id)
        /\ call[c].at = "restore" => call[c].id = Server(call[c].book)
        /\ call[c].id \in Ids \union {None}
    BY <2>1 DEF RowsRight, HolderIsRight, Typed, LockIsHeld, CallFits, Counting, DownloadTypeOK, Call
  <2>3. PICK d \in Books, id \in Ids \union {None} : d = call[c].book /\ id = call[c].id
    BY <2>2
  <2>4. Knows(d, id) /\ HasRoom(d, id) /\ (call[c].at = "restore" => id = Server(d))
    BY <2>2, <2>3
  <2>5. CASE d = b
    <3>1. call[c].at \in {"queued", "look", "restore", "save"}
      BY <2>1 DEF Counting
    <3>2. InHand(b)
      BY <2>3, <2>5, <3>1 DEF InHand
    <3>3. Knows(d, id)'
      BY <1>1, <1>2, <2>5, <3>2 DEF Knows
    <3>4. HasRoom(d, id)'
      <4>1. CASE b \in doubled /\ id = Server(b)
        BY <1>1, <1>2, <2>5, <3>2, <4>1 DEF HasRoom
      <4>2. CASE Cardinality(Counted \ {id}) < BookLimit
        <5>1. Counted' \ {id} \subseteq Counted \ {id} /\ IsFiniteSet(Counted \ {id})
          BY <1>5, <1>9, <3>2, Fewer
        <5>2. Cardinality(Counted' \ {id}) \in Nat
              /\ Cardinality(Counted' \ {id}) <= Cardinality(Counted \ {id})
          BY <5>1, Fewer
        <5>3. Cardinality(Counted \ {id}) \in Nat
          BY <5>1, FS_CardinalityType
        <5>4. QED
          BY <4>2, <5>2, <5>3, DownloadConstants DEF HasRoom
      <4>3. QED
        BY <2>4, <2>5, <4>1, <4>2 DEF HasRoom
    <3>5. QED
      BY <1>1, <1>2, <2>3, <2>4, <3>3, <3>4
  <2>6. CASE d # b
    <3>1. Knows(d, id)'
      BY <1>1, <1>2, <2>4, <2>6 DEF Knows
    <3>2. id # i
      <4>1. SUFFICES ASSUME id = i PROVE FALSE
        OBVIOUS
      <4>2. Names(i, d) /\ Names(i, b)
        BY <1>2, <2>3, <4>1 DEF Names
      <4>3. QED
        BY <2>6, <4>2 DEF RowsRight, OneBookPerId
    <3>3. HasRoom(d, id)'
      <4>1. CASE d \in doubled /\ id = Server(d)
        BY <1>1, <1>2, <2>6, <4>1 DEF HasRoom
      <4>2. CASE Cardinality(Counted \ {id}) < BookLimit
        <5>1. IsFiniteSet(Counted \ {id}) /\ i \in Counted \ {id}
              /\ Counted' \ {id} \subseteq ((Counted \ {id}) \ {i}) \union {h}
          BY <1>4, <1>5, <1>8, <3>2, Fewer
        <5>2. Cardinality(Counted' \ {id}) \in Nat
              /\ Cardinality(Counted' \ {id}) <= Cardinality(Counted \ {id})
          BY <5>1, Swapped
        <5>3. Cardinality(Counted \ {id}) \in Nat
          BY <5>1, FS_CardinalityType
        <5>4. QED
          BY <4>2, <5>2, <5>3, DownloadConstants DEF HasRoom
      <4>3. QED
        BY <2>4, <4>1, <4>2 DEF HasRoom
    <3>4. QED
      BY <1>1, <1>2, <2>3, <2>4, <3>1, <3>3
  <2>7. QED
    BY <2>5, <2>6
<1>12. QED
  BY <1>1, <1>3, <1>10, <1>11 DEF RowsRight

LEMMA PushRows ==
  ASSUME Typed, RowsRight, NEW i \in Ids, Push(i)
  PROVE  /\ RowsRight' /\ UNCHANGED call /\ row[i] # None
         /\ \/ Puts(i, row[i].book, row[i].live) /\ UNCHANGED Histories
            \/ Puts(i, row[i].book, FALSE) /\ Account({row[i].book}, {})
            \/ Held' = Held /\ UNCHANGED <<orphan, hollow>>
<1> DEFINE b == row[i].book
           had == remote[b]
           settled == [row EXCEPT ![i] = [@ EXCEPT !.dirty = FALSE]]
<1>1. UNCHANGED call /\ row[i] # None /\ b \in Books /\ row[i].live \in BOOLEAN
  <2>1. row[i] # None
    BY DEF Push
  <2>2. row[i] \in DownloadRow
    BY <2>1, RowTyped DEF Typed
  <2>3. QED
    BY <2>1, <2>2 DEF Push, DownloadRow
<1>2. Names(i, b)
  BY <1>1 DEF Names
<1>3. CASE /\ had = None \/ (had # None /\ had.id = i)
           /\ remote' = IF had = None /\ ~row[i].live THEN remote
                        ELSE [remote EXCEPT ![b] = [id |-> i, live |-> row[i].live]]
           /\ row' = settled
           /\ UNCHANGED Histories
  <2>1. [id |-> i, live |-> row[i].live] # None
    <3>1. [id |-> i, live |-> row[i].live] \in Document
      BY <1>1 DEF Document
    <3>2. QED
      BY <3>1, DownloadConstants
  <2>2. /\ \A d \in Books : d # b => remote'[d] = remote[d]
        /\ remote'[b] = remote[b] \/ (remote'[b] # None /\ remote'[b].id = i)
    BY <1>1, <1>3, <2>1 DEF Typed, DownloadTypeOK
  <2>3. Stands
    BY <1>3, <2>2 DEF Stands, Server
  <2>4. \A d \in Books : remote'[d] # None => Names(remote'[d].id, d)
    BY <1>2, <2>2 DEF Names
  <2>5. RowsRight' /\ Puts(i, row[i].book, row[i].live)
    BY <1>1, <1>3, <2>3, <2>4, Settled DEF Histories
  <2>6. QED
    BY <1>1, <1>3, <2>5
<1>4. CASE Tombstone(i) /\ UNCHANGED <<remote, doubled>>
  <2>1. RowsRight' /\ Puts(i, row[i].book, FALSE)
    BY <1>1, <1>4, Buried DEF Tombstone
  <2>2. QED
    BY <1>1, <1>4, <2>1 DEF Tombstone
<1>5. CASE /\ had # None /\ had.id # i /\ row[i].live
           /\ remote' = [remote EXCEPT ![b] = [@ EXCEPT !.live = TRUE]]
           /\ row' = [row EXCEPT ![i] = None,
                        ![had.id] = [book |-> b, live |-> TRUE, dirty |-> FALSE]]
           /\ doubled' = (doubled \ {b}) \union {d \in {b} : InHand(d)}
           /\ UNCHANGED <<orphan, hollow>>
  <2>1. Replaces(i, b)
    BY <1>1, <1>5 DEF Replaces
  <2>2. QED
    BY <1>1, <1>5, <2>1, ReplacedRows, ReplacedTable
<1>6. CASE row' = settled /\ UNCHANGED <<remote, Histories>>
  <2>1. Stands /\ \A d \in Books : remote'[d] # None => Names(remote'[d].id, d)
    BY <1>6, ServerStands DEF Names
  <2>2. RowsRight' /\ Puts(i, row[i].book, row[i].live)
    BY <1>1, <1>6, <2>1, Settled DEF Histories
  <2>3. QED
    BY <1>1, <1>6, <2>2
<1>7. QED
  BY <1>3, <1>4, <1>5, <1>6 DEF Push

(* A row that is pulled is the server's, and nobody counted it.                *)
LEMMA PullRows ==
  ASSUME Typed, RowsRight, NEW b \in Books, Pull(b)
  PROVE  /\ RowsRight' /\ UNCHANGED call
         /\ \E i \in Ids :
              /\ row[i] # None => row[i].book = b
              /\ \/ Puts(i, b, TRUE) /\ Account({}, {b})
                 \/ Puts(i, b, FALSE) /\ Account({b}, {})
<1> DEFINE i == remote[b].id
<1>1. /\ UNCHANGED <<remote, call>> /\ remote[b] # None /\ i \in Ids /\ Server(b) = i
      /\ Stands /\ \A d : Server(d)' = Server(d)
  BY DocumentTyped, ServerStands DEF Pull, Typed, Server
<1>2. Names(i, b)
  BY <1>1 DEF Names
<1>3. row[i] # None => row[i].book = b
  <2>1. row[i] # None => Names(i, row[i].book) /\ row[i].book \in Books
    BY <1>1, RowTyped DEF Names, Typed
  <2>2. QED
    BY <1>1, <1>2, <2>1 DEF RowsRight, OneBookPerId
<1>4. CASE row[i] # None /\ Tombstone(i) /\ UNCHANGED doubled
  <2>1. RowsRight' /\ Puts(i, row[i].book, FALSE)
    BY <1>1, <1>4, Buried DEF Tombstone
  <2>2. QED
    BY <1>1, <1>3, <1>4, <2>1 DEF Tombstone
<1>5. CASE /\ row[i] = None
           /\ row' = [row EXCEPT ![i] = [book |-> b, live |-> TRUE, dirty |-> FALSE]]
           /\ Account({}, {b})
           /\ doubled' = doubled \union {b}
  <2>1. [book |-> b, live |-> TRUE, dirty |-> FALSE] # None
    <3>1. [book |-> b, live |-> TRUE, dirty |-> FALSE] \in DownloadRow
      BY DEF DownloadRow
    <3>2. QED
      BY <3>1, DownloadConstants
  <2>2. Puts(i, b, TRUE)
    BY <1>1, <1>5, <2>1 DEF Puts, Typed, DownloadTypeOK
  <2>3. /\ Active' = Active \union {i} /\ ActiveOf(b)' = ActiveOf(b) \union {i}
        /\ \A d \in Books : d # b => ActiveOf(d)' = ActiveOf(d)
    BY <1>1, <1>5, <2>2, RowPut DEF Typed
  <2>4. i \notin Active
    BY <1>5 DEF Active
  <2>5. OneBookPerId'
    <3>1. \A j \in Ids : \A d \in Books : Names(j, d)' => Names(j, d)
      BY <1>1, <1>2, <2>2 DEF Names, Puts
    <3>2. QED
      BY <3>1, NamesSame DEF RowsRight
  <2>6. OwnRows'
    <3>1. ASSUME NEW d \in Books, NEW j \in ActiveOf(d)', NEW k \in ActiveOf(d)'
          PROVE  j = k \/ (d \in doubled' /\ Server(d)' \in {j, k})
      BY <1>1, <1>5, <2>3 DEF RowsRight, OwnRows
    <3>2. ASSUME NEW d \in doubled' PROVE remote'[d] # None /\ row'[remote'[d].id] # None
      <4>1. d \in Books /\ remote[d] # None /\ remote[d].id \in Ids
        BY <1>1, <1>5, <3>2, DocumentTyped DEF RowsRight, OwnRows, Typed, DownloadTypeOK
      <4>2. remote[d].id # i => row[remote[d].id] # None
        BY <1>5, <3>2 DEF RowsRight, OwnRows
      <4>3. QED
        BY <1>1, <2>2, <4>1, <4>2 DEF Puts
    <3>3. QED
      BY <3>1, <3>2 DEF OwnRows
  <2>7. Counted' = Counted
    <3>1. {Server(d)' : d \in doubled'} = {Server(d) : d \in doubled} \union {i}
      BY <1>1, <1>5
    <3>2. QED
      BY <2>3, <2>4, <3>1 DEF Counted
  <2>8. CountKept'
    <3>1. IsFiniteSet(Active')
      BY <2>3, FS_AddElement DEF RowsRight, CountKept
    <3>2. QED
      BY <2>7, <3>1 DEF RowsRight, CountKept
  <2>9. \A d \in Books : \A id : (Knows(d, id) => Knows(d, id)') /\ (HasRoom(d, id) => HasRoom(d, id)')
    BY <1>1, <1>5, <2>3, <2>7 DEF Knows, HasRoom
  <2>10. HolderIsRight'
    <3>1. SUFFICES ASSUME NEW c \in Callers, call[c].at \in Counting
                   PROVE  /\ Knows(call[c].book, call[c].id)'
                          /\ HasRoom(call[c].book, call[c].id)'
                          /\ (call[c].at = "restore" => call[c].id = Server(call[c].book))'
      BY <1>1 DEF HolderIsRight
    <3>2. /\ call[c].book \in Books
          /\ Knows(call[c].book, call[c].id) /\ HasRoom(call[c].book, call[c].id)
          /\ call[c].at = "restore" => call[c].id = Server(call[c].book)
      BY <3>1 DEF RowsRight, HolderIsRight, Typed, LockIsHeld, CallFits, Counting
    <3>3. PICK d \in Books, id \in {call[c].id} : d = call[c].book /\ id = call[c].id
      BY <3>2
    <3>4. Knows(d, id)' /\ HasRoom(d, id)' /\ (call[c].at = "restore" => id = Server(d)')
      BY <1>1, <2>9, <3>2, <3>3
    <3>5. QED
      BY <1>1, <3>3, <3>4
  <2>11. QED
    BY <1>1, <1>3, <1>5, <2>2, <2>5, <2>6, <2>8, <2>10 DEF RowsRight
<1>6. QED
  BY <1>4, <1>5 DEF Pull

LEMMA OtherDeviceRows ==
  ASSUME Typed, RowsRight, NEW b \in Books, OtherDevice(b) PROVE RowsRight'
<1>1. UNCHANGED <<row, call, doubled>>
  BY DEF OtherDevice, Histories
<1>2. CASE remote[b] = None
  <2>1. NewId \in Unused /\ NewId \in Ids
    BY <1>2, NewIds DEF OtherDevice
  <2>2. [id |-> NewId, live |-> TRUE] # None
    <3>1. [id |-> NewId, live |-> TRUE] \in Document
      BY <2>1 DEF Document
    <3>2. QED
      BY <3>1, DownloadConstants
  <2>3. PICK i \in Ids : i = NewId
    BY <2>1
  <2>4. /\ \A d \in Books : d # b => remote'[d] = remote[d]
        /\ remote'[b] # None /\ remote'[b].id = i
    BY <1>2, <2>2, <2>3 DEF OtherDevice, Typed, DownloadTypeOK
  <2>5. Stands
    BY <1>2, <2>4 DEF Stands, Server
  <2>6. \A d \in Books : ~Names(i, d)
    BY <2>1, <2>3 DEF Names, Unused
  <2>7. \A j \in Ids : \A d \in Books : Names(j, d)' => Names(j, d) \/ (j = i /\ d = b)
    BY <1>1, <2>4 DEF Names
  <2>8. OneBookPerId'
    BY <2>6, <2>7, NamesKept DEF RowsRight
  <2>9. QED
    BY <1>1, <2>5, <2>8, RowsStay, RowsShrink
<1>3. CASE remote[b] # None
  <2>1. PICK live \in BOOLEAN : remote' = [remote EXCEPT ![b] = [@ EXCEPT !.live = live]]
    BY <1>3 DEF OtherDevice
  <2>2. [remote[b] EXCEPT !.live = live] # None /\ [remote[b] EXCEPT !.live = live].id = remote[b].id
    <3>1. remote[b] \in Document /\ [remote[b] EXCEPT !.live = live] \in Document
      BY <1>3, DocumentTyped DEF Typed
    <3>2. QED
      BY <3>1, DownloadConstants DEF Document
  <2>3. /\ \A d \in Books : d # b => remote'[d] = remote[d]
        /\ remote'[b] # None /\ remote'[b].id = remote[b].id
    BY <2>1, <2>2 DEF Typed, DownloadTypeOK
  <2>4. Stands
    BY <1>3, <2>3 DEF Stands, Server
  <2>5. \A j \in Ids : \A d \in Books : Names(j, d)' => Names(j, d)
    BY <1>1, <1>3, <2>3 DEF Names
  <2>6. OneBookPerId'
    BY <2>5, NamesSame DEF RowsRight
  <2>7. QED
    BY <1>1, <2>4, <2>6, RowsStay, RowsShrink
<1>4. QED
  BY <1>2, <1>3

(* clearAllDownloads() and the death of the process.                           *)
LEMMA ClearRows ==
  ASSUME Typed, RowsRight, ClearWrites
  PROVE  /\ RowsRight' /\ UNCHANGED <<call, copy>>
         /\ \/ UNCHANGED <<row, orphan, hollow>>
            \/ \E i \in Ids : row[i] # None /\ Puts(i, row[i].book, FALSE) /\ Account({row[i].book}, {})
<1>1. clear.id \in Ids /\ UNCHANGED <<call, copy, remote, doubled>>
  BY DEF ClearWrites, Typed, Clearing
<1>2. CASE row[clear.id] = None
  <2>1. UNCHANGED <<row, orphan, hollow>>
    BY <1>2 DEF ClearWrites
  <2>2. QED
    BY <1>1, <2>1, CallsOnRows
<1>3. CASE row[clear.id] # None
  <2>1. PICK i \in Ids : i = clear.id
    BY <1>1
  <2>2. RowsRight' /\ Puts(i, row[i].book, FALSE)
    BY <1>1, <1>3, <2>1, Buried DEF ClearWrites
  <2>3. QED
    BY <1>1, <1>3, <2>1, <2>2 DEF ClearWrites
<1>4. QED
  BY <1>2, <1>3

LEMMA RestartRows ==
  ASSUME RowsRight, DownloadsRestart PROVE RowsRight'
<1>1. \A d \in Callers : call'[d].id \notin Ids /\ call'[d].at \notin Counting
  BY DownloadConstants DEF DownloadsRestart, NoCall, Counting
<1>2. QED
  BY <1>1, CallsOnRows DEF DownloadsRestart

LEMMA DownloadRows ==
  ASSUME Typed, RowsRight, [DownloadNext]_downloadVars PROVE RowsRight'
<1>1. CASE \E c \in Callers : CallStep(c)
  BY <1>1, LicenceRows, EnterRows, LookRows, RestoreRows, SaveRows DEF CallStep
<1>2. CASE \/ UNCHANGED downloadVars
           \/ \E b \in Books : \E kind \in {"delete", "sweep"} : StartRemoval(b, kind)
           \/ \E b \in Books : EndRemoval(b)
           \/ ClearAll \/ ClearNext \/ ClearQueues \/ ClearFails \/ WriterAsks \/ WriterWrites
  <2>1. UNCHANGED <<row, remote, doubled, call>>
    BY <1>2 DEF downloadVars, StartRemoval, EndRemoval, ClearAll, ClearNext, ClearQueues,
                ClearFails, WriterAsks, WriterWrites, Histories
  <2>2. QED
    BY <2>1, CallsOnRows
<1>3. QED
  BY <1>1, <1>2, ClearRows, PushRows, PullRows, OtherDeviceRows, RestartRows DEF DownloadNext

-----------------------------------------------------------------------------
(* The content on disk, and what the rows say of it.                           *)
ContentRight == ContentIsCounted /\ ContentIsThere
Claimed(b) == b \in Held \/ InHand(b)

LEMMA Accounted ==
  ASSUME Typed, Typed', ContentRight, NEW lost, NEW gone, Account(lost, gone),
         \A b \in copy' : b \in copy \/ Claimed(b)',
         \A b \in Books : Claimed(b) /\ b \in copy' => Claimed(b)' \/ b \in lost,
         \A b \in Books : Claimed(b)' =>
           b \in copy' \/ b \in gone \/ (Claimed(b) /\ (b \in copy => b \in copy'))
  PROVE  ContentRight'
<1>1. copy \subseteq Books /\ copy' \subseteq Books
  BY DEF Typed, DownloadTypeOK
<1>2. ContentIsCounted'
  BY <1>1 DEF ContentIsCounted, ContentRight, Claimed, Account
<1>3. ContentIsThere'
  BY <1>1 DEF ContentIsThere, ContentRight, Claimed, Account
<1>4. QED
  BY <1>2, <1>3 DEF ContentRight

LEMMA Unaccounted ==
  ASSUME Typed, ContentRight, UNCHANGED <<copy, orphan, hollow>>,
         \A b \in Books : Claimed(b)' <=> Claimed(b)
  PROVE  ContentRight'
<1>1. copy \subseteq Books
  BY DEF Typed, DownloadTypeOK
<1>2. QED
  BY <1>1 DEF ContentIsCounted, ContentIsThere, ContentRight, Claimed

Handling == {"queued", "look", "restore", "save"}

LEMMA Hands ==
  ASSUME NEW c \in Callers, NEW at, NEW book, NEW id, OnlyCall(c, at, book, id)
  PROVE  /\ \A b : b # call[c].book \/ call[c].at \notin Handling =>
              (InHand(b)' <=> InHand(b) \/ (b = book /\ at \in Handling))
         /\ book = call[c].book /\ (call[c].at \in Handling <=> at \in Handling) =>
              \A b : InHand(b)' <=> InHand(b)
BY DEF InHand, OnlyCall, Handling

(* A call that gives its book up, and the content that may stay without a row. *)
LEMMA HandsOff ==
  ASSUME Typed, Typed', ContentRight, NEW c \in Callers, NEW at, NEW book, NEW id,
         OnlyCall(c, at, book, id), at \notin Handling, UNCHANGED row,
         \/ copy' = copy \ {call[c].book} /\ Account({}, {call[c].book})
         \/ UNCHANGED copy /\ Account({call[c].book}, {})
  PROVE  ContentRight'
<1>1. \A b : b # call[c].book => (Claimed(b)' <=> Claimed(b))
  BY Hands, RowsStay DEF Claimed
<1>2. \A b : Claimed(b)' => Claimed(b)
  <2>1. \A b : InHand(b)' => InHand(b)
    BY DEF InHand, OnlyCall, Handling
  <2>2. QED
    BY <2>1, RowsStay DEF Claimed
<1>3. CASE copy' = copy \ {call[c].book} /\ Account({}, {call[c].book})
  BY <1>1, <1>3, Accounted
<1>4. CASE UNCHANGED copy /\ Account({call[c].book}, {})
  BY <1>1, <1>2, <1>4, Accounted
<1>5. QED
  BY <1>3, <1>4

LEMMA CallsHandle ==
  ASSUME UNCHANGED call PROVE \A b : InHand(b)' <=> InHand(b)
BY DEF InHand

LEMMA CallContent ==
  ASSUME Typed, Typed', RowsRight, ContentRight, NEW c \in Callers, CallStep(c)
  PROVE  ContentRight'
<1>0. CallFits(call[c].at, call[c].book, call[c].id) /\ DownloadTypeOK
      /\ call[c].id \in Ids \union {None}
  BY DEF Typed, LockIsHeld, DownloadTypeOK, Call
<1>a. ASSUME RollsBack(c) PROVE ContentRight'
  <2>1. OnlyCall(c, "undo", call[c].book, call[c].id) /\ UNCHANGED row
    BY <1>0, <1>a, CallMoved, Placed DEF RollsBack
  <2>2. \/ copy' = copy \ {call[c].book} /\ Account({}, {call[c].book})
        \/ UNCHANGED copy /\ Account({call[c].book}, {})
    BY <1>a DEF RollsBack
  <2>3. "undo" \notin Handling
    BY DEF Handling
  <2>4. QED
    BY <2>1, <2>2, <2>3, HandsOff
<1>b. ASSUME NEW at, NEW id, OnlyCall(c, at, call[c].book, id),
             at \in Handling <=> call[c].at \in Handling, UNCHANGED <<copy, row, orphan, hollow>>
      PROVE  ContentRight'
  <2>1. \A b \in Books : Claimed(b)' <=> Claimed(b)
    BY <1>b, Hands, RowsStay DEF Claimed
  <2>2. QED
    BY <1>b, <2>1, Unaccounted
<1>c. ASSUME CallEnds(c), call[c].at \notin Handling, UNCHANGED <<copy, row, orphan, hollow>>
      PROVE  ContentRight'
  <2>1. OnlyCall(c, "idle", None, None)
    BY <1>0, <1>c, CallEnded
  <2>2. \A b \in Books : Claimed(b)' <=> Claimed(b)
    BY <1>c, <2>1, Hands, RowsStay DEF Claimed, Handling
  <2>3. QED
    BY <1>c, <2>2, Unaccounted
<1>1. ASSUME NEW b \in Books, DownloadStarts(c, b) PROVE ContentRight'
  <2>1. OnlyCall(c, "licence", b, None) /\ call[c].at = "idle" /\ UNCHANGED <<row, copy, orphan, hollow>>
    BY <1>0, <1>1, CallStarted DEF DownloadStarts, Histories
  <2>2. \A d \in Books : Claimed(d)' <=> Claimed(d)
    BY <2>1, Hands, RowsStay DEF Claimed, Handling
  <2>3. QED
    BY <2>1, <2>2, Unaccounted
<1>2. CASE Licensed(c)
  <2>1. CASE CallMoves(c, "fetch")
    <3>1. OnlyCall(c, "fetch", call[c].book, call[c].id)
      BY <1>0, <2>1, CallMoved, Placed
    <3>2. QED
      BY <1>b, <1>2, <3>1 DEF Licensed, Handling
  <2>2. QED
    BY <1>c, <1>2, <2>1 DEF Licensed, Handling
<1>3. CASE Stored(c)
  <2>1. Account({}, {}) /\ UNCHANGED row /\ call[c].at = "fetch"
    BY <1>3 DEF Stored
  <2>2. CASE copy' = copy \union {call[c].book} /\ CallMoves(c, "queued")
    <3>1. OnlyCall(c, "queued", call[c].book, call[c].id)
      BY <1>0, <2>2, CallMoved, Placed
    <3>2. \A b : InHand(b)' <=> InHand(b) \/ b = call[c].book
      BY <2>1, <3>1, Hands DEF Handling
    <3>3. \A b : Claimed(b)' <=> Claimed(b) \/ b = call[c].book
      BY <2>1, <3>2, RowsStay DEF Claimed
    <3>4. QED
      BY <2>1, <2>2, <3>3, Accounted
  <2>3. CASE CallEnds(c) /\ UNCHANGED <<copy, queue>>
    <3>1. OnlyCall(c, "idle", None, None)
      BY <1>0, <2>3, CallEnded
    <3>2. \A b : Claimed(b)' <=> Claimed(b)
      BY <2>1, <3>1, Hands, RowsStay DEF Claimed, Handling
    <3>3. QED
      BY <2>1, <2>3, <3>2, Accounted
  <2>4. QED
    BY <1>3, <2>2, <2>3 DEF Stored
<1>4. CASE Enter(c)
  <2>1. ASSUME NEW i \in ActiveOf(call[c].book), Finds(c, i) PROVE ContentRight'
    <3>1. OnlyCall(c, "save", call[c].book, i)
      BY <1>0, <2>1, CallFound, Placed DEF Finds, ActiveOf, Active
    <3>2. QED
      BY <1>b, <1>4, <2>1, <3>1 DEF Enter, Finds, Handling
  <2>2. CASE CallMoves(c, "look") /\ UNCHANGED <<copy, row, queue, orphan, hollow>>
    <3>1. OnlyCall(c, "look", call[c].book, call[c].id)
      BY <1>0, <2>2, CallMoved, Placed
    <3>2. QED
      BY <1>b, <1>4, <2>2, <3>1 DEF Enter, Handling
  <2>3. QED
    BY <1>a, <1>4, <2>1, <2>2 DEF Enter
<1>5. ASSUME NEW i \in Ids \union {None}, Finds(c, i), call[c].at \in {"look", "restore"}
      PROVE  ContentRight'
  <2>1. OnlyCall(c, "save", call[c].book, i)
    BY <1>0, <1>5, CallFound, Placed DEF Finds
  <2>2. QED
    BY <1>b, <1>5, <2>1 DEF Finds, Handling
<1>6. CASE Look(c)
  <2>1. call[c].at = "look" /\ call[c].book \in Books
    BY <1>0, <1>6 DEF Look, CallFits
  <2>2. remote[call[c].book] # None => remote[call[c].book].id \in Ids
    BY <1>0, <2>1, DocumentTyped
  <2>3. CASE /\ remote[call[c].book] # None
             /\ call' = [call EXCEPT ![c] = [@ EXCEPT !.at = "restore",
                                                      !.id = remote[call[c].book].id]]
             /\ UNCHANGED <<copy, row, queue, orphan, hollow>>
    <3>1. OnlyCall(c, "restore", call[c].book, remote[call[c].book].id)
      BY <1>0, <2>2, <2>3, CallFound, Placed
    <3>2. QED
      BY <1>b, <2>1, <2>3, <3>1 DEF Handling
  <2>4. QED
    BY <1>a, <1>5, <1>6, <2>1, <2>2, <2>3 DEF Look
<1>7. CASE Restore(c)
  BY <1>0, <1>a, <1>5, <1>7 DEF Restore
<1>8. CASE Save(c)
  <2>1. PICK i \in Ids : Puts(i, call[c].book, TRUE) /\ (row[i] # None => row[i].book = call[c].book)
    BY <1>8, SaveRows
  <2>2. call[c].at = "save" /\ call[c].book \in Books /\ Account({}, {}) /\ UNCHANGED copy
    BY <1>0, <1>8 DEF Save, CallFits
  <2>3. PICK b \in Books : b = call[c].book
    BY <2>2
  <2>4. Held' \subseteq Held \union {b} /\ Held \subseteq Held' /\ b \in Held'
    <3>1. Puts(i, b, TRUE) /\ (row[i] # None => row[i].book = b) /\ TRUE \in BOOLEAN
      BY <2>1, <2>3
    <3>2. Held' \subseteq Held \union {d \in {b} : TRUE} /\ Held \subseteq Held' \union {b} /\ b \in Held'
      BY <1>0, <3>1, RowPut
    <3>3. QED
      BY <3>2
  <2>5. OnlyCall(c, "tell", call[c].book, call[c].id)
    BY <1>0, <1>8, CallMoved, Placed DEF Save
  <2>6. \A d : d # b => (InHand(d)' <=> InHand(d))
    BY <2>3, <2>5, Hands DEF Handling
  <2>7. InHand(b)
    BY <2>2, <2>3 DEF InHand
  <2>8. \A d : Claimed(d)' <=> Claimed(d)
    BY <2>4, <2>6, <2>7 DEF Claimed
  <2>9. QED
    BY <2>2, <2>8, Accounted
<1>9. CASE Undone(c)
  BY <1>c, <1>9 DEF Undone, Handling
<1>10. CASE Tell(c)
  BY <1>c, <1>10 DEF Tell, Handling, Histories
<1>11. CASE FailsLocked(c)
  <2>1. OnlyCall(c, "idle", None, None)
    BY <1>0, <1>11, CallEnded DEF FailsLocked
  <2>2. QED
    BY <1>11, <2>1, HandsOff DEF FailsLocked, Handling
<1>12. QED
  BY <1>1, <1>2, <1>3, <1>4, <1>6, <1>7, <1>8, <1>9, <1>10, <1>11 DEF CallStep

LEMMA RowGoneContent ==
  ASSUME Typed, Typed', ContentRight, UNCHANGED <<call, copy>>, NEW i \in Ids, NEW b \in Books,
         Puts(i, b, FALSE), row[i] # None => row[i].book = b, Account({b}, {})
  PROVE  ContentRight'
<1>1. FALSE \in BOOLEAN /\ DownloadTypeOK
  BY DEF Typed
<1>2. Held' \subseteq Held \union {d \in {b} : FALSE} /\ Held \subseteq Held' \union {b}
  BY <1>1, RowPut
<1>3. \A d \in Books : (Claimed(d)' => Claimed(d)) /\ (Claimed(d) => Claimed(d)' \/ d = b)
  BY <1>2, CallsHandle DEF Claimed
<1>4. QED
  BY <1>3, Accounted

LEMMA PushContent ==
  ASSUME Typed, Typed', RowsRight, ContentRight, NEW i \in Ids, Push(i) PROVE ContentRight'
<1>1. /\ UNCHANGED <<call, copy>> /\ row[i] # None
      /\ \/ Puts(i, row[i].book, row[i].live) /\ UNCHANGED Histories
         \/ Puts(i, row[i].book, FALSE) /\ Account({row[i].book}, {})
         \/ Held' = Held /\ UNCHANGED <<orphan, hollow>>
  BY PushRows DEF Push
<1>2. PICK b \in Books : b = row[i].book
  BY <1>1, RowTyped DEF Typed
<1>3. CASE Puts(i, b, row[i].live) /\ UNCHANGED Histories
  <2>1. row[i].live \in BOOLEAN /\ (row[i].live => b \in Held)
    <3>1. row[i] \in DownloadRow
      BY <1>1, RowTyped DEF Typed
    <3>2. row[i].live => i \in Active
      BY <1>1 DEF Active
    <3>3. QED
      BY <1>2, <3>1, <3>2 DEF DownloadRow, Held
  <2>2. PICK live \in BOOLEAN : live = row[i].live
    BY <2>1
  <2>3. /\ Held' \subseteq Held \union {d \in {b} : live} /\ Held \subseteq Held' \union {b}
        /\ live => b \in Held'
        /\ ActiveOf(b)' = IF live THEN ActiveOf(b) \union {i} ELSE ActiveOf(b) \ {i}
    BY <1>1, <1>2, <1>3, <2>2, RowPut DEF Typed
  <2>4. live = TRUE => Held' = Held
    BY <2>1, <2>2, <2>3
  <2>5. live = FALSE => Held' = Held
    <3>1. SUFFICES ASSUME live = FALSE PROVE b \in Held => b \in Held'
      BY <2>3
    <3>2. i \notin ActiveOf(b)
      BY <2>2, <3>1 DEF ActiveOf, Active
    <3>3. ActiveOf(b)' = ActiveOf(b)
      BY <2>3, <3>1, <3>2
    <3>4. \A d : (d \in Held <=> ActiveOf(d) # {}) /\ (d \in Held' <=> ActiveOf(d)' # {})
      BY DEF Held, ActiveOf
    <3>5. QED
      BY <3>3, <3>4
  <2>6. Held' = Held
    BY <2>2, <2>4, <2>5
  <2>7. QED
    BY <1>1, <1>3, <2>6, CallsHandle, Unaccounted DEF Claimed, Histories
<1>4. CASE Puts(i, b, FALSE) /\ Account({b}, {})
  BY <1>1, <1>2, <1>4, RowGoneContent
<1>5. CASE Held' = Held /\ UNCHANGED <<orphan, hollow>>
  BY <1>1, <1>5, CallsHandle, Unaccounted DEF Claimed
<1>6. QED
  BY <1>1, <1>2, <1>3, <1>4, <1>5

LEMMA PullContent ==
  ASSUME Typed, Typed', RowsRight, ContentRight, NEW b \in Books, Pull(b) PROVE ContentRight'
<1>1. UNCHANGED <<call, copy>>
  BY DEF Pull
<1>2. PICK i \in Ids : /\ row[i] # None => row[i].book = b
                       /\ \/ Puts(i, b, TRUE) /\ Account({}, {b})
                          \/ Puts(i, b, FALSE) /\ Account({b}, {})
  BY PullRows
<1>3. CASE Puts(i, b, TRUE) /\ Account({}, {b})
  <2>1. TRUE \in BOOLEAN /\ DownloadTypeOK
    BY DEF Typed
  <2>2. Held' \subseteq Held \union {d \in {b} : TRUE} /\ Held \subseteq Held' \union {b} /\ b \in Held'
    BY <1>2, <1>3, <2>1, RowPut
  <2>3. \A d \in Books : (Claimed(d)' => Claimed(d) \/ d = b) /\ (Claimed(d) => Claimed(d)')
    BY <1>1, <2>2, CallsHandle DEF Claimed
  <2>4. QED
    BY <1>1, <1>3, <2>3, Accounted
<1>4. CASE Puts(i, b, FALSE) /\ Account({b}, {})
  BY <1>1, <1>2, <1>4, RowGoneContent
<1>5. QED
  BY <1>2, <1>3, <1>4

(* Deletions take content away, and are accounted for.                         *)
LEMMA DeletedContent ==
  ASSUME Typed, Typed', ContentRight, UNCHANGED <<row, call>>, NEW gone, copy' = copy \ gone,
         Account({}, gone)
  PROVE  ContentRight'
<1>1. \A d \in Books : Claimed(d)' <=> Claimed(d)
  BY RowsStay, CallsHandle DEF Claimed
<1>2. QED
  BY <1>1, Accounted

LEMMA DownloadContent ==
  ASSUME Typed, Typed', RowsRight, ContentRight, [DownloadNext]_downloadVars PROVE ContentRight'
<1>1. CASE \/ UNCHANGED downloadVars
           \/ \E b \in Books : EndRemoval(b) \/ OtherDevice(b)
           \/ ClearAll \/ ClearQueues \/ ClearFails \/ WriterAsks \/ WriterWrites
           \/ UNCHANGED <<row, call, copy, orphan, hollow>>
  <2>1. UNCHANGED <<row, call, copy, orphan, hollow>>
    BY <1>1 DEF downloadVars, EndRemoval, OtherDevice, ClearAll, ClearQueues, ClearFails,
                WriterAsks, WriterWrites, Histories
  <2>2. QED
    BY <2>1, RowsStay, CallsHandle, Unaccounted DEF Claimed
<1>2. ASSUME NEW b \in Books, NEW kind \in {"delete", "sweep"}, StartRemoval(b, kind)
      PROVE  ContentRight'
  BY <1>1, <1>2, DeletedContent DEF StartRemoval
<1>3. CASE ClearNext
  BY <1>1, <1>3, DeletedContent DEF ClearNext
<1>4. CASE ClearWrites
  <2>1. CASE UNCHANGED <<row, call, copy, orphan, hollow>>
    BY <2>1, RowsStay, CallsHandle, Unaccounted DEF Claimed
  <2>2. ASSUME NEW i \in Ids, row[i] # None, Puts(i, row[i].book, FALSE),
               Account({row[i].book}, {}), UNCHANGED <<call, copy>>
        PROVE  ContentRight'
    <3>1. PICK b \in Books : b = row[i].book
      BY <2>2, RowTyped DEF Typed
    <3>2. QED
      BY <2>2, <3>1, RowGoneContent
  <2>3. QED
    BY <1>4, <2>1, <2>2, ClearRows
<1>5. CASE DownloadsRestart
  <2>1. \A b : ~InHand(b)'
    BY <1>5 DEF DownloadsRestart, InHand, NoCall
  <2>2. \A b : Claimed(b)' <=> b \in Held
    BY <1>5, <2>1, RowsStay DEF DownloadsRestart, Claimed
  <2>3. \A b \in Books : Claimed(b) => Claimed(b)' \/ b \in {d \in Books : InHand(d)}
    BY <2>2 DEF Claimed
  <2>4. \A b : Claimed(b)' => Claimed(b)
    BY <2>2 DEF Claimed
  <2>5. Account({d \in Books : InHand(d)}, {}) /\ UNCHANGED copy
    BY <1>5 DEF DownloadsRestart
  <2>6. QED
    BY <2>3, <2>4, <2>5, Accounted
<1>6. QED
  BY <1>1, <1>2, <1>3, <1>4, <1>5, CallContent, PushContent, PullContent DEF DownloadNext

-----------------------------------------------------------------------------
LEMMA DownloadBegins == DownloadInit => DownloadInv
<1> SUFFICES ASSUME DownloadInit PROVE DownloadInv
  OBVIOUS
<1>1. spent \in [starts : 0..MaxStarts, deletions : 0..MaxDeletions, other : 0..MaxOther,
                 restarts : 0..MaxDownloadRestarts]
  <2>1. 0 \in 0..MaxStarts /\ 0 \in 0..MaxDeletions /\ 0 \in 0..MaxOther /\ 0 \in 0..MaxDownloadRestarts
    BY DownloadConstants
  <2>2. QED
    BY <2>1 DEF DownloadInit
<1>2. queue \in Seq(Callers \union Others)
  BY DEF DownloadInit
<1>3. DownloadTypeOK
  BY <1>1, <1>2, Idle DEF DownloadInit, DownloadTypeOK
<1>4. LockIsHeld /\ Clearing
  BY DEF DownloadInit, LockIsHeld, Clearing, NoCall, NoClear, CallFits, Counting, Early
<1>5. Active = {} /\ Held = {} /\ (\A b : ActiveOf(b) = {}) /\ Counted = {}
  BY DEF DownloadInit, Active, Held, ActiveOf, Counted
<1>6. OneBookPerId
  BY DownloadConstants DEF DownloadInit, OneBookPerId, Names, NoCall
<1>7. OwnRows /\ HolderIsRight
  BY <1>5 DEF DownloadInit, OwnRows, HolderIsRight, NoCall, Counting
<1>8. CountKept
  BY <1>5, FS_EmptySet, DownloadConstants DEF CountKept
<1>9. ContentIsCounted /\ ContentIsThere
  BY <1>5 DEF DownloadInit, ContentIsCounted, ContentIsThere, InHand, NoCall
<1>10. QED
  BY <1>3, <1>4, <1>6, <1>7, <1>8, <1>9 DEF DownloadInv, Typed

LEMMA DownloadSteps == DownloadInv /\ [DownloadNext]_downloadVars => DownloadInv'
BY DownloadTyped, DownloadRows, DownloadContent DEF DownloadInv, RowsRight, ContentRight

(* The rows, their number and the content stay as they should.                 *)
THEOREM DownloadInvariance == DownloadSpec => []DownloadInv
BY DownloadBegins, DownloadSteps, PTL DEF DownloadSpec

(* What holds of the content and the rows, for any number of screens, books    *)
(* and deletions.                                                              *)
THEOREM ContentAndRowsAgree == DownloadSpec => []ContentMatchesRows
<1>1. DownloadInv => ContentMatchesRows
  <2> SUFFICES ASSUME DownloadInv PROVE ContentMatchesRows
    OBVIOUS
  <2>1. RowsHaveContent
    BY HeldAreBooks DEF DownloadInv, Typed, ContentIsThere, RowsHaveContent
  <2>2. OneRowPerBook
    <3>1. SUFFICES ASSUME NEW b \in Books, b \notin doubled PROVE Cardinality(ActiveOf(b)) <= 1
      BY DEF OneRowPerBook
    <3>2. \A i, j \in ActiveOf(b) : i = j
      BY <3>1 DEF DownloadInv, OwnRows
    <3>3. CASE ActiveOf(b) = {}
      BY <3>3, FS_EmptySet
    <3>4. ASSUME NEW i \in ActiveOf(b) PROVE Cardinality(ActiveOf(b)) <= 1
      <4>1. ActiveOf(b) = {i}
        BY <3>2
      <4>2. Cardinality({i}) = 1
        BY FS_Singleton
      <4>3. QED
        BY <4>1, <4>2
    <3>5. QED
      BY <3>3, <3>4
  <2>3. QED
    BY <2>1, <2>2 DEF DownloadInv, ContentMatchesRows
<1>2. QED
  BY <1>1, DownloadInvariance, PTL

(* The five-book limit: after a download has written its row, the rows that    *)
(* were not pulled from another device are within it.                          *)
THEOREM NoDownloadOverTheLimit == DownloadSpec => LimitKept
<1> DEFINE Kept == \A c \in Callers :
       call[c].at = "save" /\ call'[c].at = "tell" /\ Active' # Active
       => Cardinality(Active' \ {remote'[b].id : b \in doubled'}) <= BookLimit
<1>1. DownloadInv' => Kept
  <2> SUFFICES ASSUME DownloadInv'
               PROVE  Cardinality(Active' \ {remote'[b].id : b \in doubled'}) <= BookLimit
    OBVIOUS
  <2>1. \A b \in doubled' : remote'[b] # None
    BY DEF DownloadInv, OwnRows
  <2>2. \A b \in doubled' : Server(b)' = remote'[b].id
    BY <2>1 DEF Server
  <2>3. Counted' = Active' \ {remote'[b].id : b \in doubled'}
    BY <2>2 DEF Counted
  <2>4. QED
    BY <2>3 DEF DownloadInv, CountKept
<1>2. QED
  BY <1>1, DownloadInvariance, PTL DEF LimitKept
=============================================================================
