---------------------------- MODULE ChunkedFetch ----------------------------
(***************************************************************************)
(* fetchEncryptedAssetChunked() of one book: its encrypted asset is        *)
(* fetched range by range into a partial file, with a manifest beside it   *)
(* that says how much of the file can be trusted, so that a fetch cut off  *)
(* by the death of the process is resumed.  downloadBook() and openBook()  *)
(* share the two files of a book, and each discards them when its fetch    *)
(* fails.                                                                  *)
(*                                                                         *)
(* A file is the sequence of the chunks written to it; the chunk <<v, n>>  *)
(* is the n-th of version v of the asset, which the server may replace.    *)
(***************************************************************************)
EXTENDS Absence, Naturals, Sequences

CONSTANTS
  Versions,     \* versions of the asset
  Chunks,       \* version -> its length in chunks
  MaxChunks,    \* options.maxBytes, in chunks
  Fetchers,     \* calls for this book at a time (bound)
  MaxReplaced,  \* replacements of the asset on the server (bound)
  MaxFetchRestarts   \* deaths of the process (bound)

ASSUME ChunksAssumption == Chunks \in [Versions -> Nat \ {0}]
ASSUME FetchBounds == {MaxChunks, MaxReplaced, MaxFetchRestarts} \subseteq Nat

VARIABLES
  served,   \* the version the server answers with
  file,     \* the .partial.bin file
  manifest, \* the .partial.json file: [expected, received]
  fetch,    \* caller -> its fetch
  tried,    \* how much of each bound is used up
  mixed,    \* history: a fetch returned something that is no version
  overlaps  \* history: what may make one do so

fetchVars == <<served, file, manifest, fetch, tried, mixed, overlaps>>

Chunk == Versions \X Nat
Manifest == [expected : Nat, received : Nat]
Reply == [data : Seq(Chunk), total : Nat \union {None}]
Fetch == [at : {"idle", "head", "body"}, received : Nat,
          expected : Nat \union {None}, reply : Reply \union {None}]
Overlap == {"two fetches", "replaced", "no total"}

ASSUME NoVersionAssumption ==
  None \notin Versions \union Nat \union Seq(Chunk) \union Manifest \union Reply

NoFetch == [at |-> "idle", received |-> 0, expected |-> None, reply |-> None]

FetchTypeOK ==
  /\ served \in Versions
  /\ file \in Seq(Chunk) \union {None}
  /\ manifest \in Manifest \union {None}
  /\ fetch \in [Fetchers -> Fetch]
  /\ tried \in [replaced : 0..MaxReplaced, restarts : 0..MaxFetchRestarts]
  /\ mixed \in BOOLEAN
  /\ overlaps \subseteq Overlap

FetchInit ==
  /\ served \in Versions
  /\ file = None
  /\ manifest = None
  /\ fetch = [f \in Fetchers |-> NoFetch]
  /\ tried = [replaced |-> 0, restarts |-> 0]
  /\ mixed = FALSE
  /\ overlaps = {}

Fetching(f) == fetch[f].at # "idle"
Whole(v) == [n \in 1..Chunks[v] |-> <<v, n>>]
FetchMoves(f, at) == fetch' = [fetch EXCEPT ![f] = [@ EXCEPT !.at = at]]
FetchEnds(f) == fetch' = [fetch EXCEPT ![f] = NoFetch]
Receives(f, answer) ==
  fetch' = [fetch EXCEPT ![f] = [@ EXCEPT !.at = "body", !.reply = answer]]
Discards == file' = None /\ manifest' = None

(* The bytes a fetch hands to its caller.                                   *)
Returns(bytes) == mixed' = (mixed \/ bytes \notin {Whole(v) : v \in Versions})

(* appendOrCreate(): a chunk goes to the end of the file as it is by now.   *)
Appended(f) ==
  IF fetch[f].received > 0 /\ file # None THEN file \o fetch[f].reply.data
                                           ELSE fetch[f].reply.data
Expected(f) == IF fetch[f].expected = None THEN fetch[f].reply.total ELSE fetch[f].expected
WithinBudget(f) == fetch[f].expected # None \/ fetch[f].reply.total <= MaxChunks

-----------------------------------------------------------------------------
(* Mutant: the manifest alone is believed.                                  *)
TrustedManifest == manifest # None /\ file # None

(* What is on disk can be resumed: the file is as long as the manifest says.*)
Trusted == manifest # None /\ file # None /\ Len(file) = manifest.received

(* A new call: resume what is there, refuse what is over the budget, or     *)
(* start clean.  What is complete already is returned as it is.             *)
FetchStarts(f) ==
  /\ ~Fetching(f)
  /\ overlaps' = overlaps \union {s \in {"two fetches"} : \E g \in Fetchers : Fetching(g)}
  /\ \/ /\ Trusted /\ manifest.expected <= MaxChunks
        /\ manifest.received < manifest.expected
        /\ fetch' = [fetch EXCEPT ![f] = [NoFetch EXCEPT !.at = "head",
             !.received = manifest.received, !.expected = manifest.expected]]
        /\ UNCHANGED <<file, manifest, mixed>>
     \/ /\ Trusted /\ manifest.expected <= MaxChunks
        /\ manifest.received >= manifest.expected
        /\ Returns(file)
        /\ Discards
        /\ UNCHANGED fetch
     \/ /\ Trusted /\ manifest.expected > MaxChunks
        /\ Discards
        /\ UNCHANGED <<fetch, mixed>>
     \/ /\ ~Trusted
        /\ Discards
        /\ FetchMoves(f, "head")
        /\ UNCHANGED mixed
  /\ UNCHANGED <<served, tried>>

(* fetchRange(): the server knows ranges (206, with the length of the       *)
(* asset) or not (200).  A range past the end is refused (FetchFails).  A   *)
(* 206 whose Content-Range names no length is read as if it were a 200,     *)
(* although its body is the range alone.                                    *)
Headers(f) ==
  LET range == <<<<served, fetch[f].received + 1>>>>
      within == fetch[f].received < Chunks[served]
  IN  /\ fetch[f].at = "head"
      /\ \/ /\ within
            /\ Receives(f, [data |-> range, total |-> Chunks[served]])
            /\ UNCHANGED overlaps
         \/ /\ Receives(f, [data |-> Whole(served), total |-> None])
            /\ UNCHANGED overlaps
         \/ /\ within
            /\ Receives(f, [data |-> range, total |-> None])
            /\ overlaps' = overlaps \union {"no total"}
      /\ UNCHANGED <<served, file, manifest, tried, mixed>>

(* Storing a chunk may be cut short: in the append (a chunk of no number is *)
(* a torn one), or between the file and the manifest, which is deleted,     *)
(* made and written.                                                        *)
StoresPartly(f) ==
  /\ fetch[f].at = "body" /\ fetch[f].reply.total # None /\ WithinBudget(f)
  /\ \/ /\ file' = (IF fetch[f].received > 0 /\ file # None THEN file ELSE <<>>)
                     \o <<<<fetch[f].reply.data[1][1], 0>>>>
        /\ UNCHANGED manifest
     \/ /\ file' = Appended(f)
        /\ manifest' \in {manifest, None,
             [expected |-> Expected(f), received |-> fetch[f].received + 1]}

(* The request, its timer, its body or the file system fails, or it is      *)
(* refused: the caller discards what there is and gives up.  A discard that *)
(* fails is only logged: both files stay, or the manifest does.             *)
FetchFails(f) ==
  /\ fetch[f].at \in {"head", "body"}
  /\ \/ Discards
     \/ UNCHANGED <<file, manifest>>
     \/ file' = None /\ UNCHANGED manifest
     \/ StoresPartly(f)
  /\ FetchEnds(f)
  /\ UNCHANGED <<served, tried, mixed, overlaps>>

(* The body of a 200 is the whole asset: written, read back and discarded.  *)
Unranged(f) ==
  /\ fetch[f].at = "body" /\ fetch[f].reply.total = None
  /\ Returns(fetch[f].reply.data)
  /\ Discards
  /\ FetchEnds(f)
  /\ UNCHANGED <<served, tried, overlaps>>

(* The first chunk tells a length over the budget.                          *)
TooLarge(f) ==
  /\ fetch[f].at = "body" /\ fetch[f].reply.total # None /\ ~WithinBudget(f)
  /\ Discards
  /\ FetchEnds(f)
  /\ UNCHANGED <<served, tried, mixed, overlaps>>

(* A chunk: the file, then the manifest; the last one returns the file.     *)
Chunked(f) ==
  /\ fetch[f].at = "body" /\ fetch[f].reply.total # None /\ WithinBudget(f)
  /\ LET received == fetch[f].received + 1
     IN  \/ /\ received < Expected(f)
            /\ file' = Appended(f)
            /\ manifest' = [expected |-> Expected(f), received |-> received]
            /\ fetch' = [fetch EXCEPT ![f] = [NoFetch EXCEPT !.at = "head",
                 !.received = received, !.expected = Expected(f)]]
            /\ UNCHANGED mixed
         \/ /\ received >= Expected(f)
            /\ Returns(Appended(f))
            /\ Discards
            /\ FetchEnds(f)
  /\ UNCHANGED <<served, tried, overlaps>>

-----------------------------------------------------------------------------
(* The process dies while it waits, or while it stores a chunk.             *)
FetchRestart ==
  /\ tried.restarts < MaxFetchRestarts
  /\ tried' = [tried EXCEPT !.restarts = @ + 1]
  /\ fetch' = [f \in Fetchers |-> NoFetch]
  /\ UNCHANGED <<file, manifest>> \/ \E f \in Fetchers : StoresPartly(f)
  /\ UNCHANGED <<served, mixed, overlaps>>

(* The publisher's asset changes; what has been fetched of it is stale.     *)
Replace(v) ==
  /\ tried.replaced < MaxReplaced /\ v # served
  /\ tried' = [tried EXCEPT !.replaced = @ + 1]
  /\ served' = v
  /\ overlaps' = overlaps \union {s \in {"replaced"} :
                 file # None \/ \E f \in Fetchers : Fetching(f)}
  /\ UNCHANGED <<file, manifest, fetch, mixed>>

-----------------------------------------------------------------------------
FetchStep(f) ==
  FetchStarts(f) \/ Headers(f) \/ FetchFails(f) \/ Unranged(f) \/ TooLarge(f) \/ Chunked(f)
FetchNext ==
  \/ \E f \in Fetchers : FetchStep(f)
  \/ FetchRestart
  \/ \E v \in Versions : Replace(v)

FetchSpec == FetchInit /\ [][FetchNext]_fetchVars

-----------------------------------------------------------------------------
(* What a fetch returns is the asset, byte for byte, however often fetches  *)
(* were cut off by a death or a failure, also in the middle of storing a    *)
(* chunk, and resumed.  Two fetches of the book at once (an open beside a   *)
(* download), a replaced asset and a 206 without a length are the only ways *)
(* to something else.                                                       *)
WholeUnlessSlip == mixed => overlaps # {}

-----------------------------------------------------------------------------
(* "A server that ignores the `Range` header entirely (200, not 206) is     *)
(* handled too: whatever comes back is treated as the complete asset"       *)
(* (chunkedAssetFetcher.ts): and so only what is complete, as long as one   *)
(* fetch reads one asset.                                                   *)
OnlyTheCompleteIsReturned == mixed => overlaps \intersect {"two fetches", "replaced"} # {}
=============================================================================
