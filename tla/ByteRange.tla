----------------------------- MODULE ByteRange -----------------------------
(***************************************************************************)
(* GET /:sha256 with a Range header on a storage node (routes/blobs.ts):   *)
(* parseRange turns the header into the first and last byte, and the body  *)
(* is cut out of the stored bytes as they stream past in chunks of any     *)
(* size, either behind a seek (storage/local.ts, utils/streams.ts) or,     *)
(* for an adapter without range reads, by skipping and counting.  Bytes    *)
(* are their positions; a slice that is handed on is its first position    *)
(* and its length.                                                         *)
(***************************************************************************)
EXTENDS Integers

CONSTANT MaxBlob   \* bound on the size of a blob
ASSUME MaxBlobIsNat == MaxBlob \in Nat

VARIABLES
    blobSize,   \* bytes of the blob
    wants,      \* the two numbers of the header, NaN where one is missing
    range,      \* first and last byte to send, or Unsatisfiable
    seeks,      \* does the adapter have readRange?
    rangeAt,    \* "parse", "stream", "done" or "refused"
    offset,     \* position of the next byte that the stored stream yields
    skipped,    \* bytesSkipped
    taken,      \* bytes handed on: bytesRead, or limit - remaining
    misplaced   \* history: slices that did not start where the last one ended

rangeVars == <<blobSize, wants, range, seeks, rangeAt, offset, skipped, taken, misplaced>>

NaN == -1
Unsatisfiable == <<0, NaN>>
Length == range[2] - range[1] + 1

\* bytes=a-b, bytes=a- and bytes=-n; anything outside the blob is refused.
ParseRange(first, last, total) ==
    LET start == IF first = NaN THEN total - last ELSE first
        end   == IF first = NaN \/ last = NaN THEN total - 1 ELSE last
    IN IF \/ first = NaN /\ last = NaN
          \/ start < 0 \/ end >= total \/ start > end
       THEN Unsatisfiable
       ELSE <<start, end>>

RangeInit ==
    /\ blobSize \in 1..MaxBlob
    /\ wants \in ({NaN} \cup 0..MaxBlob) \X ({NaN} \cup 0..MaxBlob)
    /\ seeks \in BOOLEAN
    /\ range = Unsatisfiable /\ rangeAt = "parse"
    /\ offset = 0 /\ skipped = 0 /\ taken = 0 /\ misplaced = 0

\* 416, or the stream is opened; readRange of the adapter seeks first.
OpenRange ==
    /\ rangeAt = "parse"
    /\ range' = ParseRange(wants[1], wants[2], blobSize)
    /\ rangeAt' = IF range' = Unsatisfiable THEN "refused" ELSE "stream"
    /\ offset' = IF seeks THEN range'[1] ELSE 0
    /\ UNCHANGED <<blobSize, wants, seeks, skipped, taken, misplaced>>

\* A slice that starts at position p is handed on.
Enqueue(p, n) ==
    /\ taken' = taken + n
    /\ misplaced' = misplaced + (IF p = range[1] + taken THEN 0 ELSE 1)
    /\ rangeAt' = IF taken + n >= Length THEN "done" ELSE "stream"

AtMost(n) == IF n < Length - taken THEN n ELSE Length - taken

\* Mutant: the chunk in which the range starts is handed on from its start.
SliceChunkWhole(n) ==
    /\ offset' = offset + n
    /\ IF skipped < range[1] /\ n <= range[1] - skipped
       THEN skipped' = skipped + n /\ UNCHANGED <<rangeAt, taken, misplaced>>
       ELSE skipped' = range[1] /\ Enqueue(offset, AtMost(n))

\* Without readRange: the bytes before the range are counted and dropped, the
\* chunk in which it starts is cut, and the loop ends with enough bytes.
SliceChunk(n) ==
    /\ offset' = offset + n
    /\ LET remaining == range[1] - skipped IN
         \/ /\ skipped < range[1] /\ n <= remaining
            /\ skipped' = skipped + n
            /\ UNCHANGED <<rangeAt, taken, misplaced>>
         \/ /\ skipped < range[1] /\ n > remaining
            /\ skipped' = range[1]
            /\ Enqueue(offset + remaining, AtMost(n - remaining))
         \/ /\ skipped >= range[1]
            /\ Enqueue(offset, AtMost(n)) /\ UNCHANGED skipped

\* Behind the seek: byteLimitTransform passes limit bytes and terminates.
LimitChunk(n) ==
    /\ offset' = offset + n
    /\ Enqueue(offset, AtMost(n))
    /\ UNCHANGED skipped

\* The stored stream yields its next chunk.
Chunk(n) ==
    /\ rangeAt = "stream" /\ offset + n <= blobSize
    /\ IF seeks THEN LimitChunk(n) ELSE SliceChunk(n)
    /\ UNCHANGED <<blobSize, wants, range, seeks>>

\* It ends; the response is closed with what it has.
StreamEnds ==
    /\ rangeAt = "stream" /\ offset = blobSize
    /\ rangeAt' = "done"
    /\ UNCHANGED <<blobSize, wants, range, seeks, offset, skipped, taken, misplaced>>

RangeNext == OpenRange \/ (\E n \in 1..MaxBlob : Chunk(n)) \/ StreamEnds
RangeSpec == RangeInit /\ [][RangeNext]_rangeVars

-----------------------------------------------------------------------------

\* However the stored bytes are cut into chunks, the response to a range
\* request is in order, never exceeds the Content-Length it announces and,
\* when it is over, has exactly the bytes from start to end.
RangeExact ==
    rangeAt \in {"stream", "done"} =>
        /\ 0 <= range[1] /\ range[1] <= range[2] /\ range[2] < blobSize
        /\ misplaced = 0 /\ taken <= Length
        /\ rangeAt = "done" => taken = Length
=============================================================================
