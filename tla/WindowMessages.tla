--------------------------- MODULE WindowMessages ---------------------------
(***************************************************************************)
(* How a V1 window becomes messages (v1/messages.cpp): chunks of at most    *)
(* ten samples, the PRE samples in chunks of their own, and a completion    *)
(* that lists the chunks.  A window is [pre, total]: its first `pre'        *)
(* samples have phase PRE.  A chunk is the range of samples it holds and    *)
(* whether all of them are PRE; its bytes and digest are a function of that *)
(* and of the metadata, so equal ranges are equal contents.                 *)
(***************************************************************************)
EXTENDS Integers, Sequences, FiniteSets

CONSTANTS
    ChunkSamples,   \* samples in a full chunk (10)
    MaxChunks       \* chunks in a window (15)

ASSUME ChunkAssumption ==
    /\ ChunkSamples \in Nat \ {0}
    /\ MaxChunks \in Nat \ {0}

\* Mutant: the chunk after the PRE samples starts one sample late.
build_growing_messages_gap(w) ==
    LET cut[first \in 0..w.total] ==
            IF first = w.total THEN <<>>
            ELSE LET end   == IF first < w.pre THEN w.pre ELSE w.total
                     left  == end - first
                     count == IF left < ChunkSamples THEN left ELSE ChunkSamples
                     skip  == IF end = w.pre /\ count = left /\ end < w.total
                              THEN 1 ELSE 0
                 IN  <<[first |-> first, count |-> count,
                        pre |-> first + count <= w.pre]>>
                     \o cut[first + count + skip]
    IN  cut[0]

\* Mutant: chunks of the PRE samples are cut one sample short.
build_growing_messages_short(w) ==
    LET cut[first \in 0..w.total] ==
            IF first = w.total THEN <<>>
            ELSE LET end   == IF first < w.pre THEN w.pre ELSE w.total
                     most  == IF first < w.pre THEN ChunkSamples - 1
                              ELSE ChunkSamples
                     count == IF end - first < most THEN end - first ELSE most
                 IN  <<[first |-> first, count |-> count,
                        pre |-> first + count <= w.pre]>> \o cut[first + count]
    IN  cut[0]

\* The loop of build_partitioned_messages with seal_pre: chunks in order.
build_growing_messages(w) ==
    LET cut[first \in 0..w.total] ==
            IF first = w.total THEN <<>>
            ELSE LET end   == IF first < w.pre THEN w.pre ELSE w.total
                     left  == end - first
                     count == IF left < ChunkSamples THEN left ELSE ChunkSamples
                 IN  <<[first |-> first, count |-> count,
                        pre |-> first + count <= w.pre]>> \o cut[first + count]
    IN  cut[0]

\* Mutant: a chunk one sample short is taken for full.
sealed_capture_chunk_early(c) == c.count >= ChunkSamples - 1 \/ c.pre

\* sealed_capture_chunk: a chunk that can no longer grow.
sealed_capture_chunk(c) == c.count = ChunkSamples \/ c.pre

\* canonicalize_completion_content: the schema's bounds on the samples of each
\* phase and on the chunk list.
CompletionCounts(w, active, post, most, chunks) ==
    /\ w.total > 0
    /\ w.pre <= most.pre /\ active <= most.active /\ post <= most.post
    /\ Len(chunks) >= (w.total + ChunkSamples - 1) \div ChunkSamples
    /\ Len(chunks) <= MaxChunks
    /\ Len(chunks) <= w.total

\* verify_completed_set: the chunks follow each other without gap or overlap
\* and together hold every sample.
Contiguous(w, chunks) ==
    /\ chunks[1].first = 0
    /\ \A i \in 1..Len(chunks) :
          chunks[i].first + chunks[i].count =
              IF i = Len(chunks) THEN w.total ELSE chunks[i + 1].first

=============================================================================
