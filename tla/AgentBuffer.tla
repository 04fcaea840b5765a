---------------------------- MODULE AgentBuffer ----------------------------
(***************************************************************************)
(* The agent's bounded buffer, agent/internal/buffer/buffer.go: the        *)
(* operations of buffer.Limited as operators on the buffer's items.  Every *)
(* method of Limited holds its mutex from first to last line, so each one  *)
(* is a single step of the modules that use this one.                      *)
(*                                                                         *)
(* An item is [seq, datum, size]: seq is item.Sequence, size the number of *)
(* its samples, and datum names the payload (a name no other Enqueue of    *)
(* the agent's whole life, restarts included, ever uses again: sequences   *)
(* are not such names).  Go keeps the items in a slice; Enqueue appends    *)
(* with a growing sequence, so the set of items ordered by seq is that     *)
(* slice, and "oldest" is "smallest seq".                                  *)
(***************************************************************************)
EXTENDS Naturals, FiniteSets, FiniteSetsExt

CONSTANTS
    MaxItems,        \* Limited.maxItems: 256 batches
    MaxBytes,        \* Limited.maxBytes: WAOPS_BUFFER_MAX_BYTES
    PeekItems        \* maxItems of scheduler.flush: 100 batches per request

ASSUME BufferAssumption ==
    /\ MaxItems \in Nat \ {0}
    /\ MaxBytes \in Nat
    /\ PeekItems \in Nat \ {0}

\* approxBytes: 256 bytes a sample.
PerSample == 256

\* Limited.queued: the estimate of the bytes the items of S hold.
QueuedBytes(S) == MapThenSumSet(LAMBDA it : PerSample * it.size, S)

\* The items of S that are no older than the one numbered n.
From(S, n) == {it \in S : it.seq >= n}

\* The condition that stops Enqueue's drop loop.
Fits(S) == Cardinality(S) <= MaxItems /\ QueuedBytes(S) <= MaxBytes

\* Mutants of Trim: the newest goes first; the last item is never dropped.
TrimNewest(S) ==
    {it \in S : \E n \in it.seq..(it.seq + MaxItems) : Fits({j \in S : j.seq <= n})}
TrimKeepsLast(S) ==
    {it \in S : (\E n \in 0..it.seq : Fits(From(S, n))) \/ From(S, it.seq) = {it}}

(***************************************************************************)
(* Enqueue's loop drops the oldest item until what is left fits: it keeps  *)
(* the first suffix that does -- possibly none of the items, since an item *)
(* larger than MaxBytes drops itself.                                      *)
(***************************************************************************)
Trim(S) == {it \in S : \E n \in 0..it.seq : Fits(From(S, n))}

\* The sequence of the oldest item.
FirstSeq(S) == CHOOSE n \in {it.seq : it \in S} : \A it \in S : n <= it.seq

\* The loop itself: for (len(items) > maxItems || queued > maxBytes) && len(items) > 0,
\* which drops items[0] and goes on with what is left.
DropLoop(S) ==
    LET loop[T \in SUBSET S] ==
          IF ~Fits(T) /\ T # {} THEN loop[{it \in T : it.seq > FirstSeq(T)}] ELSE T
    IN  loop[S]

\* Limited.Enqueue of one item that has been given nextSeq.
Enqueue(S, it) == Trim(S \cup {it})

\* Limited.PeekBatch(PeekItems): the oldest items, whose samples go in one
\* request, and the sequence of the first of them.
PeekBatch(S) == {it \in S : Cardinality({j \in S : j.seq < it.seq}) < PeekItems}

\* Mutant of Ack: one sequence too far.
AckPast(S, acked) == {it \in S : it.seq > acked + 1}

\* Limited.Ack(acked): what is left.
Ack(S, acked) == {it \in S : it.seq > acked}

\* Limited.DropExpired: CreatedAt grows with seq, so what is older than the
\* cutoff is the items before some sequence.
DropExpired(S, cut) == From(S, cut)

\* The payloads of a set of items.
Data(S) == {it.datum : it \in S}
=============================================================================
