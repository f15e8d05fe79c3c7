-------------------------------- MODULE Ring --------------------------------
(***************************************************************************)
(* The adapter's event rings.  Entry (seq - 1) % N of an array of N is      *)
(* overwritten by event seq, and the snapshot copies the array out oldest   *)
(* first: together, the sequence of the newest N events.  Every entry is a  *)
(* record with a field seq, counted from 1.                                 *)
(***************************************************************************)
EXTENDS Integers, Sequences

\* queue_object_event and its like, after which a snapshot would show this.
Push(ring, n, event) ==
    IF Len(ring) < n THEN Append(ring, event) ELSE Append(Tail(ring), event)

\* The entries a reader that has seen everything up to mark still has to see.
Unseen(ring, mark) == SelectSeq(ring, LAMBDA e : e.seq > mark)

\* The reader missed some: the oldest of them is not the next one.
Gap(ring, mark) ==
    /\ \E k \in 1 .. Len(ring) : ring[k].seq > mark
    /\ \A k \in 1 .. Len(ring) : ring[k].seq > mark => ring[k].seq > mark + 1

\* The reader's loop over the snapshot: what it has not seen is applied in its order.
Replayed(ring, mark, o, Apply(_, _)) ==
    LET at[k \in 0 .. Len(ring)] ==
            IF k = 0 THEN o
            ELSE IF ring[k].seq > mark THEN Apply(at[k - 1], ring[k]) ELSE at[k - 1]
    IN  at[Len(ring)]

\* The reader's mark afterwards.
MarkAfter(ring, mark) ==
    IF ring # <<>> /\ ring[Len(ring)].seq > mark THEN ring[Len(ring)].seq ELSE mark
=============================================================================
