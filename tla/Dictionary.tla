----------------------------- MODULE Dictionary -----------------------------
(***************************************************************************)
(* A Python dictionary in the order of its insertion: the sequence of its  *)
(* keys, each of which it has once.  The caches of the storage backends    *)
(* and the buckets of their policies are such dictionaries.                *)
(***************************************************************************)
EXTENDS Integers, Sequences, SequencesExt

\* The first place of k in s.
Place(s, k) == CHOOSE i \in DOMAIN s : s[i] = k /\ \A j \in 1..i - 1 : s[j] # k

\* pop(k): the other keys keep their order.
Without(s, k) == IF k \in Range(s) THEN RemoveAt(s, Place(s, k)) ELSE s

\* The orders of a dictionary s after move_to_end of each key of hits, the last
\* of them first: the keys that were hit come last, the first of hits at the end.
MovedToEnd(s, hits) ==
    LET precedes(a, b) ==
            \/ a \notin Range(hits) /\ b \in Range(hits)
            \/ a \notin Range(hits) /\ b \notin Range(hits) /\ Place(s, a) < Place(s, b)
            \/ a \in Range(hits) /\ b \in Range(hits) /\ Place(hits, a) > Place(hits, b)
    IN  {r \in [DOMAIN s -> Range(s)] :
            /\ Range(r) = Range(s)
            /\ \A i, j \in DOMAIN r : i < j => precedes(r[i], r[j])}
=============================================================================
