-------------------------------- MODULE Fifo --------------------------------
(* The queue of waiters of a tokio Mutex: first in, first out, and whoever *)
(* stops waiting leaves it from any place.                                 *)
EXTENDS Naturals, SequencesExt

(* A queue that r has left: a dropped lock() future gives its place up. *)
Without(q, r) ==
  IF \E i \in DOMAIN q : q[i] = r
  THEN RemoveAt(q, CHOOSE i \in DOMAIN q : q[i] = r)
  ELSE q

=============================================================================
