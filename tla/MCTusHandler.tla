---------------------------- MODULE MCTusHandler ----------------------------
(* TusHandler for TLC: values for constants a .cfg cannot write, and the   *)
(* symmetry of the requests.                                               *)
EXTENDS TusProperties

Uploaders == Reqs \union {Zero}
NoLists == {<<>>}
Pairs == {<<p, q>> : p \in Ids, q \in Ids}
ZeroTwoOrNone == {0, 2, NoLen}
OneOrNone == {1, NoLen}

FullSymmetry == Permutations(Reqs) \union Permutations(Ids)

(* What later steps and properties of the store depend on. *)
Unobserved == <<store, owner, pc, job, expired, used, known>>
=============================================================================
