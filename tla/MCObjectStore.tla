--------------------------- MODULE MCObjectStore ----------------------------
(* ObjectStore for TLC: names of objects, five partials of which one has   *)
(* no bytes and two fill a part exactly, and the symmetry of requests.     *)
EXTENDS ObjectStore

FourParts == <<"part_0", "part_1", "part_2", "part_3">>
FiveTmps == <<"tmp_0", "tmp_1", "tmp_2", "tmp_3", "tmp_4">>
FivePartials == <<"a", "b", "c", "d", "e">>
FivePartialsBytes == <<<<1>>, <<>>, <<2, 3>>, <<4>>, <<5, 6>>>>
LengthsOrNone == {0, 1, 3, NoLen}

Symmetry == Permutations(Reqs)
=============================================================================
