----------------------------- MODULE MCFsUpload -----------------------------
(* FsUpload for TLC: the names of part files, and the symmetry of requests. *)
EXTENDS FsUpload

TwoParts == <<"part_0", "part_1">>
ThreeParts == <<"part_0", "part_1", "part_2">>
UpToTwo == 0..2
LengthsOrNone == {0, 3, NoLen}

Symmetry == Permutations(Reqs)
=============================================================================
