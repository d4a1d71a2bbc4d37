----------------------------- MODULE MCPatchBody -----------------------------
(* PatchBody for TLC: a file of MaxLen bytes, and the pieces of it that    *)
(* clients send.                                                           *)
EXTENDS PatchBody

CONSTANT MaxLen   (* bound: the length of the file *)

Places == 0..MaxLen
Pieces == {Span(0, 1), Span(0, MaxLen), Span(1, MaxLen)}
OneOfChecked == [r \in Reqs |-> IF r \in Checked THEN 1 ELSE 0]
NotYet == {NoLen}

=============================================================================
